-------------------------- MODULE ProvidersProofs --------------------------
(***************************************************************************)
(* The calls an agent makes of its providers, for any URLs, blocked ones,  *)
(* redirects, attempts, delays, engines and entrances: the log and the     *)
(* result of an LLM call agree, a fetched page is honest and survives the  *)
(* browser, and an abort is the end of each of the four calls. And the     *)
(* page that follows a run: what it shows is true.                         *)
(***************************************************************************)
EXTENDS MCProviders, SequenceTheorems, FiniteSetTheorems, WellFoundedInduction, TLAPS

-----------------------------------------------------------------------------
(* One call at a time *)

\* A step of the whole is one of each call, or leaves it where it is.
LEMMA StepOfEach ==
  ASSUME [ProvidersNext]_providersVars
  PROVE  /\ [Llm!Next]_llmVars /\ [Next]_vars
         /\ [Fetch!Next]_fetchVars /\ [Fusion!Next]_fusionVars
         /\ [Monitor!Next]_monitorVars
BY DEF ProvidersNext, providersVars, Complete, Searching, Fetching, Layered, Watching

-----------------------------------------------------------------------------
(* Fetching a page *)

\* The record of a page that is handed over, and the answer made of it.
LEMMA RecordTyped ==
  ASSUME NEW url \in Urls, NEW text \in Fetch!Texts, NEW status \in {"none", "ok", "error"},
         NEW mode \in {"static", "browser"}, NEW warnings \in SUBSET Fetch!Warnings
  PROVE  LET r == Fetch!Record(url, text, status, mode, warnings) IN
         /\ r \in Fetch!Records
         /\ r.finalUrl = url /\ r.content = text /\ r.status = status
         /\ r.mode = mode /\ r.warnings = warnings
BY DEF Fetch!Record, Fetch!Records

LEMMA TextTyped ==
  ASSUME NEW url \in Urls, NEW kind \in Fetch!Kinds
  PROVE  /\ Fetch!Text(kind, url) \in Fetch!Texts
         /\ Fetch!Text(kind, url).from \in {None, url}
         /\ Fetch!Text(kind, url).kind = kind
BY DEF Fetch!Text, Fetch!Texts

LEMMA ClassifiedAgrees ==
  ASSUME NEW r \in Fetch!Records
  PROVE  /\ Fetch!Classified(r).page = r
         /\ Fetch!Classified(r).error = "none"
         /\ Fetch!Classified(r).outcome \in {"success_with_content", "success_empty", "http_error"}
         /\ Fetch!Classified(r).outcome = "success_with_content" =>
              r.status # "error" /\ ~Fetch!Weak(r.content.kind)
BY DEF Fetch!Classified, Fetch!Answer

LEMMA NoPageTyped ==
  /\ Fetch!NoPage \in Fetch!Records /\ Fetch!NoPage.finalUrl = None
  /\ Fetch!NoPage.warnings = {}
  /\ Fetch!Nowhere \in [url : Urls \cup {None}, text : Fetch!Texts]
BY DEF Fetch!NoPage, Fetch!Nowhere, Fetch!Record, Fetch!Records, Fetch!NoText, Fetch!Text,
       Fetch!Texts, Fetch!Kinds

\* What a step of the fetch promises, besides the invariant.
FetchStep ==
  /\ Fetch!WarningsCarried
  /\ (page.finalUrl # None /\ stage' = "done" =>
        \/ fetchAborted
        \/ answer'.error = "blocked"
        \/ /\ Fetch!Answered'
           /\ answer'.page.status = page.status
           /\ \/ answer'.page.mode = "browser"
              \/ answer'.page.content = page.content)
  /\ (fetchAborted => /\ stage' = "rendering" => stage = "rendering"
                      /\ answer'.outcome = "transport_error" => answer' = answer)

\* The call ends with an error: nothing is handed over.
LEMMA ThrowsKeepsInv ==
  ASSUME Fetch!PipelineInv, stage # "done",
         \/ Fetch!ThrowsBlocked
         \/ Fetch!Throws /\ (fetchAborted \/ page.finalUrl = None)
  PROVE  Fetch!PipelineInv' /\ FetchStep
<1>1. PICK e \in {"blocked", "failed"} :
        /\ Fetch!Ends(Fetch!CaughtAnswer(e))
        /\ e = "failed" => fetchAborted \/ page.finalUrl = None
  BY DEF Fetch!Throws, Fetch!ThrowsBlocked
<1>2. /\ stage' = "done" /\ target' = Start /\ hops' = 0 /\ page' = Fetch!NoPage
      /\ rendered' = Fetch!Nowhere /\ fetchAborted' = fetchAborted
      /\ answer' = Fetch!CaughtAnswer(e)
  BY <1>1 DEF Fetch!Ends
<1>3. CASE fetchAborted
  <2>1. answer' = [outcome |-> "threw", error |-> "none", page |-> Fetch!NoPage]
    BY <1>2, <1>3 DEF Fetch!CaughtAnswer, Fetch!Answer
  <2>2. Fetch!PipelineInv'
    BY <1>2, <2>1, NoPageTyped, ProvidersAssumption
       DEF Fetch!PipelineInv, Fetch!FetchTypeOK, Fetch!AnswerAgrees, Fetch!Answered,
           Fetch!InBrowser, Fetch!Stage, Fetch!FetchPipelineAssumption
  <2> QED
    BY <1>3, <1>2, <2>1, <2>2
       DEF FetchStep, Fetch!WarningsCarried, Fetch!Answered
<1>4. CASE ~fetchAborted
  <2> DEFINE r == Fetch!Record(Start, Fetch!NoText, "none", "static", {})
  <2>1. r.warnings = {}
    BY DEF Fetch!Record
  <2> HIDE DEF r
  <2>2. answer' = [outcome |-> "transport_error", error |-> e, page |-> r]
    BY <1>2, <1>4 DEF Fetch!CaughtAnswer, Fetch!Failure, Fetch!Answer, r
  <2>3. Fetch!PipelineInv'
    BY <1>2, <2>1, <2>2, NoPageTyped, ProvidersAssumption
       DEF Fetch!PipelineInv, Fetch!FetchTypeOK, Fetch!AnswerAgrees, Fetch!Answered,
           Fetch!InBrowser, Fetch!Stage, Fetch!FetchPipelineAssumption
  <2> QED
    BY <1>1, <1>2, <1>4, <2>2, <2>3
       DEF FetchStep, Fetch!WarningsCarried, Fetch!Answered
<1> QED
  BY <1>3, <1>4

\* The call ends with a page: the hook's, the static one, or a rendered one.
LEMMA ReturnsKeepsInv ==
  ASSUME Fetch!PipelineInv, stage # "done", NEW r \in Fetch!Records, Fetch!Returns(r),
         r.finalUrl \in Urls \ Blocked, r.content.from \in {None, r.finalUrl},
         page.warnings \subseteq r.warnings,
         r.mode = "browser" => Fetch!NeedsBrowser(page.content.kind),
         page.finalUrl # None =>
           /\ r.status = page.status
           /\ r.mode = "static" =>
                r.content = page.content /\ "browser_failed" \in r.warnings
  PROVE  Fetch!PipelineInv' /\ FetchStep
<1>1. /\ stage' = "done" /\ target' = Start /\ hops' = 0 /\ page' = Fetch!NoPage
      /\ rendered' = Fetch!Nowhere /\ fetchAborted' = fetchAborted
      /\ answer' = Fetch!Classified(r)
  BY DEF Fetch!Ends, Fetch!Returns
<1>2. /\ answer'.page = r /\ answer'.outcome # "none" /\ Fetch!Answered'
      /\ answer'.outcome # "transport_error"
      /\ answer'.outcome = "success_with_content" =>
           r.status # "error" /\ ~Fetch!Weak(r.content.kind)
      /\ r.warnings \in SUBSET Fetch!Warnings /\ r.mode \in {"static", "browser"}
  BY <1>1, ClassifiedAgrees DEF Fetch!Answered, Fetch!Records
<1>3. Fetch!PipelineInv'
  BY <1>1, <1>2, NoPageTyped, ProvidersAssumption
     DEF Fetch!PipelineInv, Fetch!FetchTypeOK, Fetch!AnswerAgrees,
         Fetch!InBrowser, Fetch!Stage, Fetch!FetchPipelineAssumption
<1> QED
  BY <1>1, <1>2, <1>3 DEF FetchStep, Fetch!WarningsCarried

\* The call goes on: nothing is answered yet.
LEMMA GoesOnKeepsInv ==
  ASSUME Fetch!PipelineInv, stage # "done", answer' = answer,
         stage' \in Fetch!Stage \ {"done"}, fetchAborted' \in BOOLEAN,
         target' \in Urls, hops' \in 0..MaxRedirects, page' \in Fetch!Records,
         rendered' \in [url : Urls \cup {None}, text : Fetch!Texts],
         stage' \in {"request", "body", "extracting"} => target' \notin Blocked,
         stage' \in {"new", "check", "web"} => page' = Fetch!NoPage,
         ~Fetch!InBrowser' => page'.finalUrl = None,
         Fetch!InBrowser' =>
           /\ page'.finalUrl \in Urls \ Blocked
           /\ page'.content.from \in {None, page'.finalUrl}
           /\ Fetch!NeedsBrowser(page'.content.kind)
           /\ fetchAborted => stage' = "reextracting" \/ stage = "rendering",
         stage' = "reextracting" =>
           rendered'.url \in Urls \ Blocked /\ rendered'.text.from \in {None, rendered'.url}
  PROVE  Fetch!PipelineInv' /\ FetchStep
<1>1. answer'.outcome = "none" /\ ~Fetch!Answered' /\ answer'.page.warnings \subseteq Fetch!Warnings
  BY DEF Fetch!PipelineInv, Fetch!FetchTypeOK, Fetch!Answered
<1>2. Fetch!FetchTypeOK' /\ Fetch!AnswerAgrees'
  BY <1>1 DEF Fetch!FetchTypeOK, Fetch!AnswerAgrees, Fetch!Stage, Fetch!Records
<1>3. Fetch!PipelineInv'
  BY <1>2 DEF Fetch!PipelineInv
<1>4. fetchAborted /\ stage' = "rendering" => stage = "rendering"
  BY DEF Fetch!InBrowser
<1> QED
  BY <1>1, <1>3, <1>4 DEF FetchStep, Fetch!WarningsCarried

\* The static page: an answer, or what the browser is asked about.
LEMMA StaticDoneKeepsInv ==
  ASSUME Fetch!PipelineInv, stage \in {"body", "extracting"},
         NEW kind \in Fetch!Kinds, NEW warnings \in SUBSET Fetch!Warnings,
         Fetch!StaticDone(kind, warnings)
  PROVE  Fetch!PipelineInv' /\ FetchStep
<1> DEFINE r == Fetch!StaticRecord(kind, warnings)
<1>0. /\ page \in Fetch!Records /\ page.finalUrl = None /\ target \in Urls \ Blocked
      /\ stage # "done"
  BY DEF Fetch!PipelineInv, Fetch!FetchTypeOK, Fetch!InBrowser
<1>1. PICK w \in SUBSET Fetch!Warnings :
        /\ r = Fetch!Record(target, Fetch!Text(kind, target), page.status, "static", w)
        /\ page.warnings \subseteq w
  <2> DEFINE w == page.warnings \cup warnings
                    \cup (IF Fetch!TooShort(kind) THEN {"static_extraction_weak"} ELSE {})
  <2>1. page.warnings \in SUBSET Fetch!Warnings
    BY <1>0 DEF Fetch!Records
  <2>2. w \in SUBSET Fetch!Warnings /\ page.warnings \subseteq w
    BY <2>1 DEF Fetch!Warnings
  <2> QED
    BY <2>2 DEF Fetch!StaticRecord
<1>2. /\ r \in Fetch!Records /\ r.finalUrl = target
      /\ r.content = Fetch!Text(kind, target) /\ r.mode = "static" /\ r.warnings = w
      /\ r.content \in Fetch!Texts /\ r.content.from \in {None, target}
      /\ r.content.kind = kind
  <2>1. page.status \in {"none", "ok", "error"}
    BY <1>0 DEF Fetch!Records
  <2> QED
    BY <1>0, <1>1, <2>1, RecordTyped, TextTyped
<1> HIDE DEF r
<1>3. CASE Fetch!Throws
  BY <1>0, <1>3, ThrowsKeepsInv
<1>4. CASE Fetch!Returns(r)
  BY <1>0, <1>1, <1>2, <1>4, ReturnsKeepsInv
<1>5. CASE /\ ~fetchAborted /\ Fetch!NeedsBrowser(kind) /\ stage' = "rendering" /\ page' = r
           /\ UNCHANGED <<fetchAborted, target, hops, rendered, answer>>
  BY <1>0, <1>2, <1>5, GoesOnKeepsInv
     DEF Fetch!PipelineInv, Fetch!FetchTypeOK, Fetch!InBrowser, Fetch!Stage
<1> QED
  BY <1>3, <1>4, <1>5 DEF Fetch!StaticDone, r

\* A page the browser rendered.
LEMMA RenderedKeepsInv ==
  ASSUME Fetch!PipelineInv, Fetch!InBrowser,
         NEW url \in Urls \ Blocked, NEW text \in Fetch!Texts, text.from \in {None, url},
         NEW warnings \in SUBSET Fetch!Warnings,
         Fetch!Returns(Fetch!RenderedRecord(url, text, warnings))
  PROVE  Fetch!PipelineInv' /\ FetchStep
<1> DEFINE r == Fetch!RenderedRecord(url, text, warnings)
<1>0. page \in Fetch!Records /\ Fetch!NeedsBrowser(page.content.kind) /\ stage # "done"
  BY DEF Fetch!PipelineInv, Fetch!InBrowser
<1>1. PICK w \in SUBSET Fetch!Warnings :
        /\ r = Fetch!Record(url, text, page.status, "browser", w)
        /\ page.warnings \subseteq w
  <2> DEFINE w == page.warnings \cup warnings
                    \cup (IF Fetch!NeedsBrowser(text.kind) THEN {"browser_extraction_weak"} ELSE {})
  <2>1. page.warnings \in SUBSET Fetch!Warnings
    BY <1>0 DEF Fetch!Records
  <2>2. w \in SUBSET Fetch!Warnings /\ page.warnings \subseteq w
    BY <2>1 DEF Fetch!Warnings
  <2> QED
    BY <2>2 DEF Fetch!RenderedRecord
<1>2. /\ r \in Fetch!Records /\ r.finalUrl = url /\ r.content = text
      /\ r.status = page.status /\ r.mode = "browser" /\ r.warnings = w
  <2>1. page.status \in {"none", "ok", "error"}
    BY <1>0 DEF Fetch!Records
  <2> QED
    BY <1>1, <2>1, RecordTyped
<1> HIDE DEF r
<1>3. Fetch!Returns(r)
  BY DEF r
<1> QED
  BY <1>0, <1>1, <1>2, <1>3, ReturnsKeepsInv

LEMMA NetworkKeepsInv ==
  ASSUME Fetch!PipelineInv, Fetch!Begin \/ Fetch!Network
  PROVE  Fetch!PipelineInv' /\ FetchStep
<1>0. /\ page \in Fetch!Records /\ target \in Urls /\ hops \in 0..MaxRedirects
      /\ fetchAborted \in BOOLEAN /\ MaxRedirects \in Nat
      /\ rendered \in [url : Urls \cup {None}, text : Fetch!Texts]
      /\ ~Fetch!InBrowser => page.finalUrl = None
      /\ stage \in {"new", "check", "web"} => page = Fetch!NoPage
      /\ stage \in {"request", "body", "extracting"} => target \notin Blocked
  BY ProvidersAssumption
     DEF Fetch!PipelineInv, Fetch!FetchTypeOK, Fetch!FetchPipelineAssumption
<1>1. CASE Fetch!Begin
  BY <1>0, <1>1, GoesOnKeepsInv DEF Fetch!Begin, Fetch!InBrowser, Fetch!Stage
<1>2. ASSUME NEW resolves \in BOOLEAN, Fetch!Checked(resolves)
      PROVE  Fetch!PipelineInv' /\ FetchStep
  <2>1. stage = "check" /\ page.finalUrl = None
    BY <1>0, <1>2 DEF Fetch!Checked, Fetch!InBrowser
  <2>2. CASE Fetch!Throws \/ Fetch!ThrowsBlocked
    BY <2>1, <2>2, ThrowsKeepsInv
  <2>3. CASE /\ stage' \in {"web", "lookup"}
             /\ UNCHANGED <<fetchAborted, target, hops, page, rendered, answer>>
    BY <1>0, <2>1, <2>3, GoesOnKeepsInv DEF Fetch!InBrowser, Fetch!Stage
  <2> QED
    BY <1>2, <2>2, <2>3 DEF Fetch!Checked
<1>3. ASSUME stage = "web", NEW w \in SUBSET Fetch!Warnings, Fetch!FallBack(w)
      PROVE  Fetch!PipelineInv' /\ FetchStep
  <2>1. page' \in Fetch!Records /\ page'.finalUrl = page.finalUrl
    BY <1>0, <1>3 DEF Fetch!FallBack, Fetch!Records
  <2> QED
    BY <1>0, <1>3, <2>1, GoesOnKeepsInv DEF Fetch!FallBack, Fetch!InBrowser, Fetch!Stage
<1>4. ASSUME NEW url \in Urls, NEW kind \in Fetch!Kinds, Fetch!WebFetchAnswers(url, kind)
      PROVE  Fetch!PipelineInv' /\ FetchStep
  <2> DEFINE r == Fetch!Record(url, Fetch!Text(kind, url), "none", "static", {})
  <2>1. stage = "web" /\ page.finalUrl = None /\ page.warnings = {}
    BY <1>0, <1>4, NoPageTyped DEF Fetch!WebFetchAnswers, Fetch!InBrowser
  <2>2. CASE Fetch!Throws
    BY <2>1, <2>2, ThrowsKeepsInv
  <2>3. CASE Fetch!FallBack({}) \/ Fetch!FallBack({"webfetch_weak"})
    BY <1>3, <2>1, <2>3 DEF Fetch!Warnings
  <2>4. CASE url \notin Blocked /\ Fetch!Returns(r)
    <3>1. /\ r \in Fetch!Records /\ r.finalUrl = url /\ r.mode = "static"
          /\ r.content.from \in {None, url}
      BY TextTyped, RecordTyped
    <3> HIDE DEF r
    <3> QED
      BY <2>1, <2>4, <3>1, ReturnsKeepsInv
  <2> QED
    BY <1>4, <2>2, <2>3, <2>4 DEF Fetch!WebFetchAnswers
<1>5. ASSUME NEW cancellation \in BOOLEAN, Fetch!WebFetchThrows(cancellation)
      PROVE  Fetch!PipelineInv' /\ FetchStep
  <2>1. stage = "web" /\ page.finalUrl = None
    BY <1>0, <1>5 DEF Fetch!WebFetchThrows, Fetch!InBrowser
  <2>2. CASE Fetch!Throws
    BY <2>1, <2>2, ThrowsKeepsInv
  <2>3. CASE Fetch!FallBack({})
    BY <1>3, <2>1, <2>3
  <2> QED
    BY <1>5, <2>2, <2>3 DEF Fetch!WebFetchThrows
<1>6. ASSUME NEW resolves \in BOOLEAN, Fetch!Lookup(resolves)
      PROVE  Fetch!PipelineInv' /\ FetchStep
  <2>1. stage = "lookup" /\ page.finalUrl = None
    BY <1>0, <1>6 DEF Fetch!Lookup, Fetch!InBrowser
  <2>2. CASE Fetch!Throws \/ Fetch!ThrowsBlocked
    BY <2>1, <2>2, ThrowsKeepsInv
  <2>3. CASE /\ target \notin Blocked /\ stage' = "request"
             /\ UNCHANGED <<fetchAborted, target, hops, page, rendered, answer>>
    BY <1>0, <2>1, <2>3, GoesOnKeepsInv DEF Fetch!InBrowser, Fetch!Stage
  <2> QED
    BY <1>6, <2>2, <2>3 DEF Fetch!Lookup
<1>7. ASSUME NEW location \in Urls, Fetch!Redirected(location)
      PROVE  Fetch!PipelineInv' /\ FetchStep
  <2>1. stage = "request" /\ page.finalUrl = None
    BY <1>0, <1>7 DEF Fetch!Redirected, Fetch!InBrowser
  <2>2. CASE Fetch!Throws
    BY <2>1, <2>2, ThrowsKeepsInv
  <2>3. CASE /\ ~Fetch!LastHop /\ stage' = "lookup" /\ target' = location /\ hops' = hops + 1
             /\ UNCHANGED <<fetchAborted, page, rendered, answer>>
    <3>1. hops' \in 0..MaxRedirects
      BY <1>0, <2>3 DEF Fetch!LastHop
    <3> QED
      BY <1>0, <2>1, <2>3, <3>1, GoesOnKeepsInv DEF Fetch!InBrowser, Fetch!Stage
  <2> QED
    BY <1>7, <2>2, <2>3 DEF Fetch!Redirected
<1>8. ASSUME NEW status \in {"ok", "error"}, Fetch!Responds(status)
      PROVE  Fetch!PipelineInv' /\ FetchStep
  <2>1. stage = "request" /\ stage' = "body" /\ page.finalUrl = None
    BY <1>0, <1>8 DEF Fetch!Responds, Fetch!InBrowser
  <2>2. page' \in Fetch!Records /\ page'.finalUrl = page.finalUrl
    BY <1>0, <1>8 DEF Fetch!Responds, Fetch!Records
  <2> QED
    BY <1>0, <1>8, <2>1, <2>2, GoesOnKeepsInv DEF Fetch!Responds, Fetch!InBrowser, Fetch!Stage
<1>9. CASE Fetch!NetworkFails
  BY <1>0, <1>9, ThrowsKeepsInv DEF Fetch!NetworkFails, Fetch!InBrowser
<1> QED
  BY <1>1, <1>2, <1>4, <1>5, <1>6, <1>7, <1>8, <1>9 DEF Fetch!Network

LEMMA ExtractionKeepsInv ==
  ASSUME Fetch!PipelineInv, Fetch!Extraction
  PROVE  Fetch!PipelineInv' /\ FetchStep
<1>0. /\ page \in Fetch!Records /\ target \in Urls /\ hops \in 0..MaxRedirects
      /\ fetchAborted \in BOOLEAN
      /\ rendered \in [url : Urls \cup {None}, text : Fetch!Texts]
      /\ ~Fetch!InBrowser => page.finalUrl = None
      /\ stage \in {"request", "body", "extracting"} => target \notin Blocked
      /\ stage = "reextracting" =>
           /\ rendered.url \in Urls \ Blocked /\ rendered.text \in Fetch!Texts
           /\ rendered.text.from \in {None, rendered.url}
  BY DEF Fetch!PipelineInv, Fetch!FetchTypeOK
<1>1. ASSUME NEW kind \in Fetch!Kinds, Fetch!SmallBody(kind) \/ Fetch!StaticExtracted(kind)
      PROVE  Fetch!PipelineInv' /\ FetchStep
  BY <1>1, StaticDoneKeepsInv DEF Fetch!SmallBody, Fetch!StaticExtracted
<1>2. ASSUME NEW cut \in BOOLEAN, Fetch!LargeBody(cut)
      PROVE  Fetch!PipelineInv' /\ FetchStep
  <2>1. stage = "body" /\ stage' = "extracting" /\ page.finalUrl = None
    BY <1>0, <1>2 DEF Fetch!LargeBody, Fetch!InBrowser
  <2>2. page' \in Fetch!Records /\ page'.finalUrl = page.finalUrl
    <3>1. page' = [page EXCEPT !.warnings = page.warnings \cup Fetch!Truncation(cut)]
      BY <1>2 DEF Fetch!LargeBody
    <3>2. page.warnings \cup Fetch!Truncation(cut) \in SUBSET Fetch!Warnings
      BY <1>0 DEF Fetch!Truncation, Fetch!Warnings, Fetch!Records
    <3> QED
      BY <1>0, <3>1, <3>2 DEF Fetch!Records
  <2> QED
    BY <1>0, <1>2, <2>1, <2>2, GoesOnKeepsInv DEF Fetch!LargeBody, Fetch!InBrowser, Fetch!Stage
<1>3. CASE Fetch!StaticExtractionFails
  <2>1. stage = "extracting" /\ page.finalUrl = None
    BY <1>0, <1>3 DEF Fetch!StaticExtractionFails, Fetch!InBrowser
  <2>2. CASE Fetch!Throws
    BY <2>1, <2>2, ThrowsKeepsInv
  <2>3. CASE Fetch!StaticDone("empty", {"static_extraction_failed"})
    BY <2>1, <2>3, StaticDoneKeepsInv DEF Fetch!Kinds, Fetch!Warnings
  <2> QED
    BY <1>3, <2>2, <2>3 DEF Fetch!StaticExtractionFails
<1>4. ASSUME NEW kind \in Fetch!Kinds, Fetch!RenderedExtracted(kind)
      PROVE  Fetch!PipelineInv' /\ FetchStep
  <2> DEFINE new == Fetch!Text(kind, rendered.url)
  <2>1. stage = "reextracting" /\ Fetch!InBrowser
        /\ Fetch!ReturnRendered(rendered.url, rendered.text, new)
    BY <1>4 DEF Fetch!RenderedExtracted, Fetch!InBrowser
  <2>2. new \in Fetch!Texts /\ new.from \in {None, rendered.url}
    BY <1>0, <2>1, TextTyped
  <2> HIDE DEF new
  <2>3. \/ Fetch!Returns(Fetch!RenderedRecord(rendered.url, new, {}))
        \/ Fetch!Returns(Fetch!RenderedRecord(rendered.url, rendered.text,
                                              {"browser_html_extraction_empty"}))
    BY <2>1 DEF Fetch!ReturnRendered
  <2>4. {} \in SUBSET Fetch!Warnings /\ {"browser_html_extraction_empty"} \in SUBSET Fetch!Warnings
    BY DEF Fetch!Warnings
  <2> QED
    BY <1>0, <2>1, <2>2, <2>3, <2>4, RenderedKeepsInv
<1>5. CASE Fetch!RenderedExtractionFails
  <2>1. stage = "reextracting" /\ Fetch!InBrowser
    BY <1>5 DEF Fetch!RenderedExtractionFails, Fetch!InBrowser
  <2>2. CASE fetchAborted /\ Fetch!Throws
    BY <2>1, <2>2, ThrowsKeepsInv
  <2>3. CASE Fetch!Returns(Fetch!RenderedRecord(rendered.url, rendered.text,
                                                {"browser_html_extraction_failed"}))
    <3>1. {"browser_html_extraction_failed"} \in SUBSET Fetch!Warnings
      BY DEF Fetch!Warnings
    <3> QED
      BY <1>0, <2>1, <2>3, <3>1, RenderedKeepsInv
  <2> QED
    BY <1>5, <2>2, <2>3 DEF Fetch!RenderedExtractionFails
<1> QED
  BY <1>1, <1>2, <1>3, <1>4, <1>5 DEF Fetch!Extraction

LEMMA BrowserKeepsInv ==
  ASSUME Fetch!PipelineInv, Fetch!Browser
  PROVE  Fetch!PipelineInv' /\ FetchStep
<1>0. /\ page \in Fetch!Records /\ target \in Urls /\ hops \in 0..MaxRedirects
      /\ fetchAborted \in BOOLEAN
      /\ Fetch!InBrowser =>
           /\ page.finalUrl \in Urls \ Blocked
           /\ page.content.from \in {None, page.finalUrl}
           /\ Fetch!NeedsBrowser(page.content.kind)
  BY DEF Fetch!PipelineInv, Fetch!FetchTypeOK
<1>1. ASSUME NEW url \in Urls, NEW body \in Fetch!Kinds, NEW html \in Fetch!Kinds \cup {"none"},
             Fetch!Renders(url, body, html)
      PROVE  Fetch!PipelineInv' /\ FetchStep
  <2> DEFINE old == Fetch!Text(body, url)
             new == Fetch!Text(html, url)
  <2>1. stage = "rendering" /\ Fetch!InBrowser /\ stage # "done"
    BY <1>1 DEF Fetch!Renders, Fetch!InBrowser
  <2>2. /\ old \in Fetch!Texts /\ old.from \in {None, url}
        /\ html # "none" => new \in Fetch!Texts /\ new.from \in {None, url}
    BY TextTyped
  <2> HIDE DEF old, new
  <2>3. CASE Fetch!ThrowsBlocked
    BY <2>1, <2>3, ThrowsKeepsInv
  <2>4. {} \in SUBSET Fetch!Warnings /\ {"browser_html_extraction_empty"} \in SUBSET Fetch!Warnings
    BY DEF Fetch!Warnings
  <2>5. CASE url \notin Blocked /\ Fetch!Returns(Fetch!RenderedRecord(url, old, {}))
    BY <2>1, <2>2, <2>4, <2>5, RenderedKeepsInv
  <2>6. CASE url \notin Blocked /\ html # "none" /\ Fetch!ReturnRendered(url, old, new)
    <3>1. \/ Fetch!Returns(Fetch!RenderedRecord(url, new, {}))
          \/ Fetch!Returns(Fetch!RenderedRecord(url, old, {"browser_html_extraction_empty"}))
      BY <2>6 DEF Fetch!ReturnRendered
    <3> QED
      BY <2>1, <2>2, <2>4, <2>6, <3>1, RenderedKeepsInv
  <2> QED
    BY <1>1, <2>3, <2>5, <2>6 DEF Fetch!Renders, old, new
<1>2. ASSUME NEW url \in Urls, NEW body \in Fetch!Kinds, Fetch!RendersLarge(url, body)
      PROVE  Fetch!PipelineInv' /\ FetchStep
  <2> DEFINE text == Fetch!Text(body, url)
  <2>1. /\ stage = "rendering" /\ stage' = "reextracting" /\ url \in Urls \ Blocked
        /\ rendered' = [url |-> url, text |-> text]
        /\ UNCHANGED <<fetchAborted, target, hops, page, answer>>
    BY <1>2 DEF Fetch!RendersLarge
  <2>2. text \in Fetch!Texts /\ text.from \in {None, url}
    BY TextTyped
  <2> HIDE DEF text
  <2> QED
    BY <1>0, <2>1, <2>2, GoesOnKeepsInv DEF Fetch!InBrowser, Fetch!Stage
<1>3. CASE Fetch!RenderFails
  <2> DEFINE r == [page EXCEPT !.warnings = page.warnings \cup {"browser_failed"}]
  <2>1. stage = "rendering" /\ Fetch!InBrowser /\ stage # "done"
    BY <1>3 DEF Fetch!RenderFails, Fetch!InBrowser
  <2>2. CASE fetchAborted /\ Fetch!Throws
    BY <2>1, <2>2, ThrowsKeepsInv
  <2>3. CASE Fetch!Returns(r)
    <3>1. page.warnings \cup {"browser_failed"} \in SUBSET Fetch!Warnings
      BY <1>0 DEF Fetch!Warnings, Fetch!Records
    <3>2. /\ r \in Fetch!Records /\ r.finalUrl = page.finalUrl /\ r.content = page.content
          /\ r.status = page.status
          /\ r.warnings = page.warnings \cup {"browser_failed"}
      BY <1>0, <3>1 DEF Fetch!Records
    <3> HIDE DEF r
    <3> QED
      BY <1>0, <2>1, <2>3, <3>2, ReturnsKeepsInv
  <2> QED
    BY <1>3, <2>2, <2>3 DEF Fetch!RenderFails, Fetch!StaticResultKept
<1> QED
  BY <1>1, <1>2, <1>3 DEF Fetch!Browser

LEMMA FetchKeepsInv ==
  ASSUME Fetch!PipelineInv, [Fetch!Next]_fetchVars
  PROVE  Fetch!PipelineInv' /\ FetchStep
<1>1. CASE Fetch!Begin \/ Fetch!Network
  BY <1>1, NetworkKeepsInv
<1>2. CASE Fetch!Extraction
  BY <1>2, ExtractionKeepsInv
<1>3. CASE Fetch!Browser
  BY <1>3, BrowserKeepsInv
<1>4. CASE Fetch!Abort
  <2>1. /\ stage # "done" /\ fetchAborted' = TRUE /\ ~fetchAborted
        /\ UNCHANGED <<stage, target, hops, page, rendered, answer>>
    BY <1>4 DEF Fetch!Abort
  <2> QED
    BY <2>1, GoesOnKeepsInv
       DEF Fetch!PipelineInv, Fetch!FetchTypeOK, Fetch!InBrowser, Fetch!Stage
<1>5. CASE UNCHANGED fetchVars
  <2>1. UNCHANGED <<stage, fetchAborted, target, hops, page, rendered, answer>>
    BY <1>5 DEF fetchVars
  <2>2. Fetch!PipelineInv'
    BY <2>1 DEF Fetch!PipelineInv, Fetch!FetchTypeOK, Fetch!AnswerAgrees, Fetch!Answered,
                Fetch!InBrowser
  <2>3. stage' = "done" => page.finalUrl = None
    BY <2>1 DEF Fetch!PipelineInv, Fetch!InBrowser
  <2>4. ~(stage # "done" /\ Fetch!Answered')
    BY <2>1 DEF Fetch!PipelineInv, Fetch!FetchTypeOK, Fetch!Answered
  <2> QED
    BY <2>1, <2>2, <2>3, <2>4 DEF FetchStep, Fetch!WarningsCarried
<1> QED
  BY <1>1, <1>2, <1>3, <1>4, <1>5 DEF Fetch!Next

LEMMA FetchInitHasInv == Fetch!Init => Fetch!PipelineInv
<1> SUFFICES ASSUME Fetch!Init PROVE Fetch!PipelineInv
  OBVIOUS
<1>1. /\ answer.outcome = "none" /\ answer.page = Fetch!NoPage
  BY DEF Fetch!Init, Fetch!Unanswered, Fetch!Answer
<1>2. /\ stage = "new" /\ fetchAborted = FALSE /\ target = Start /\ hops = 0
      /\ page = Fetch!NoPage /\ rendered = Fetch!Nowhere
      /\ Start \in Urls /\ MaxRedirects \in Nat
  BY ProvidersAssumption DEF Fetch!Init, Fetch!FetchPipelineAssumption
<1>3. Fetch!FetchTypeOK
  <2>1. page.warnings = {} /\ answer.page.warnings = {}
    BY <1>1, <1>2, NoPageTyped
  <2>2. hops \in 0..MaxRedirects /\ stage \in Fetch!Stage /\ stage # "done"
    BY <1>2 DEF Fetch!Stage
  <2> QED
    BY <1>1, <1>2, <2>1, <2>2 DEF Fetch!FetchTypeOK
<1>4. Fetch!AnswerAgrees
  BY <1>1 DEF Fetch!AnswerAgrees, Fetch!Answered
<1> QED
  BY <1>2, <1>3, <1>4, NoPageTyped DEF Fetch!PipelineInv, Fetch!InBrowser

LEMMA PipelineInvHolds == ProvidersSpec => []Fetch!PipelineInv
<1>1. ProvidersInit => Fetch!PipelineInv
  BY FetchInitHasInv DEF ProvidersInit
<1>2. Fetch!PipelineInv /\ [ProvidersNext]_providersVars => Fetch!PipelineInv'
  BY StepOfEach, FetchKeepsInv
<1> QED
  BY <1>1, <1>2, PTL DEF ProvidersSpec

\* Whatever the hook, the redirects, the extraction and the browser do: a page
\* that is handed over has the text of the URL it says, that URL is allowed, it
\* is content only if it is, and what went wrong is among its warnings.
THEOREM PagesAreHonest == ProvidersSpec => PageIsHonest
<1>1. Fetch!PipelineInv => Fetch!FetchTypeOK /\ Fetch!AnswerAgrees
  BY DEF Fetch!PipelineInv
<1>2. Fetch!PipelineInv /\ [ProvidersNext]_providersVars
        => [Fetch!WarningsCarried]_(Fetch!vars)
  BY StepOfEach, FetchKeepsInv DEF FetchStep
<1> QED
  BY <1>1, <1>2, PipelineInvHolds, PTL DEF ProvidersSpec, PageIsHonest, Fetch!PageIsHonest

\* However the browser, its pool or the extraction of what it rendered fails, a
\* static page that was read is answered.
THEOREM StaticPagesSurvive == ProvidersSpec => StaticPageSurvives
<1>1. Fetch!PipelineInv /\ [ProvidersNext]_providersVars
        => [page.finalUrl # None /\ stage' = "done" =>
              \/ fetchAborted
              \/ answer'.error = "blocked"
              \/ /\ Fetch!Answered'
                 /\ answer'.page.status = page.status
                 /\ \/ answer'.page.mode = "browser"
                    \/ answer'.page.content = page.content]_(Fetch!vars)
  BY StepOfEach, FetchKeepsInv DEF FetchStep
<1> QED
  BY <1>1, PipelineInvHolds, PTL DEF ProvidersSpec, StaticPageSurvives, Fetch!StaticPageSurvives

-----------------------------------------------------------------------------
(* Filters *)

\* A set of natural numbers that is not empty has a least element.
LEMMA Least ==
  ASSUME NEW T \in SUBSET Nat, T # {}
  PROVE  \E m \in T : \A k \in T : m <= k
<1>1. PICK m \in T : \A k \in T : <<k, m>> \notin OpToRel(<, Nat)
  BY NatLessThanWellFounded, WFMin
<1>2. \A ss \in Nat \X Nat : (ss[1] < ss[2]) => ss \in OpToRel(<, Nat)
  BY Zenon DEF OpToRel
<1>3. ASSUME NEW k \in T PROVE m <= k
  <2>1. k \in Nat /\ m \in Nat /\ <<k, m>> \in Nat \X Nat
    OBVIOUS
  <2>2. ~(k < m)
    BY <1>1, <1>2, <2>1
  <2> QED
    BY <2>1, <2>2
<1> QED
  BY <1>3

\* What a filter over s has kept of the first n, given what it kept before.
KeepOne(s, keep, before, n) ==
  IF n = 0 THEN <<>>
  ELSE IF s[n] \in keep THEN Append(before[n - 1], s[n])
  ELSE before[n - 1]

Filters(s, keep, f) ==
  f = [n \in 0..Len(s) |-> KeepOne(s, keep, f, n)]

LEMMA FilterExists ==
  ASSUME NEW S, NEW s \in Seq(S), NEW keep
  PROVE  \E f : Filters(s, keep, f)
<1>0. /\ Len(s) \in Nat /\ <<>> \in Seq(S)
      /\ \A i \in 1..Len(s) : s[i] \in S
  OBVIOUS
<1> DEFINE All == Seq(S)
           Has(k) == \E f \in [0..k -> All] : \A n \in 0..k : f[n] = KeepOne(s, keep, f, n)
           T == {k \in 0..Len(s) : ~Has(k)}
<1> HIDE DEF Has
<1>1. ASSUME T # {} PROVE FALSE
  <2>2. PICK k \in T : \A j \in T : k <= j
    <3>1. T \in SUBSET Nat
      BY <1>0
    <3> HIDE DEF T
    <3> QED
      BY <1>1, <3>1, Least
  <2>3. CASE k = 0
    <3> DEFINE f == [n \in 0..0 |-> <<>>]
    <3>1. f \in [0..0 -> All] /\ \A n \in 0..0 : f[n] = KeepOne(s, keep, f, n)
      BY <1>0 DEF KeepOne
    <3> HIDE DEF f, All
    <3>2. Has(0)
      BY <3>1 DEF Has
    <3> QED
      BY <2>2, <2>3, <3>2
  <2>4. CASE k # 0
    <3>1. k \in 1..Len(s) /\ k - 1 \in 0..Len(s) /\ k - 1 \notin T
      BY <1>0, <2>2, <2>4
    <3>2. PICK f \in [0..(k - 1) -> All] : \A n \in 0..(k - 1) : f[n] = KeepOne(s, keep, f, n)
      BY <3>1 DEF Has
    <3> DEFINE last == KeepOne(s, keep, f, k)
               g == [n \in 0..k |-> IF n = k THEN last ELSE f[n]]
    <3>3. last \in All
      <4>1. f[k - 1] \in All /\ s[k] \in S
        BY <1>0, <3>1
      <4>2. Append(f[k - 1], s[k]) \in All
        BY <4>1
      <4> QED
        BY <3>1, <4>1, <4>2 DEF KeepOne
    <3>4. g \in [0..k -> All]
      <4> HIDE DEF last, All
      <4>1. \A n \in 0..k : n # k => n \in 0..(k - 1)
        BY <3>1
      <4> QED
        BY <3>2, <3>3, <4>1
    <3>5. ASSUME NEW n \in 0..k PROVE g[n] = KeepOne(s, keep, g, n)
      <4>1. n # 0 => n - 1 \in 0..k /\ n - 1 # k /\ g[n - 1] = f[n - 1]
        BY <3>1
      <4>2. KeepOne(s, keep, g, n) = KeepOne(s, keep, f, n)
        BY <4>1 DEF KeepOne
      <4>3. g[n] = KeepOne(s, keep, f, n)
        <5>1. CASE n = k
          BY <5>1
        <5>2. CASE n # k
          <6>1. n \in 0..(k - 1)
            BY <3>1, <5>2
          <6> QED
            BY <3>2, <5>2, <6>1
        <5> QED
          BY <5>1, <5>2
      <4> QED
        BY <4>2, <4>3
    <3> HIDE DEF g, All
    <3>6. Has(k)
      BY <3>4, <3>5 DEF Has
    <3> QED
      BY <2>2, <3>6
  <2> QED
    BY <2>3, <2>4
<1>2. Has(Len(s))
  BY <1>0, <1>1
<1>3. PICK f \in [0..Len(s) -> All] : \A n \in 0..Len(s) : f[n] = KeepOne(s, keep, f, n)
  BY <1>2 DEF Has
<1>4. Filters(s, keep, f)
  BY <1>3 DEF Filters
<1> QED
  BY <1>4

\* A filter keeps what it should and no more than there is.
LEMMA FilterKeeps ==
  ASSUME NEW S, NEW s \in Seq(S), NEW keep, NEW f, Filters(s, keep, f)
  PROVE  f[Len(s)] \in Seq(S \cap keep) /\ Len(f[Len(s)]) <= Len(s)
<1> DEFINE All == Seq(S \cap keep)
           Fits(n) == f[n] \in All /\ Len(f[n]) <= n
           T == {n \in 0..Len(s) : ~Fits(n)}
<1>0. Len(s) \in Nat /\ \A n \in 0..Len(s) : f[n] = KeepOne(s, keep, f, n)
  BY DEF Filters
<1>1. ASSUME T # {} PROVE FALSE
  <2>1. PICK n \in T : \A j \in T : n <= j
    <3>1. T \in SUBSET Nat
      BY <1>0
    <3> HIDE DEF T
    <3> QED
      BY <1>1, <3>1, Least
  <2>2. n # 0
    <3>1. f[0] = <<>>
      BY <1>0 DEF KeepOne
    <3>2. f[0] \in All /\ Len(f[0]) <= 0
      BY <3>1
    <3> QED
      BY <2>1, <3>2
  <2>3. n \in 1..Len(s) /\ n - 1 \in 0..Len(s) /\ n - 1 \notin T
    BY <1>0, <2>1, <2>2
  <2>4. f[n - 1] \in All /\ Len(f[n - 1]) <= n - 1 /\ s[n] \in S
    BY <2>3
  <2>7. n \in 0..Len(s) /\ n # 0 /\ f[n] = KeepOne(s, keep, f, n)
    BY <1>0, <2>1, <2>2
  <2>8. /\ s[n] \in keep => f[n] = Append(f[n - 1], s[n])
        /\ s[n] \notin keep => f[n] = f[n - 1]
    BY <2>7, Zenon DEF KeepOne
  <2>5. CASE s[n] \in keep
    <3>1. f[n] = Append(f[n - 1], s[n])
      BY <2>5, <2>8
    <3>2. Append(f[n - 1], s[n]) \in All /\ Len(Append(f[n - 1], s[n])) = Len(f[n - 1]) + 1
      BY <2>4, <2>5
    <3>3. Len(f[n - 1]) \in Nat /\ n \in Nat
      BY <2>3, <2>4
    <3>4. Fits(n)
      BY <2>4, <3>1, <3>2, <3>3
    <3> QED
      BY <2>1, <3>4
  <2>6. CASE s[n] \notin keep
    <3>1. f[n] = f[n - 1]
      BY <2>6, <2>8
    <3>3. Len(f[n - 1]) \in Nat /\ n \in Nat
      BY <2>3, <2>4
    <3>4. Fits(n)
      BY <2>4, <3>1, <3>3
    <3> QED
      BY <2>1, <3>4
  <2> QED
    BY <2>5, <2>6
<1> QED
  BY <1>0, <1>1

LEMMA SelectedTyped == \A scope : Selected(scope) \in Seq(Engines)
<1> SUFFICES ASSUME NEW scope PROVE Selected(scope) \in Seq(Engines)
  OBVIOUS
<1> DEFINE kept == CHOOSE f : Filters(Registered, scope, f)
<1>1. Registered \in Seq(Engines)
  BY AutoSearchAssumption
<1>2. Filters(Registered, scope, kept)
  BY <1>1, FilterExists
<1>3. Selected(scope) = kept[Len(Registered)]
  BY DEF Selected, Filters, KeepOne
<1> HIDE DEF kept
<1>4. kept[Len(Registered)] \in Seq(Engines \cap scope)
  BY <1>1, <1>2, FilterKeeps
<1> QED
  BY <1>3, <1>4

\* The records of an answer that have a URL.
LEMMA UsableTyped ==
  ASSUME NEW records \in Seq(Keys \cup {NoUrl})
  PROVE  /\ Fusion!Usable(records) \in Seq(Keys)
         /\ Len(Fusion!Usable(records)) \in 0..Len(records)
<1> DEFINE kept == CHOOSE f : Filters(records, Keys, f)
<1>1. NoUrl \notin Keys
  BY ProvidersAssumption DEF Fusion!SearchFusionAssumption
<1>2. Filters(records, Keys, kept)
  BY FilterExists
<1>3. Fusion!Usable(records) = kept[Len(records)]
  <2>1. \A f : (f = [n \in 0..Len(records) |->
                       IF n = 0 THEN <<>>
                       ELSE IF records[n] # NoUrl THEN Append(f[n - 1], records[n])
                       ELSE f[n - 1]])
               <=> Filters(records, Keys, f)
    <3> TAKE f
    <3>1. ASSUME NEW n \in 0..Len(records)
          PROVE  (IF n = 0 THEN <<>>
                  ELSE IF records[n] # NoUrl THEN Append(f[n - 1], records[n])
                  ELSE f[n - 1]) = KeepOne(records, Keys, f, n)
      <4>1. n # 0 => (records[n] # NoUrl <=> records[n] \in Keys)
        BY <1>1
      <4> QED
        BY <4>1 DEF KeepOne
    <3> QED
      BY <3>1 DEF Filters
  <2> QED
    BY <2>1 DEF Fusion!Usable
<1> HIDE DEF kept
<1>4. kept[Len(records)] \in Seq((Keys \cup {NoUrl}) \cap Keys) /\ Len(kept[Len(records)]) <= Len(records)
  BY <1>2, FilterKeeps
<1>5. (Keys \cup {NoUrl}) \cap Keys = Keys
  OBVIOUS
<1> QED
  BY <1>3, <1>4, <1>5

-----------------------------------------------------------------------------
(* The search of the policy task *)

\* What a step of the layered search promises once it is aborted.
LayersStep ==
  /\ signal => tries' <= IF turn' = turn THEN tries ELSE 1
  /\ rejected' => response' = Fusion!Threw

\* Where the search is after a layer: at the first try of another, or over.
Moved ==
  \/ layer' \in {"entrance", "hook", "engine"} /\ turn' \in Nat \ {0} /\ tries' = 1
  \/ layer' = "done" /\ turn' = 0 /\ tries' = 0

LEMMA EngineMoves ==
  ASSUME NEW n \in Nat \ {0}, Fusion!Engine(n)
  PROVE  Moved
BY DEF Moved, Fusion!Engine, Fusion!At, Fusion!Leave

LEMMA EntranceMoves ==
  ASSUME NEW n \in Nat \ {0}, Fusion!Entrance(n)
  PROVE  Moved
<1>1. CASE Fusion!At("entrance", n) \/ Fusion!At("hook", 1)
  BY <1>1 DEF Moved, Fusion!At
<1>2. CASE Fusion!Engine(1)
  BY <1>2, EngineMoves
<1> QED
  BY <1>1, <1>2 DEF Fusion!Entrance

LEMMA MovedKeepsInv ==
  ASSUME Fusion!LayersInv, layer # "done", Moved, UNCHANGED <<signal, rejected>>
  PROVE  Fusion!LayersInv' /\ LayersStep
<1>1. /\ turn \in Nat /\ tries \in Nat /\ ~rejected
      /\ layer = "new" => turn = 0
      /\ layer # "new" => tries >= 1
  BY DEF Fusion!LayersInv
<1>2. Fusion!LayersInv'
  BY <1>1 DEF Fusion!LayersInv, Moved
<1> QED
  BY <1>1, <1>2 DEF LayersStep, Moved

LEMMA LayersKeepInv ==
  ASSUME Fusion!LayersInv, [Fusion!Next]_fusionVars
  PROVE  Fusion!LayersInv' /\ LayersStep
<1>0. /\ turn \in Nat /\ tries \in Nat
      /\ layer \in {"entrance", "pause", "hook", "engine"} => tries >= 1
      /\ layer = "new" => turn = 0 /\ tries = 0
      /\ layer = "pause" => ~signal
      /\ rejected => layer = "done" /\ response = Fusion!Threw
  BY DEF Fusion!LayersInv
<1>1. CASE Fusion!Begin
  <2>1. layer # "done" /\ Moved /\ UNCHANGED <<signal, rejected>>
    BY <1>1, EntranceMoves DEF Fusion!Begin, Fusion!Keeps
  <2> QED
    BY <2>1, MovedKeepsInv
<1>2. CASE Fusion!Abort
  <2>1. CASE Fusion!PauseIsOver
    BY <1>0, <1>2, <2>1
       DEF Fusion!Abort, Fusion!Leave, Fusion!LayersInv, Fusion!PauseIsOver, LayersStep
  <2>2. CASE ~Fusion!PauseIsOver
    BY <1>0, <1>2, <2>2 DEF Fusion!Abort, Fusion!LayersInv, Fusion!PauseIsOver, LayersStep
  <2> QED
    BY <2>1, <2>2
<1>3. CASE Fusion!Retry
  BY <1>0, <1>3 DEF Fusion!Retry, Fusion!Keeps, Fusion!LayersInv, LayersStep
<1>4. CASE Fusion!HookFails
  <2>1. layer # "done" /\ Moved /\ UNCHANGED <<signal, rejected>>
    BY <1>4 DEF Fusion!HookFails, Fusion!Leave, Fusion!Keeps, Moved
  <2> QED
    BY <2>1, MovedKeepsInv
<1>5. CASE Fusion!EngineFails
  <2>1. layer # "done" /\ Moved /\ UNCHANGED <<signal, rejected>>
    BY <1>0, <1>5, EngineMoves DEF Fusion!EngineFails, Fusion!Keeps
  <2> QED
    BY <2>1, MovedKeepsInv
<1>6. ASSUME NEW retryable \in BOOLEAN, Fusion!EntranceFails(retryable)
      PROVE  Fusion!LayersInv' /\ LayersStep
  <2>0. layer = "entrance" /\ rejected' = signal /\ signal' = signal
    BY <1>6 DEF Fusion!EntranceFails
  <2>1. CASE signal
    BY <1>0, <1>6, <2>0, <2>1
       DEF Fusion!EntranceFails, Fusion!Leave, Fusion!LayersInv, LayersStep
  <2>2. CASE ~signal /\ Fusion!Entrance(turn + 1)
    <3>1. Moved
      BY <1>0, <2>2, EntranceMoves
    <3> QED
      BY <1>0, <2>0, <2>2, <3>1 DEF Moved, Fusion!LayersInv, LayersStep
  <2>3. CASE ~signal /\ layer' = "pause" /\ UNCHANGED <<turn, tries, response>>
    BY <1>0, <2>0, <2>3 DEF Fusion!LayersInv, LayersStep
  <2> QED
    BY <1>6, <2>1, <2>2, <2>3 DEF Fusion!EntranceFails
<1>7. ASSUME NEW records \in Fusion!Answers,
             \/ Fusion!EntranceAnswers(records) \/ Fusion!HookAnswers(records)
             \/ Fusion!EngineAnswers(records)
      PROVE  Fusion!LayersInv' /\ LayersStep
  <2>1. layer # "done" /\ UNCHANGED <<signal, rejected>>
    BY <1>7 DEF Fusion!EntranceAnswers, Fusion!HookAnswers, Fusion!EngineAnswers, Fusion!Keeps
  <2>2. CASE Fusion!EntranceAnswers(records)
    BY <1>0, <2>1, <2>2, EntranceMoves, MovedKeepsInv DEF Fusion!EntranceAnswers
  <2>3. CASE Fusion!HookAnswers(records)
    <3>1. Moved
      BY <2>3, EngineMoves DEF Fusion!HookAnswers, Fusion!Leave, Moved
    <3> QED
      BY <2>1, <3>1, MovedKeepsInv
  <2>4. CASE Fusion!EngineAnswers(records)
    <3>1. Moved
      BY <1>0, <2>4, EngineMoves DEF Fusion!EngineAnswers, Fusion!Leave, Moved
    <3> QED
      BY <2>1, <3>1, MovedKeepsInv
  <2> QED
    BY <1>7, <2>2, <2>3, <2>4
<1>8. CASE UNCHANGED fusionVars
  BY <1>0, <1>8 DEF fusionVars, Fusion!LayersInv, LayersStep
<1> QED
  BY <1>1, <1>2, <1>3, <1>4, <1>5, <1>6, <1>7, <1>8 DEF Fusion!Next, Fusion!Due

LEMMA LayersInvHolds == ProvidersSpec => []Fusion!LayersInv
<1>1. ProvidersInit => Fusion!LayersInv
  BY DEF ProvidersInit, Fusion!Init, Fusion!LayersInv
<1>2. Fusion!LayersInv /\ [ProvidersNext]_providersVars => Fusion!LayersInv'
  BY StepOfEach, LayersKeepInv
<1> QED
  BY <1>1, <1>2, PTL DEF ProvidersSpec

-----------------------------------------------------------------------------
(* The response of the layered search *)

LayerRecords == [key : Keys, layer : Fusion!Layers]

\* A response is made of the records it is given, each of which is an attempt of one result.
LEMMA ResponseOfRecords ==
  ASSUME NEW c \in Seq(LayerRecords), NEW d \in Nat, NEW b \in BOOLEAN
  PROVE  LET r == Fusion!Response(c, d, b) IN
         /\ {x.key : x \in r.results} = Fusion!Found(c)
         /\ r.total_raw_found = Len(c) /\ r.filtered_count = d /\ (r.fallback_used <=> b)
         /\ UNION {DOMAIN x.attempts : x \in r.results} = 1..Len(c)
         /\ \A x, y \in r.results : DOMAIN x.attempts \cap DOMAIN y.attempts # {} => x = y
         /\ Fusion!Cardinality(r.results) + r.deduped_count = r.total_raw_found
         /\ r.deduped_count >= 0
         /\ r.status = IF c = <<>> THEN "empty" ELSE "found"
         /\ (r.status = "empty") <=> (r.results = {})
<1> DEFINE D == Fusion!Deduped(c)
           Merged(k) == [key |-> k, attempts |-> Fusion!AttemptsOf(c, k)]
           f == [i \in 1..Len(c) |-> Merged(c[i].key)]
<1>0. DOMAIN c = 1..Len(c) /\ Len(c) \in Nat /\ \A i \in 1..Len(c) : c[i] \in LayerRecords
  OBVIOUS
<1>1. D = {Merged(c[i].key) : i \in 1..Len(c)}
  BY <1>0 DEF Fusion!Deduped, Fusion!Found
<1>2. /\ \A k : Merged(k).key = k /\ Merged(k).attempts = Fusion!AttemptsOf(c, k)
      /\ \A k : DOMAIN Fusion!AttemptsOf(c, k) = {i \in 1..Len(c) : c[i].key = k}
  BY <1>0 DEF Fusion!AttemptsOf, Fusion!PlacesOf
<1> HIDE DEF Merged
<1>3. f \in Surjection(1..Len(c), D)
  BY <1>1 DEF Surjection
<1> HIDE DEF D, f
<1>4. IsFiniteSet(D) /\ Cardinality(D) \in Nat /\ Cardinality(D) <= Len(c)
  <2>1. IsFiniteSet(1..Len(c)) /\ Cardinality(1..Len(c)) = Len(c)
    BY <1>0, FS_Interval
  <2> QED
    BY <1>3, <2>1, FS_Surjection, FS_CardinalityType
<1>5. Fusion!Cardinality(D) = Cardinality(D)
  BY DEF Cardinality, Fusion!Cardinality, Fusion!IsFiniteSet, IsFiniteSet
<1> DEFINE r == Fusion!Response(c, d, b)
<1>6. /\ r.results = D /\ r.total_raw_found = Len(c) /\ r.filtered_count = d
      /\ r.fallback_used = b /\ r.deduped_count = Len(c) - Fusion!Cardinality(D)
      /\ r.status = IF c = <<>> THEN "empty" ELSE "found"
  BY DEF Fusion!Response, D
<1> HIDE DEF r
<1>7. {x.key : x \in D} = Fusion!Found(c)
  BY <1>0, <1>1, <1>2 DEF Fusion!Found
<1>12. ASSUME NEW x \in D
       PROVE  /\ DOMAIN x.attempts = {i \in 1..Len(c) : c[i].key = x.key}
              /\ x = Merged(x.key)
  <2>1. PICK i \in 1..Len(c) : x = Merged(c[i].key)
    BY <1>1
  <2>2. x.key = c[i].key /\ x.attempts = Fusion!AttemptsOf(c, c[i].key)
    BY <1>2, <2>1
  <2> QED
    BY <1>2, <2>1, <2>2
<1>8. UNION {DOMAIN x.attempts : x \in D} = 1..Len(c)
  <2>1. ASSUME NEW i \in 1..Len(c) PROVE \E x \in D : i \in DOMAIN x.attempts
    <3> DEFINE x == Merged(c[i].key)
    <3>1. x \in D /\ x.key = c[i].key
      BY <1>1, <1>2
    <3> HIDE DEF x
    <3>2. i \in DOMAIN x.attempts
      BY <1>12, <3>1
    <3> QED
      BY <3>1, <3>2
  <2>2. ASSUME NEW x \in D PROVE DOMAIN x.attempts \subseteq 1..Len(c)
    BY <1>12
  <2> QED
    BY <2>1, <2>2
<1>9. ASSUME NEW x \in D, NEW y \in D, DOMAIN x.attempts \cap DOMAIN y.attempts # {}
      PROVE  x = y
  <2>1. PICK i \in 1..Len(c) : c[i].key = x.key /\ c[i].key = y.key
    BY <1>9, <1>12
  <2> QED
    BY <1>12, <2>1
<1>10. Fusion!Cardinality(D) + r.deduped_count = Len(c) /\ r.deduped_count >= 0
  BY <1>0, <1>4, <1>5, <1>6
<1>11. (r.status = "empty") <=> (D = {})
  <2>1. c = <<>> <=> Len(c) = 0
    BY <1>0
  <2>2. Len(c) = 0 <=> 1..Len(c) = {}
    <3>1. Len(c) # 0 => 1 \in 1..Len(c)
      BY <1>0
    <3>2. Len(c) = 0 => 1..Len(c) = {}
      BY <1>0
    <3> QED
      BY <3>1, <3>2
  <2> QED
    BY <1>1, <1>6, <2>1, <2>2
<1> QED
  BY <1>6, <1>7, <1>8, <1>9, <1>10, <1>11 DEF r

\* What is collected and counted, and that it is homepages but for the engines.
Counted ==
  /\ collected \in Seq(LayerRecords)
  /\ filtered \in Nat /\ given = Len(collected) + filtered
  /\ fallback \in BOOLEAN
  /\ fallback <=> \E i \in DOMAIN collected : collected[i].layer = "html-fallback"

OnlyHomepages ==
  \A i \in DOMAIN collected :
    collected[i].layer = "html-fallback" \/ collected[i].key \in WeakKeys

\* What was just taken comes after what was there.
LEMMA TakenTyped ==
  ASSUME Counted, NEW records \in Fusion!Answers, NEW l \in Fusion!Layers,
         collected' = collected \o Fusion!Attempted(l, Fusion!Usable(records))
  PROVE  /\ collected' \in Seq(LayerRecords)
         /\ Len(collected') = Len(collected) + Len(Fusion!Usable(records))
         /\ DOMAIN collected = 1..Len(collected) /\ DOMAIN collected' = 1..Len(collected')
         /\ Len(Fusion!Usable(records)) \in 0..Len(records) /\ Len(records) \in Nat
         /\ Fusion!Usable(records) = <<>> <=> Len(Fusion!Usable(records)) = 0
         /\ \A i \in 1..Len(collected') :
              IF i <= Len(collected) THEN collected'[i] = collected[i] ELSE collected'[i].layer = l
<1> DEFINE keys == Fusion!Usable(records)
           new == Fusion!Attempted(l, keys)
<1>1. records \in Seq(Keys \cup {NoUrl})
  BY DEF Fusion!Answers, Fusion!SeqOf
<1>2. keys \in Seq(Keys) /\ Len(keys) \in 0..Len(records)
  BY <1>1, UsableTyped
<1> HIDE DEF keys
<1>3. /\ DOMAIN new = 1..Len(keys)
      /\ \A i \in 1..Len(keys) : new[i] \in LayerRecords /\ new[i].layer = l
  BY <1>2 DEF Fusion!Attempted, LayerRecords
<1>4. new \in Seq(LayerRecords) /\ Len(new) = Len(keys)
  <2>1. Len(keys) \in Nat /\ new = [i \in 1..Len(keys) |-> [key |-> keys[i], layer |-> l]]
    BY <1>2 DEF Fusion!Attempted
  <2>2. \A i \in 1..Len(keys) : [key |-> keys[i], layer |-> l] \in LayerRecords
    BY <1>2 DEF LayerRecords
  <2> QED
    BY <2>1, <2>2
<1> HIDE DEF new
<1>5. collected \in Seq(LayerRecords) /\ collected' = collected \o new
  BY DEF Counted, new, keys
<1>6. /\ collected \o new \in Seq(LayerRecords) /\ Len(collected \o new) = Len(collected) + Len(new)
      /\ \A i \in 1..(Len(collected) + Len(new)) : (collected \o new)[i] =
           IF i <= Len(collected) THEN collected[i] ELSE new[i - Len(collected)]
  BY <1>4, <1>5, ConcatProperties
<1>7. ASSUME NEW i \in 1..Len(collected'), ~(i <= Len(collected))
      PROVE  collected'[i].layer = l
  <2>1. Len(collected) \in Nat /\ Len(keys) \in Nat /\ i - Len(collected) \in 1..Len(keys)
    BY <1>2, <1>4, <1>5, <1>6, <1>7
  <2> QED
    BY <1>3, <1>4, <1>5, <1>6, <1>7, <2>1
<1>8. keys = <<>> <=> Len(keys) = 0
  BY <1>2
<1>9. DOMAIN collected = 1..Len(collected) /\ DOMAIN collected' = 1..Len(collected')
  BY <1>5, <1>6
<1> QED
  BY <1>1, <1>2, <1>4, <1>5, <1>6, <1>7, <1>8, <1>9 DEF keys

\* A fact of the setup.
LEMMA SetupTyped ==
  ASSUME setup \in Setups
  PROVE  setup.entrances \in Nat /\ setup.attempts \in 1..3 /\ setup.hook \in BOOLEAN
BY ProvidersAssumption DEF Fusion!SearchFusionAssumption, Fusion!Setup

\* Where the search goes after a layer it keeps what was collected.
LEMMA EngineCollects ==
  ASSUME setup \in Setups, setup' = setup, response = None, NEW n \in Nat \ {0},
         Fusion!Engine(n), Counted', setup.hook => OnlyHomepages'
  PROVE  Fusion!CollectedInv'
<1> DEFINE with == Fusion!Response(collected', filtered', fallback')
<1>1. CASE setup.engines /\ n <= Fusion!HtmlEngines
  <2>1. layer' = "engine" /\ turn' = n /\ response' = None /\ n \in 1..Fusion!HtmlEngines
    BY <1>1 DEF Fusion!Engine, Fusion!At, Fusion!HtmlEngines
  <2> QED
    BY <2>1 DEF Fusion!CollectedInv, Fusion!TypeOK, Counted, OnlyHomepages, LayerRecords
<1>2. CASE ~(setup.engines /\ n <= Fusion!HtmlEngines)
  <2>1. layer' = "done" /\ response' = with
    BY <1>2 DEF Fusion!Engine, Fusion!Leave
  <2>2. with.status \in {"empty", "found", "threw"}
    BY DEF Fusion!Response
  <2> HIDE DEF with
  <2>3. Fusion!TypeOK'
    BY <2>1, <2>2 DEF Fusion!TypeOK, Counted, LayerRecords
  <2> QED
    BY <2>1, <2>3 DEF Fusion!CollectedInv, Counted, OnlyHomepages, with
<1> QED
  BY <1>1, <1>2

LEMMA EntranceCollects ==
  ASSUME setup \in Setups, setup' = setup, response = None, NEW n \in Nat \ {0},
         Fusion!Entrance(n), Counted', ~fallback'
  PROVE  Fusion!CollectedInv'
<1>1. CASE n <= setup.entrances
  <2>1. /\ layer' = "entrance" /\ turn' = n /\ tries' = 1 /\ response' = None
        /\ n \in 1..setup.entrances /\ 1 \in 1..setup.attempts
    BY <1>1, SetupTyped DEF Fusion!Entrance, Fusion!At
  <2> QED
    BY <2>1 DEF Fusion!CollectedInv, Fusion!TypeOK, Counted, LayerRecords
<1>2. CASE ~(n <= setup.entrances) /\ setup.hook
  <2>1. layer' = "hook" /\ response' = None
    BY <1>2 DEF Fusion!Entrance, Fusion!At
  <2> QED
    BY <2>1 DEF Fusion!CollectedInv, Fusion!TypeOK, Counted, LayerRecords
<1>3. CASE ~(n <= setup.entrances) /\ ~setup.hook
  BY <1>3, EngineCollects DEF Fusion!Entrance
<1> QED
  BY <1>1, <1>2, <1>3

\* A call that rejects, or is over without an answer.
LEMMA ThrewCollects ==
  ASSUME setup \in Setups, setup' = setup, Fusion!Leave(Fusion!Threw), Counted', ~fallback'
  PROVE  Fusion!CollectedInv'
<1>1. layer' = "done" /\ response' = Fusion!Threw
  BY DEF Fusion!Leave
<1>2. Fusion!Threw.status = "threw"
  BY DEF Fusion!Threw, Fusion!Response
<1>3. Fusion!TypeOK'
  BY <1>1, <1>2 DEF Fusion!TypeOK, Counted, LayerRecords
<1> QED
  BY <1>1, <1>3 DEF Fusion!CollectedInv, Counted

\* Before the engines what is taken is counted, and none of it is theirs.
LEMMA TakesCounted ==
  ASSUME Counted, NEW records \in Fusion!Answers, NEW l \in {"provider", "websearch"},
         Fusion!Takes(l, records)
  PROVE  Counted' /\ fallback' = fallback
<1>1. l \in Fusion!Layers /\ l # "html-fallback"
  BY DEF Fusion!Layers
<1>2. /\ collected' = collected \o Fusion!Attempted(l, Fusion!Usable(records))
      /\ filtered' = filtered + Len(records) - Len(Fusion!Usable(records))
      /\ given' = given + Len(records) /\ fallback' = fallback
  BY DEF Fusion!Takes
<1>3. /\ collected' \in Seq(LayerRecords)
      /\ Len(collected') = Len(collected) + Len(Fusion!Usable(records))
      /\ DOMAIN collected = 1..Len(collected) /\ DOMAIN collected' = 1..Len(collected')
      /\ Len(Fusion!Usable(records)) \in 0..Len(records) /\ Len(records) \in Nat
      /\ \A i \in 1..Len(collected') :
           IF i <= Len(collected) THEN collected'[i] = collected[i] ELSE collected'[i].layer = l
  BY <1>1, <1>2, TakenTyped
<1>4. Len(collected) \in Nat /\ filtered \in Nat /\ given = Len(collected) + filtered
  BY DEF Counted
<1>5. filtered' \in Nat /\ given' = Len(collected') + filtered'
  BY <1>2, <1>3, <1>4
<1>6. (\E i \in DOMAIN collected' : collected'[i].layer = "html-fallback")
        <=> (\E i \in DOMAIN collected : collected[i].layer = "html-fallback")
  <2>1. \A i \in DOMAIN collected : i \in DOMAIN collected' /\ collected'[i] = collected[i]
    BY <1>3, <1>4
  <2>2. \A i \in DOMAIN collected' :
          collected'[i].layer = "html-fallback" =>
            i \in DOMAIN collected /\ collected'[i] = collected[i]
    BY <1>1, <1>3, <1>4
  <2> QED
    BY <2>1, <2>2
<1>7. fallback' \in BOOLEAN /\ (fallback' <=> fallback)
  BY <1>2 DEF Counted
<1> QED
  BY <1>2, <1>3, <1>5, <1>6, <1>7 DEF Counted

\* What the invariant says, by its parts, of a search that is not over.
LEMMA CollectedSays ==
  ASSUME Fusion!CollectedInv, layer # "done"
  PROVE  /\ setup \in Setups /\ response = None /\ Fusion!TypeOK
         /\ layer # "engine" => ~fallback
         /\ layer = "pause" => tries < setup.attempts
         /\ Counted
         /\ setup.hook /\ layer = "engine" => OnlyHomepages
BY DEF Fusion!CollectedInv, Fusion!TypeOK, Counted, OnlyHomepages, LayerRecords

\* The caller's abort, and what begins or ends an attempt of an entrance.
LEMMA AbortCollects ==
  ASSUME Fusion!CollectedInv, Fusion!Abort
  PROVE  Fusion!CollectedInv'
<1>0. layer # "done" /\ setup' = setup
  BY DEF Fusion!Abort
<1>1. setup \in Setups /\ Counted /\ (layer # "engine" => ~fallback)
  BY <1>0, CollectedSays
<1>2. /\ collected' = collected /\ filtered' = filtered /\ given' = given /\ fallback' = fallback
  BY DEF Fusion!Abort, Fusion!counts
<1>3. Counted'
  BY <1>1, <1>2 DEF Counted
<1>4. CASE Fusion!PauseIsOver
  <2>1. Fusion!Leave(Fusion!Threw) /\ ~fallback'
    BY <1>1, <1>2, <1>4 DEF Fusion!Abort, Fusion!PauseIsOver
  <2> QED
    BY <1>0, <1>1, <1>3, <2>1, ThrewCollects
<1>5. CASE ~Fusion!PauseIsOver
  <2>1. layer' = layer /\ turn' = turn /\ tries' = tries /\ response' = response
    BY <1>5 DEF Fusion!Abort
  <2> QED
    BY <1>0, <1>2, <2>1 DEF Fusion!CollectedInv, Fusion!TypeOK
<1> QED
  BY <1>4, <1>5

LEMMA EntrancesCollect ==
  ASSUME Fusion!CollectedInv,
         \/ Fusion!Begin \/ Fusion!Retry
         \/ \E retryable \in BOOLEAN : Fusion!EntranceFails(retryable)
         \/ \E records \in Fusion!Answers : Fusion!EntranceAnswers(records)
  PROVE  Fusion!CollectedInv'
<1>0. /\ layer \in {"new", "entrance", "pause"} /\ setup' = setup
  BY DEF Fusion!Begin, Fusion!Retry, Fusion!EntranceFails, Fusion!EntranceAnswers, Fusion!Keeps
<1>1. /\ setup \in Setups /\ Counted /\ ~fallback /\ response = None /\ Fusion!TypeOK
      /\ layer = "pause" => tries < setup.attempts
  BY <1>0, CollectedSays
<1>2. setup.entrances \in Nat /\ setup.attempts \in 1..3
  BY <1>1, SetupTyped
<1>3. layer \in {"entrance", "pause"} => turn \in 1..setup.entrances /\ tries \in 1..setup.attempts
  BY <1>1 DEF Fusion!TypeOK
<1>4. ASSUME UNCHANGED Fusion!counts
      PROVE  Counted' /\ ~fallback'
  <2>1. /\ collected' = collected /\ filtered' = filtered /\ given' = given /\ fallback' = fallback
    BY <1>4 DEF Fusion!counts
  <2> QED
    BY <1>1, <2>1 DEF Counted
<1>5. CASE Fusion!Begin
  <2>1. Fusion!Entrance(1) /\ Counted' /\ ~fallback'
    BY <1>4, <1>5 DEF Fusion!Begin
  <2> QED
    BY <1>0, <1>1, <2>1, EntranceCollects
<1>6. CASE Fusion!Retry
  <2>1. /\ layer = "pause" /\ layer' = "entrance" /\ tries' = tries + 1 /\ turn' = turn
        /\ response' = response /\ Counted' /\ ~fallback'
    BY <1>4, <1>6 DEF Fusion!Retry
  <2>2. tries' \in 1..setup.attempts
    BY <1>1, <1>2, <1>3, <2>1
  <2> QED
    BY <1>0, <1>1, <1>3, <2>1, <2>2 DEF Fusion!CollectedInv, Fusion!TypeOK, Counted, LayerRecords
<1>7. ASSUME NEW retryable \in BOOLEAN, Fusion!EntranceFails(retryable)
      PROVE  Fusion!CollectedInv'
  <2>1. layer = "entrance" /\ Counted' /\ ~fallback'
    BY <1>4, <1>7 DEF Fusion!EntranceFails
  <2>2. CASE Fusion!Leave(Fusion!Threw)
    BY <1>0, <1>1, <2>1, <2>2, ThrewCollects
  <2>3. CASE Fusion!Entrance(turn + 1)
    <3>1. turn + 1 \in Nat \ {0}
      BY <1>2, <1>3, <2>1
    <3> QED
      BY <1>0, <1>1, <2>1, <2>3, <3>1, EntranceCollects
  <2>4. CASE /\ ~(tries >= setup.attempts) /\ layer' = "pause"
             /\ UNCHANGED <<turn, tries, response>>
    <3>1. tries < setup.attempts /\ tries' = tries /\ turn' = turn /\ response' = response
      BY <1>2, <1>3, <2>1, <2>4
    <3> QED
      BY <1>0, <1>1, <1>3, <2>1, <2>4, <3>1
         DEF Fusion!CollectedInv, Fusion!TypeOK, Counted, LayerRecords
  <2> QED
    BY <1>7, <2>2, <2>3, <2>4 DEF Fusion!EntranceFails
<1>8. ASSUME NEW records \in Fusion!Answers, Fusion!EntranceAnswers(records)
      PROVE  Fusion!CollectedInv'
  <2>1. layer = "entrance" /\ Fusion!Takes("provider", records) /\ Fusion!Entrance(turn + 1)
    BY <1>8 DEF Fusion!EntranceAnswers
  <2>2. Counted' /\ ~fallback'
    BY <1>1, <2>1, TakesCounted
  <2>3. turn + 1 \in Nat \ {0}
    BY <1>2, <1>3, <2>1
  <2> QED
    BY <1>0, <1>1, <2>1, <2>2, <2>3, EntranceCollects
<1> QED
  BY <1>5, <1>6, <1>7, <1>8

LEMMA HookCollects ==
  ASSUME Fusion!CollectedInv,
         \/ Fusion!HookFails
         \/ \E records \in Fusion!Answers : Fusion!HookAnswers(records)
  PROVE  Fusion!CollectedInv'
<1>0. layer = "hook" /\ setup' = setup
  BY DEF Fusion!HookFails, Fusion!HookAnswers, Fusion!Keeps
<1>1. setup \in Setups /\ Counted /\ ~fallback /\ response = None
  BY <1>0, CollectedSays
<1>2. CASE Fusion!HookFails
  <2>1. /\ collected' = collected /\ filtered' = filtered /\ given' = given /\ fallback' = fallback
        /\ Fusion!Leave(Fusion!Threw)
    BY <1>2 DEF Fusion!HookFails, Fusion!counts
  <2>2. Counted' /\ ~fallback'
    BY <1>1, <2>1 DEF Counted
  <2> QED
    BY <1>0, <1>1, <2>1, <2>2, ThrewCollects
<1>3. ASSUME NEW records \in Fusion!Answers, Fusion!HookAnswers(records)
      PROVE  Fusion!CollectedInv'
  <2>1. Counted' /\ ~fallback'
    BY <1>1, <1>3, TakesCounted DEF Fusion!HookAnswers
  <2> DEFINE with == Fusion!Response(collected', filtered', fallback')
  <2>2. CASE Fusion!Found(collected') \ WeakKeys # {}
    <3>1. layer' = "done" /\ response' = with
      BY <1>3, <2>2 DEF Fusion!HookAnswers, Fusion!Leave
    <3>2. with.status \in {"empty", "found", "threw"}
      BY DEF Fusion!Response
    <3> HIDE DEF with
    <3>3. Fusion!TypeOK'
      BY <1>0, <1>1, <2>1, <3>1, <3>2 DEF Fusion!TypeOK, Counted, LayerRecords
    <3> QED
      BY <2>1, <3>1, <3>3 DEF Fusion!CollectedInv, Counted, with
  <2>3. CASE Fusion!Found(collected') \ WeakKeys = {}
    <3>1. Fusion!Engine(1)
      BY <1>3, <2>3 DEF Fusion!HookAnswers
    <3>2. OnlyHomepages'
      BY <2>3 DEF Fusion!Found, OnlyHomepages
    <3> QED
      BY <1>0, <1>1, <2>1, <3>1, <3>2, EngineCollects
  <2> QED
    BY <2>2, <2>3
<1> QED
  BY <1>2, <1>3

LEMMA EnginesCollect ==
  ASSUME Fusion!CollectedInv,
         \/ Fusion!EngineFails
         \/ \E records \in Fusion!Answers : Fusion!EngineAnswers(records)
  PROVE  Fusion!CollectedInv'
<1>0. layer = "engine" /\ setup' = setup
  BY DEF Fusion!EngineFails, Fusion!EngineAnswers, Fusion!Keeps
<1>1. /\ setup \in Setups /\ Counted /\ response = None /\ Fusion!TypeOK
      /\ setup.hook => OnlyHomepages
  BY <1>0, CollectedSays
<1>2. turn + 1 \in Nat \ {0}
  BY <1>0, <1>1 DEF Fusion!TypeOK
<1>3. CASE Fusion!EngineFails
  <2>1. /\ collected' = collected /\ filtered' = filtered /\ given' = given /\ fallback' = fallback
        /\ Fusion!Engine(turn + 1)
    BY <1>3 DEF Fusion!EngineFails, Fusion!counts
  <2>2. Counted' /\ (setup.hook => OnlyHomepages')
    BY <1>1, <2>1 DEF Counted, OnlyHomepages
  <2> QED
    BY <1>0, <1>1, <1>2, <2>1, <2>2, EngineCollects
<1>4. ASSUME NEW records \in Fusion!Answers, Fusion!EngineAnswers(records)
      PROVE  Fusion!CollectedInv'
  <2> DEFINE keys == Fusion!Usable(records)
  <2>1. /\ collected' = collected \o Fusion!Attempted("html-fallback", keys)
        /\ fallback' = (fallback \/ keys # <<>>) /\ given' = given + Len(keys)
        /\ filtered' = filtered
    BY <1>4 DEF Fusion!EngineAnswers
  <2>2. /\ collected' \in Seq(LayerRecords) /\ Len(collected') = Len(collected) + Len(keys)
        /\ DOMAIN collected = 1..Len(collected) /\ DOMAIN collected' = 1..Len(collected')
        /\ Len(keys) \in Nat /\ (keys = <<>> <=> Len(keys) = 0)
        /\ \A i \in 1..Len(collected') : IF i <= Len(collected) THEN collected'[i] = collected[i]
                                          ELSE collected'[i].layer = "html-fallback"
    <3>1. "html-fallback" \in Fusion!Layers
      BY DEF Fusion!Layers
    <3> QED
      BY <1>1, <2>1, <3>1, TakenTyped
  <2> HIDE DEF keys
  <2>3. /\ Len(collected) \in Nat /\ filtered \in Nat /\ given = Len(collected) + filtered
        /\ fallback \in BOOLEAN
        /\ fallback <=> \E i \in DOMAIN collected : collected[i].layer = "html-fallback"
    BY <1>1 DEF Counted
  <2>4. /\ \A i \in DOMAIN collected : i \in DOMAIN collected' /\ collected'[i] = collected[i]
        /\ \A i \in DOMAIN collected' : \/ i \in DOMAIN collected /\ collected'[i] = collected[i]
                                        \/ keys # <<>> /\ collected'[i].layer = "html-fallback"
    BY <2>2, <2>3
  <2>5. keys # <<>> => \E i \in DOMAIN collected' : collected'[i].layer = "html-fallback"
    <3> SUFFICES ASSUME keys # <<>>
                 PROVE  \E i \in DOMAIN collected' : collected'[i].layer = "html-fallback"
      OBVIOUS
    <3>1. Len(collected') \in DOMAIN collected' /\ ~(Len(collected') <= Len(collected))
      BY <2>2, <2>3
    <3> QED
      BY <2>2, <3>1
  <2>6. /\ fallback' \in BOOLEAN
        /\ fallback' <=> \E i \in DOMAIN collected' : collected'[i].layer = "html-fallback"
    <3>1. fallback' \in BOOLEAN /\ (fallback' <=> fallback \/ keys # <<>>)
      BY <2>1
    <3> QED
      BY <2>3, <2>4, <2>5, <3>1
  <2>7. Counted'
    <3>1. given' = given + Len(keys) /\ filtered' = filtered
      BY <2>1
    <3>2. Len(collected') = Len(collected) + Len(keys) /\ Len(keys) \in Nat
      BY <2>2
    <3>3. given = Len(collected) + filtered /\ filtered \in Nat /\ Len(collected) \in Nat
      BY <2>3
    <3>4. given' = Len(collected') + filtered' /\ filtered' \in Nat
      BY <3>1, <3>2, <3>3
    <3> QED
      BY <2>2, <2>6, <3>4 DEF Counted
  <2>8. setup.hook => OnlyHomepages'
    BY <1>1, <2>4 DEF OnlyHomepages
  <2> DEFINE with == Fusion!Response(collected', filtered', fallback')
  <2>9. CASE Fusion!Leave(with)
    <3>1. layer' = "done" /\ response' = with
      BY <2>9 DEF Fusion!Leave
    <3>2. with.status \in {"empty", "found", "threw"}
      BY DEF Fusion!Response
    <3> HIDE DEF with
    <3>3. Fusion!TypeOK'
      BY <1>0, <1>1, <2>7, <3>1, <3>2 DEF Fusion!TypeOK, Counted, LayerRecords
    <3> QED
      BY <1>0, <2>7, <2>8, <3>1, <3>3 DEF Fusion!CollectedInv, Counted, OnlyHomepages, with
  <2>10. CASE Fusion!Engine(turn + 1)
    BY <1>0, <1>1, <1>2, <2>7, <2>8, <2>10, EngineCollects
  <2> QED
    BY <1>4, <2>9, <2>10 DEF Fusion!EngineAnswers
<1> QED
  BY <1>3, <1>4

LEMMA CollectedInvKept ==
  ASSUME Fusion!CollectedInv, [Fusion!Next]_fusionVars
  PROVE  Fusion!CollectedInv'
<1>1. CASE Fusion!Next
  BY <1>1, AbortCollects, EntrancesCollect, HookCollects, EnginesCollect
     DEF Fusion!Next, Fusion!Due
<1>2. CASE UNCHANGED fusionVars
  BY <1>2 DEF fusionVars, Fusion!CollectedInv, Fusion!TypeOK
<1> QED
  BY <1>1, <1>2

LEMMA CollectedIsHonest == Fusion!CollectedInv => Fusion!ResponseIsHonest
<1> SUFFICES ASSUME Fusion!CollectedInv PROVE Fusion!ResponseIsHonest
  OBVIOUS
<1>1. Fusion!TypeOK
  BY DEF Fusion!CollectedInv
<1>2. ASSUME Fusion!Returned
      PROVE  /\ response = Fusion!Response(collected, filtered, fallback)
             /\ Counted /\ (setup.hook /\ fallback => OnlyHomepages)
  BY <1>2 DEF Fusion!CollectedInv, Fusion!TypeOK, Fusion!Returned, Counted, OnlyHomepages, LayerRecords
<1>3. ASSUME Fusion!Returned
      PROVE  /\ {r.key : r \in response.results} = Fusion!Found(collected)
             /\ given = response.total_raw_found + response.filtered_count
             /\ UNION {DOMAIN r.attempts : r \in response.results} = 1..response.total_raw_found
             /\ \A r, s \in response.results :
                  DOMAIN r.attempts \cap DOMAIN s.attempts # {} => r = s
             /\ Fusion!Cardinality(response.results) + response.deduped_count
                  = response.total_raw_found
             /\ response.deduped_count >= 0
             /\ (response.status = "empty") <=> (response.results = {})
             /\ response.fallback_used <=> fallback
  BY <1>2, <1>3, ResponseOfRecords DEF Counted
<1>4. ASSUME Fusion!Returned, NEW r \in response.results
      PROVE  /\ DOMAIN r.attempts = {i \in DOMAIN collected : collected[i].key = r.key}
             /\ \A i \in DOMAIN r.attempts : r.attempts[i] = collected[i].layer
  <2>1. response.results = Fusion!Deduped(collected)
    BY <1>2, <1>4 DEF Fusion!Response
  <2>2. PICK k \in Fusion!Found(collected) : r = [key |-> k, attempts |-> Fusion!AttemptsOf(collected, k)]
    BY <1>4, <2>1 DEF Fusion!Deduped
  <2>3. r.key = k /\ r.attempts = Fusion!AttemptsOf(collected, k)
    BY <2>2
  <2> QED
    BY <2>3 DEF Fusion!AttemptsOf, Fusion!PlacesOf
<1>5. ASSUME Fusion!Returned
      PROVE  fallback <=> \E r \in response.results : "html-fallback" \in Fusion!Finders(r)
  <2>1. \A i \in DOMAIN collected : \E r \in response.results : i \in DOMAIN r.attempts
    <3>1. DOMAIN collected = 1..response.total_raw_found
      BY <1>2, <1>5, ResponseOfRecords DEF Counted
    <3> QED
      BY <1>3, <1>5, <3>1
  <2>2. fallback <=> \E i \in DOMAIN collected : collected[i].layer = "html-fallback"
    BY <1>2, <1>5 DEF Counted
  <2> QED
    BY <1>4, <1>5, <2>1, <2>2 DEF Fusion!Finders
<1>6. ASSUME Fusion!Returned, setup.hook, fallback, NEW r \in response.results, r.key \notin WeakKeys
      PROVE  Fusion!Finders(r) = {"html-fallback"}
  <2>1. OnlyHomepages
    BY <1>2, <1>6
  <2>2. \A i \in DOMAIN r.attempts : r.attempts[i] = "html-fallback"
    BY <1>4, <1>6, <2>1 DEF OnlyHomepages
  <2>3. DOMAIN r.attempts # {}
    <3>1. r.key \in Fusion!Found(collected)
      BY <1>3, <1>6
    <3> QED
      BY <1>4, <1>6, <3>1 DEF Fusion!Found
  <2> QED
    BY <2>2, <2>3 DEF Fusion!Finders
<1> QED
  BY <1>1, <1>3, <1>5, <1>6 DEF Fusion!ResponseIsHonest

LEMMA CollectedInvHolds == ProvidersSpec => []Fusion!CollectedInv
<1>1. ProvidersInit => Fusion!CollectedInv
  <2> SUFFICES ASSUME ProvidersInit PROVE Fusion!CollectedInv
    OBVIOUS
  <2>1. /\ setup \in Setups /\ layer = "new" /\ collected = <<>> /\ filtered = 0
        /\ fallback = FALSE /\ given = 0 /\ response = None
    BY DEF ProvidersInit, Fusion!Init
  <2>2. /\ collected \in Seq(LayerRecords) /\ Len(collected) = 0 /\ DOMAIN collected = {}
        /\ given = Len(collected) + filtered /\ filtered \in Nat
    BY <2>1
  <2>3. fallback \in BOOLEAN /\ ~fallback
    BY <2>1
  <2> QED
    BY <2>1, <2>2, <2>3 DEF Fusion!CollectedInv, Fusion!TypeOK, LayerRecords
<1>2. Fusion!CollectedInv /\ [ProvidersNext]_providersVars => Fusion!CollectedInv'
  BY StepOfEach, CollectedInvKept
<1> QED
  BY <1>1, <1>2, PTL DEF ProvidersSpec

-----------------------------------------------------------------------------
(* The generic search *)

WorkType ==
  [st : {"idle", "asking", "pause", "over"}, step : Nat, tries : Nat,
   attempts : Nat, sent : Nat]

\* A request, which under an aborted controller sends nothing.
LEMMA AskMakes ==
  ASSUME NEW w \in WorkType, NEW stopped \in BOOLEAN
  PROVE  /\ Ask(w, stopped) \in WorkType /\ Ask(w, stopped).st = "asking"
         /\ Ask(w, stopped).step = w.step /\ Ask(w, stopped).tries = w.tries
         /\ Ask(w, stopped).attempts = w.attempts + 1
         /\ Ask(w, stopped).sent = IF stopped THEN w.sent ELSE w.sent + 1
<1> DEFINE a == [w EXCEPT !.st = "asking"]
           b == [a EXCEPT !.attempts = w.attempts + 1]
           n == IF Reaches(stopped) THEN w.sent + 1 ELSE w.sent
<1>1. /\ a \in WorkType /\ a.sent = w.sent /\ a.st = "asking" /\ a.step = w.step
      /\ a.tries = w.tries
  BY DEF WorkType
<1>2. n \in Nat /\ n = IF stopped THEN w.sent ELSE w.sent + 1
  BY DEF WorkType, Reaches
<1>3. Ask(w, stopped) = [b EXCEPT !.sent = n]
  BY DEF Ask
<1> HIDE DEF a, n
<1>4. /\ b \in WorkType /\ b.attempts = w.attempts + 1 /\ b.st = "asking"
      /\ b.step = w.step /\ b.tries = w.tries
  <2>1. w.attempts + 1 \in Nat
    BY DEF WorkType
  <2> QED
    BY <1>1, <2>1 DEF WorkType
<1> HIDE DEF b
<1>5. /\ [b EXCEPT !.sent = n] \in WorkType /\ [b EXCEPT !.sent = n].sent = n
      /\ [b EXCEPT !.sent = n].st = b.st /\ [b EXCEPT !.sent = n].step = b.step
      /\ [b EXCEPT !.sent = n].tries = b.tries
      /\ [b EXCEPT !.sent = n].attempts = b.attempts
  BY <1>2, <1>4 DEF WorkType
<1> QED
  BY <1>2, <1>3, <1>4, <1>5

\* The engines keep their types, and what is aborted sends nothing more.
SearchStep == aborted => \A e \in Engines : work'[e].sent = work[e].sent

\* One engine's run moves on; the others stay.
LEMMA WorkKeepsInv ==
  ASSUME RequestsInv, NEW e \in Engines, NEW w \in WorkType,
         work' = [work EXCEPT ![e] = w], aborted => w.sent = work[e].sent,
         UNCHANGED <<call, aborted>>
  PROVE  RequestsInv' /\ SearchStep
<1>1. work \in [Engines -> WorkType] /\ (call = "idle" => ~aborted)
  BY DEF RequestsInv, WorkType
<1>2. work' \in [Engines -> WorkType] /\ RequestsInv'
  BY <1>1 DEF RequestsInv, WorkType
<1> QED
  BY <1>1, <1>2 DEF SearchStep

LEMMA EngineKeepsInv ==
  ASSUME RequestsInv, NEW e \in Engines, EngineStep(e) \/ ForeignSettles(e)
  PROVE  RequestsInv' /\ SearchStep
<1>1. work[e] \in WorkType /\ work \in [Engines -> WorkType] /\ aborted \in BOOLEAN
  BY DEF RequestsInv, WorkType
<1>2. ASSUME NEW got \in Pages \cup Errors, Pause(e, got)
      PROVE  RequestsInv' /\ SearchStep
  <2> DEFINE a == [work[e] EXCEPT !.st = "pause"]
             w == [a EXCEPT !.tries = work[e].tries + 1]
  <2>1. work' = [work EXCEPT ![e] = w] /\ UNCHANGED <<call, aborted>>
    BY <1>2 DEF Pause, Answered, RequestsInv, WorkType
  <2>2. a \in WorkType /\ a.sent = work[e].sent
    BY <1>1 DEF WorkType
  <2>3. work[e].tries + 1 \in Nat
    BY <1>1 DEF WorkType
  <2> HIDE DEF a
  <2>4. w \in WorkType /\ w.sent = work[e].sent
    BY <2>2, <2>3 DEF WorkType
  <2> QED
    BY <2>1, <2>4, WorkKeepsInv
<1>3. ASSUME NEW got \in Pages \cup Errors, NextAddress(e, got)
      PROVE  RequestsInv' /\ SearchStep
  <2> DEFINE a == [work[e] EXCEPT !.step = work[e].step + 1]
             b == NextStep(work[e])
  <2>1. work' = [work EXCEPT ![e] = Ask(b, aborted)] /\ UNCHANGED <<call, aborted>>
    BY <1>3 DEF NextAddress, Answered
  <2>2. a \in WorkType /\ a.sent = work[e].sent
    <3>1. work[e].step + 1 \in Nat
      BY <1>1 DEF WorkType
    <3> QED
      BY <1>1, <3>1 DEF WorkType
  <2>3. b = [a EXCEPT !.tries = 0]
    BY DEF NextStep
  <2> HIDE DEF a, b
  <2>4. b \in WorkType /\ b.sent = work[e].sent
    BY <2>2, <2>3 DEF WorkType
  <2>5. Ask(b, aborted) \in WorkType /\ (aborted => Ask(b, aborted).sent = b.sent)
    BY <1>1, <2>4, AskMakes
  <2> QED
    BY <2>1, <2>4, <2>5, WorkKeepsInv
<1>4. ASSUME work' = [work EXCEPT ![e].st = "over"], UNCHANGED <<call, aborted>>
      PROVE  RequestsInv' /\ SearchStep
  <2> DEFINE a == [work[e] EXCEPT !.st = "over"]
  <2>1. work' = [work EXCEPT ![e] = a]
    BY <1>1, <1>4
  <2>2. a \in WorkType /\ a.sent = work[e].sent
    BY <1>1 DEF WorkType
  <2> HIDE DEF a
  <2> QED
    BY <1>4, <2>1, <2>2, WorkKeepsInv
<1>5. ASSUME NEW got \in Pages \cup Errors, Finish(e, got)
      PROVE  RequestsInv' /\ SearchStep
  BY <1>4, <1>5 DEF Finish, Answered
<1>6. CASE PauseEnds(e)
  <2>1. /\ work' = [work EXCEPT ![e] = Ask(work[e], aborted)] /\ UNCHANGED <<call, aborted>>
    BY <1>1, <1>6 DEF PauseEnds
  <2>2. /\ Ask(work[e], aborted) \in WorkType
        /\ aborted => Ask(work[e], aborted).sent = work[e].sent
    BY <1>1, AskMakes
  <2> QED
    BY <2>1, <2>2, WorkKeepsInv
<1>7. CASE ForeignSettles(e)
  BY <1>4, <1>7 DEF ForeignSettles
<1> QED
  BY <1>2, <1>3, <1>5, <1>6, <1>7 DEF EngineStep

\* The engines start before anything is aborted.
LEMMA StartKeepsInv ==
  ASSUME RequestsInv, Search
  PROVE  RequestsInv' /\ SearchStep
<1>1. PICK eligible, n, thrown : StartEngines(eligible, n, thrown)
  BY DEF Search
<1> DEFINE first == FirstOf(eligible, n)
<1> HIDE DEF first
<1>2. Idle \in WorkType /\ [Idle EXCEPT !.st = "over"] \in WorkType
      /\ [Idle EXCEPT !.st = "asking"] \in WorkType /\ [Idle EXCEPT !.step = 1] \in WorkType
  BY DEF Idle, WorkType
<1>3. \A e \in Engines : FirstAsk(e) \in WorkType
  BY <1>2, AskMakes DEF FirstAsk
<1>4. /\ aborted' \in BOOLEAN /\ call' = "waiting" /\ ~aborted
      /\ work' = [e \in Engines |->
           IF e \in thrown THEN [Idle EXCEPT !.st = "over"]
           ELSE IF e \in first THEN FirstAsk(e) ELSE Idle]
  <2>1. /\ aborted' = (n < Len(eligible))
        /\ work' = [e \in Engines |->
             IF e \in thrown THEN [Idle EXCEPT !.st = "over"]
             ELSE IF e \in FirstOf(eligible, n) THEN FirstAsk(e) ELSE Idle]
    BY <1>1 DEF StartEngines
  <2>2. (n < Len(eligible)) \in BOOLEAN
    OBVIOUS
  <2>3. aborted' \in BOOLEAN
    BY <2>1, <2>2
  <2>4. call = "idle" /\ call' = "waiting" /\ ~aborted
    BY DEF Search, RequestsInv
  <2> QED
    BY <2>1, <2>3, <2>4 DEF first
<1>5. work' \in [Engines -> WorkType]
  BY <1>2, <1>3, <1>4
<1> QED
  BY <1>4, <1>5 DEF RequestsInv, WorkType, SearchStep

LEMMA SearchKeepsInv ==
  ASSUME RequestsInv, [Next]_vars
  PROVE  RequestsInv' /\ SearchStep
<1>1. CASE Search
  BY <1>1, StartKeepsInv
<1>2. ASSUME NEW e \in Engines, EngineStep(e) \/ ForeignSettles(e)
      PROVE  RequestsInv' /\ SearchStep
  BY <1>2, EngineKeepsInv
<1>3. ASSUME work' = work, aborted' \in BOOLEAN, call' = "idle" => call = "idle" /\ ~aborted'
      PROVE  RequestsInv' /\ SearchStep
  BY <1>3 DEF RequestsInv, SearchStep
<1>4. CASE SearchCancelled \/ SearchTimer \/ Return \/ UNCHANGED vars
  <2>1. aborted \in BOOLEAN /\ (call = "idle" => ~aborted)
    BY DEF RequestsInv
  <2>2. work' = work
    BY <1>4 DEF SearchCancelled, SearchTimer, Return, vars
  <2>3. aborted' \in BOOLEAN
    BY <1>4, <2>1 DEF SearchCancelled, SearchTimer, Return, vars
  <2>4. call' = "idle" => call = "idle" /\ ~aborted'
    BY <1>4, <2>1 DEF SearchCancelled, SearchTimer, Return, vars
  <2> QED
    BY <1>3, <2>2, <2>3, <2>4
<1>5. CASE CallerAborts
  BY <1>3, <1>5 DEF CallerAborts, RequestsInv
<1>6. ASSUME NEW e \in Engines, EngineTimer(e) PROVE RequestsInv' /\ SearchStep
  BY <1>3, <1>6 DEF EngineTimer
<1> QED
  BY <1>1, <1>2, <1>4, <1>5, <1>6 DEF Next

LEMMA RequestsInvHolds == ProvidersSpec => []RequestsInv
<1>1. ProvidersInit => RequestsInv
  <2> SUFFICES ASSUME ProvidersInit PROVE RequestsInv
    OBVIOUS
  <2>1. work = [e \in Engines |-> Idle] /\ aborted = FALSE
    BY DEF ProvidersInit, Init
  <2>2. Idle \in WorkType
    BY DEF Idle, WorkType
  <2> QED
    BY <2>1, <2>2 DEF RequestsInv, WorkType
<1>2. RequestsInv /\ [ProvidersNext]_providersVars => RequestsInv'
  BY StepOfEach, SearchKeepsInv
<1> QED
  BY <1>1, <1>2, PTL DEF ProvidersSpec

-----------------------------------------------------------------------------
(* The reply of a generic search *)

\* What each engine is.
LEMMA ProfileTyped ==
  ASSUME NEW e \in Engines
  PROVE  /\ Profile[e].kind \in Kinds /\ Profile[e].steps \in 1..4
         /\ Profile[e].retries \in 0..2 /\ Profile[e].blunt \in BOOLEAN
         /\ e # None /\ e # Deadline
BY AutoSearchAssumption DEF Deadline

LEMMA FirstOfTyped ==
  ASSUME NEW s \in Seq(Engines), NEW n \in 0..Len(s)
  PROVE  FirstOf(s, n) \subseteq Engines /\ FirstOf(s, n) \subseteq FirstOf(s, Len(s))
BY DEF FirstOf

LEMMA EligibleTyped ==
  ASSUME NEW s \in Seq(Engines)
  PROVE  /\ EligibleOf(s) \in Seq(Engines)
         /\ s = <<>> => FirstOf(EligibleOf(s), Len(EligibleOf(s))) = {}
<1>1. BoundedEngineCalls \in Nat
  BY AutoSearchAssumption DEF BoundedEngineCalls
<1> DEFINE n == IF BoundedEngineCalls < Len(s) THEN BoundedEngineCalls ELSE Len(s)
<1>2. n \in 0..Len(s) /\ Len(s) \in Nat
  BY <1>1
<1>3. SubSeq(s, 1, n) \in Seq(Engines) /\ Len(SubSeq(s, 1, n)) = n
  BY <1>2, SubSeqProperties
<1>4. EligibleOf(s) = SubSeq(s, 1, n)
  BY DEF EligibleOf
<1>5. s = <<>> => n = 0
  BY <1>2
<1> HIDE DEF n
<1> QED
  BY <1>3, <1>4, <1>5 DEF FirstOf

LEMMA AskedAreEngines ==
  ASSUME scoped \in Seq(Engines)
  PROVE  Asked \subseteq Engines /\ (scoped = <<>> => Asked = {})
<1>1. EligibleOf(scoped) \in Seq(Engines)
  BY EligibleTyped
<1>2. Len(EligibleOf(scoped)) \in 0..Len(EligibleOf(scoped))
  BY <1>1
<1> QED
  BY <1>1, <1>2, EligibleTyped, FirstOfTyped DEF Asked

\* A run that is as far as it may be has made twelve attempts at most.
LEMMA RunIsBounded ==
  ASSUME NEW e \in Engines, NEW w \in WorkType, MayBe(e, w)
  PROVE  w \in [st : {"idle", "asking", "pause", "over"}, step : 0..4,
                tries : 0..2, attempts : 0..12, sent : 0..12]
<1>1. /\ w.step \in Nat /\ w.tries \in Nat /\ w.attempts \in Nat /\ w.sent \in Nat
      /\ w.st \in {"idle", "asking", "pause", "over"}
      /\ w = [st |-> w.st, step |-> w.step, tries |-> w.tries, attempts |-> w.attempts,
              sent |-> w.sent]
  BY DEF WorkType
<1>2. w.step \in 0..4 /\ w.tries \in 0..2 /\ w.attempts \in 0..12 /\ w.sent \in 0..12
  <2>1. CASE w.st = "idle"
    BY <2>1 DEF MayBe, Idle
  <2>2. CASE Is(e, "foreign")
    BY <2>2 DEF MayBe
  <2>3. CASE w.st # "idle" /\ ~Is(e, "foreign")
    <3>1. /\ w.step \in 1..Profile[e].steps /\ w.tries <= Profile[e].retries
          /\ w.attempts <= 3 * (w.step - 1) + w.tries + 1 /\ w.sent <= w.attempts
      BY <1>1, <2>3 DEF MayBe
    <3> QED
      BY <1>1, <3>1, ProfileTyped
  <2> QED
    BY <2>1, <2>2, <2>3
<1> QED
  BY <1>1, <1>2

LEMMA OutcomeTyped ==
  ASSUME NEW e \in Engines, NEW got \in Pages \cup Errors
  PROVE  /\ OutcomeOf(e, got) \in Outcomes \ {"cancelled"}
         /\ OutcomeOf(e, got) = "timeout" => got = "timeout"
         /\ Profile[e].blunt /\ got \in Errors => OutcomeOf(e, got) = "transport_error"
<1>1. CASE got \in Pages
  BY <1>1 DEF OutcomeOf, Outcomes, Pages, Errors
<1>2. CASE got \in Errors
  BY <1>2 DEF OutcomeOf, Outcomes, Pages, Errors
<1> QED
  BY <1>1, <1>2

LEMMA RowTyped ==
  ASSUME NEW outcome \in Outcomes, NEW content \in BOOLEAN, NEW sent \in Nat
  PROVE  /\ Row(outcome, content, sent) \in RowType
         /\ Row(outcome, content, sent).outcome = outcome
         /\ Row(outcome, content, sent).requests = sent
BY DEF Row, RowType

\* The invariant, by its parts: of the call, of the reply, and of each engine.
CallTyped ==
  /\ call \in {"idle", "waiting", "returned"}
  /\ caller \in BOOLEAN /\ aborted \in BOOLEAN
  /\ scoped \in Seq(Engines)
  /\ work \in [Engines -> WorkType] /\ row \in [Engines -> RowType \cup {None}]
  /\ expired \subseteq Engines \cup {Deadline}
  /\ aborted => caller \/ Deadline \in expired
  /\ (call = "returned") <=> (reply # None)

ReplySays ==
  reply # None =>
    /\ (reply.outcome = "cancelled") <=> caller
    /\ reply.outcome = "timeout" =>
         expired # {} \/ \E e \in Asked : Is(e, "foreign") /\ row[e].outcome = "timeout"
    /\ reply.outcome = "success_empty" =>
         \A e \in Asked : row[e].outcome \in {"success_empty", "success_with_content"}
    /\ (reply.outcome = "success_with_content") =>
         reply.candidates # {} /\ expired \cap {Deadline} = {}

RowSays(e) ==
  /\ row[e] # None => e \in Asked
  /\ row[e] # None /\ row[e].outcome = "timeout" /\ ~Is(e, "foreign")
       => expired \cap {e, Deadline} # {}
  /\ /\ row[e] # None /\ work[e].st = "over"
     /\ row[e].outcome # "cancelled" /\ Deadline \notin expired
     /\ Is(e, "fallback") \/ Is(e, "chain")
     /\ Profile[e].blunt => row[e].outcome # "transport_error"
     => row[e].requests = work[e].sent

EngineInv(e) == RowSays(e) /\ RunInv(e) /\ RaceInv(e)

LEMMA SearchInvByPart ==
  SearchInv => CallTyped /\ ReplySays /\ PhaseInv /\ \A e \in Engines : EngineInv(e)
<1> SUFFICES ASSUME SearchInv
             PROVE  CallTyped /\ ReplySays /\ PhaseInv /\ \A e \in Engines : EngineInv(e)
  OBVIOUS
<1>1. TypeOK /\ RowsAreTrue /\ PhaseInv
  BY DEF SearchInv, ReplyIsHonest
<1>2. work \in [Engines -> WorkType]
  BY <1>1 DEF TypeOK, WorkType
<1>3. CallTyped
  BY <1>1, <1>2 DEF TypeOK, CallTyped
<1>4. ReplySays
  BY DEF SearchInv, ReplyIsHonest, ReplySays
<1>5. \A e \in Engines : RowSays(e)
  BY <1>1 DEF TypeOK, RowsAreTrue, NoFalseTimeout, RequestsAreCounted, RowSays
<1> QED
  BY <1>1, <1>3, <1>4, <1>5 DEF EngineInv, SearchInv

LEMMA SearchInvNext ==
  CallTyped' /\ ReplySays' /\ PhaseInv' /\ (\A e \in Engines : EngineInv(e)') => SearchInv'
<1> SUFFICES ASSUME CallTyped', ReplySays', PhaseInv', \A e \in Engines : EngineInv(e)'
             PROVE  SearchInv'
  OBVIOUS
<1>1. \A e \in Engines : RowSays(e)' /\ RunInv(e)' /\ RaceInv(e)'
  BY DEF EngineInv
<1>2. \A e \in Engines : work'[e] \in WorkType /\ MayBe(e, work'[e])
  BY <1>1 DEF CallTyped, RunInv
<1>3. work' \in [Engines -> [st : {"idle", "asking", "pause", "over"}, step : 0..4,
                             tries : 0..2, attempts : 0..12, sent : 0..12]]
  BY <1>2, RunIsBounded DEF CallTyped
<1>4. TypeOK'
  BY <1>1, <1>3 DEF CallTyped, TypeOK, RowSays
<1>5. RowsAreTrue'
  BY <1>1 DEF RowsAreTrue, NoFalseTimeout, RequestsAreCounted, RowSays
<1> QED
  BY <1>1, <1>4, <1>5 DEF SearchInv, ReplyIsHonest, ReplySays

\* A step of one engine's run: the others stay, and a race decided before stays so.
LEMMA RunMoves ==
  ASSUME SearchInv, NEW e \in Engines, NEW w \in WorkType, NEW r \in RowType,
         work' = [work EXCEPT ![e] = w], work[e].st \in {"asking", "pause"},
         call' = call, scoped' = scoped, caller' = caller, aborted' = aborted, reply' = reply,
         expired \subseteq expired', expired' \subseteq expired \cup {e},
         MayBe(e, w), ~aborted => w.sent = w.attempts,
         \/ row' = row
         \/ /\ row[e] = None /\ row' = [row EXCEPT ![e] = r] /\ w.st = "over"
            /\ r.outcome = "cancelled" => aborted
            /\ r.outcome = "timeout" /\ ~Is(e, "foreign") => expired' \cap {e, Deadline} # {}
            /\ /\ r.outcome # "cancelled" /\ Deadline \notin expired
               /\ Is(e, "fallback") \/ Is(e, "chain")
               /\ Profile[e].blunt => r.outcome # "transport_error"
               => r.requests = w.sent
  PROVE  SearchInv'
<1>1. CallTyped /\ ReplySays /\ PhaseInv /\ \A o \in Engines : EngineInv(o)
  BY SearchInvByPart
<1>2. /\ \A o \in Engines \ {e} : work'[o] = work[o] /\ row'[o] = row[o]
      /\ work'[e] = w /\ work' \in [Engines -> WorkType]
      /\ row' \in [Engines -> RowType \cup {None}]
      /\ row'[e] = row[e] \/ row[e] = None
      /\ row'[e] = row[e] \/ row'[e] = r
  BY <1>1 DEF CallTyped
<1>3. Asked' = Asked /\ e \in Asked /\ (Deadline \in expired' <=> Deadline \in expired)
  BY <1>1, ProfileTyped DEF Asked, EngineInv, RunInv
<1>4. CallTyped'
  BY <1>1, <1>2, <1>3, ProfileTyped DEF CallTyped
<1>5. call = "returned" => row' = row
  BY <1>1, <1>3 DEF PhaseInv, Racing
<1>6. ReplySays'
  BY <1>1, <1>3, <1>5 DEF ReplySays, CallTyped
<1>7. PhaseInv'
  <2>1. call # "idle"
    BY <1>1 DEF PhaseInv, Idle
  <2>2. Racing' \subseteq Racing
    BY <1>1, <1>2, <1>3, AskedAreEngines DEF Racing, CallTyped
  <2> QED
    BY <1>1, <1>3, <2>1, <2>2 DEF PhaseInv
<1>8. ASSUME NEW o \in Engines, o # e PROVE EngineInv(o)'
  <2>1. EngineInv(o)
    BY <1>1
  <2>2. RowSays(o)'
    BY <1>2, <1>3, <1>8, <2>1 DEF EngineInv, RowSays
  <2>3. RunInv(o)' /\ RaceInv(o)'
    BY <1>2, <1>3, <1>8, <2>1 DEF EngineInv, RunInv, RaceInv
  <2> QED
    BY <2>2, <2>3 DEF EngineInv
<1>9. EngineInv(e)'
  <2>1. RunInv(e)'
    BY <1>2, <1>3 DEF RunInv
  <2>2. EngineInv(e)
    BY <1>1
  <2>3. CASE row' = row
    <3>1. row[e] # None =>
            Is(e, "foreign") \/ row[e].outcome = "cancelled" \/ Deadline \in expired
      BY <2>2 DEF EngineInv, RaceInv
    <3>2. ~(Is(e, "foreign") /\ (Is(e, "fallback") \/ Is(e, "chain")))
      BY DEF Is
    <3> QED
      BY <1>2, <1>3, <2>1, <2>2, <2>3, <3>1, <3>2 DEF EngineInv, RowSays, RaceInv
  <2>4. CASE row' # row
    <3>1. row'[e] = r /\ work'[e].st = "over"
      BY <1>1, <1>2, <2>4 DEF CallTyped
    <3> QED
      BY <1>2, <1>3, <2>1, <2>4, <3>1 DEF EngineInv, RowSays, RaceInv
  <2> QED
    BY <2>3, <2>4
<1> QED
  BY <1>4, <1>6, <1>7, <1>8, <1>9, SearchInvNext

\* A row that is made here, and one step of a run that settles no race.
LEMMA SomeRow == Row("timeout", FALSE, 0) \in RowType /\ Row("cancelled", FALSE, 1) \in RowType
BY DEF Row, RowType, Outcomes

LEMMA RunMovesQuietly ==
  ASSUME SearchInv, NEW e \in Engines, NEW w \in WorkType,
         work' = [work EXCEPT ![e] = w], work[e].st \in {"asking", "pause"},
         call' = call, scoped' = scoped, caller' = caller, aborted' = aborted, reply' = reply,
         expired \subseteq expired', expired' \subseteq expired \cup {e},
         MayBe(e, w), ~aborted => w.sent = w.attempts, row' = row
  PROVE  SearchInv'
<1> DEFINE r == Row("timeout", FALSE, 0)
<1>1. r \in RowType
  BY SomeRow
<1> HIDE DEF r
<1> QED
  BY <1>1, RunMoves


\* What is known of an engine that is asked or pauses.
LEMMA RunningEngine ==
  ASSUME SearchInv, NEW e \in Engines, work[e].st \in {"asking", "pause"}, ~Is(e, "foreign")
  PROVE  /\ work[e] \in WorkType /\ work \in [Engines -> WorkType] /\ aborted \in BOOLEAN
         /\ work[e].step \in 1..Profile[e].steps /\ work[e].tries <= Profile[e].retries
         /\ work[e].attempts <= 3 * (work[e].step - 1) + work[e].tries
                                  + (IF work[e].st = "pause" THEN 0 ELSE 1)
         /\ work[e].sent <= work[e].attempts
         /\ ~aborted => work[e].sent = work[e].attempts
         /\ row[e] # None => row[e].outcome = "cancelled" \/ Deadline \in expired
         /\ aborted => Deadline \in expired \/ row[e] # None
<1>1. CallTyped /\ PhaseInv /\ EngineInv(e)
  BY SearchInvByPart
<1>2. work[e].st # "idle" /\ MayBe(e, work[e])
  BY <1>1 DEF EngineInv, RunInv
<1>3. aborted => Deadline \in expired \/ row[e] # None
  <2>1. e \in Asked
    BY <1>1, <1>2 DEF EngineInv, RunInv
  <2>2. call # "idle"
    BY <1>1, <1>2 DEF PhaseInv, Idle
  <2> QED
    BY <1>1, <2>1, <2>2 DEF PhaseInv, CallTyped, Racing
<1> QED
  BY <1>1, <1>2, <1>3 DEF EngineInv, RunInv, MayBe, RaceInv, CallTyped

LEMMA AnswerFrame ==
  ASSUME SearchInv, NEW e \in Engines, NEW got \in Pages \cup Errors, Answered(e, got)
  PROVE  /\ call' = call /\ scoped' = scoped /\ caller' = caller /\ aborted' = aborted
         /\ reply' = reply /\ work[e].st = "asking" /\ ~Is(e, "foreign")
         /\ expired \subseteq expired' /\ expired' \subseteq expired \cup {e}
         /\ aborted => got = "timeout"
         /\ got = "timeout" /\ ~aborted => e \in expired'
BY DEF Answered

LEMMA PauseKeepsSearch ==
  ASSUME SearchInv, NEW e \in Engines, NEW got \in Pages \cup Errors, Pause(e, got)
  PROVE  SearchInv'
<1> DEFINE a == [work[e] EXCEPT !.st = "pause"]
           w == [a EXCEPT !.tries = work[e].tries + 1]
<1>1. Answered(e, got) /\ row' = row /\ work[e].tries < Profile[e].retries
  BY DEF Pause, WantsRetry
<1>2. /\ work[e] \in WorkType /\ work \in [Engines -> WorkType]
      /\ work[e].step \in 1..Profile[e].steps
      /\ work[e].attempts <= 3 * (work[e].step - 1) + work[e].tries + 1
      /\ work[e].sent <= work[e].attempts
      /\ ~aborted => work[e].sent = work[e].attempts
      /\ work[e].st = "asking" /\ ~Is(e, "foreign")
  BY <1>1, AnswerFrame, RunningEngine
<1>3. work' = [work EXCEPT ![e] = w]
  BY <1>2 DEF Pause, WorkType
<1>4. /\ a \in WorkType /\ a.sent = work[e].sent /\ a.st = "pause" /\ a.step = work[e].step
      /\ a.attempts = work[e].attempts /\ work[e].tries + 1 \in Nat
  BY <1>2 DEF WorkType
<1> HIDE DEF a
<1>5. /\ w \in WorkType /\ w.sent = work[e].sent /\ w.st = "pause" /\ w.step = work[e].step
      /\ w.attempts = work[e].attempts /\ w.tries = work[e].tries + 1
  BY <1>4 DEF WorkType
<1> HIDE DEF w
<1>6. MayBe(e, w)
  <2>1. /\ work[e].step \in Nat /\ work[e].tries \in Nat /\ work[e].attempts \in Nat
        /\ Profile[e].retries \in Nat
    BY <1>2, ProfileTyped DEF WorkType
  <2>2. w.tries <= Profile[e].retries
    BY <1>1, <1>5, <2>1
  <2>3. w.attempts <= 3 * (w.step - 1) + w.tries + 0
    BY <1>2, <1>5, <2>1
  <2> QED
    BY <1>2, <1>5, <2>2, <2>3 DEF MayBe
<1> QED
  BY <1>1, <1>2, <1>3, <1>5, <1>6, AnswerFrame, RunMovesQuietly

LEMMA NextAddressKeepsSearch ==
  ASSUME SearchInv, NEW e \in Engines, NEW got \in Pages \cup Errors, NextAddress(e, got)
  PROVE  SearchInv'
<1> DEFINE a == [work[e] EXCEPT !.step = work[e].step + 1]
           b == NextStep(work[e])
           w == Ask(b, aborted)
<1>1. Answered(e, got) /\ row' = row /\ work[e].step < Profile[e].steps
  BY DEF NextAddress, MovesOn
<1>2. /\ work[e] \in WorkType /\ work \in [Engines -> WorkType] /\ aborted \in BOOLEAN
      /\ work[e].step \in 1..Profile[e].steps /\ work[e].tries <= Profile[e].retries
      /\ work[e].attempts <= 3 * (work[e].step - 1) + work[e].tries + 1
      /\ work[e].sent <= work[e].attempts
      /\ ~aborted => work[e].sent = work[e].attempts
      /\ work[e].st = "asking" /\ ~Is(e, "foreign")
  BY <1>1, AnswerFrame, RunningEngine
<1>3. work' = [work EXCEPT ![e] = w]
  BY DEF NextAddress
<1>4. /\ a \in WorkType /\ a.sent = work[e].sent /\ a.step = work[e].step + 1
      /\ a.attempts = work[e].attempts /\ b = [a EXCEPT !.tries = 0]
  <2>1. work[e].step + 1 \in Nat
    BY <1>2 DEF WorkType
  <2> QED
    BY <1>2, <2>1 DEF WorkType, NextStep
<1> HIDE DEF a, b
<1>5. /\ b \in WorkType /\ b.sent = work[e].sent /\ b.step = work[e].step + 1
      /\ b.attempts = work[e].attempts /\ b.tries = 0
  BY <1>4 DEF WorkType
<1>6. /\ w \in WorkType /\ w.st = "asking" /\ w.step = work[e].step + 1 /\ w.tries = 0
      /\ w.attempts = work[e].attempts + 1
      /\ w.sent = IF aborted THEN work[e].sent ELSE work[e].sent + 1
  BY <1>2, <1>5, AskMakes
<1> HIDE DEF w
<1>7. MayBe(e, w) /\ (~aborted => w.sent = w.attempts)
  <2>1. /\ work[e].step \in Nat /\ work[e].tries \in Nat /\ work[e].attempts \in Nat
        /\ work[e].sent \in Nat
        /\ Profile[e].retries \in 0..2 /\ Profile[e].steps \in 1..4
    BY <1>2, ProfileTyped DEF WorkType
  <2>2. w.step \in 1..Profile[e].steps /\ w.tries <= Profile[e].retries
    BY <1>1, <1>6, <2>1
  <2>3. w.attempts <= 3 * (w.step - 1) + w.tries + 1 /\ w.sent <= w.attempts
    BY <1>2, <1>6, <2>1
  <2>4. ~aborted => w.sent = w.attempts
    BY <1>2, <1>6
  <2> QED
    BY <1>2, <1>6, <2>2, <2>3, <2>4 DEF MayBe
<1> QED
  BY <1>1, <1>2, <1>3, <1>6, <1>7, AnswerFrame, RunMovesQuietly

LEMMA PauseEndsKeepsSearch ==
  ASSUME SearchInv, NEW e \in Engines, PauseEnds(e)
  PROVE  SearchInv'
<1> DEFINE w == Ask(work[e], aborted)
<1>0. work[e].st = "pause" /\ ~Is(e, "foreign")
  BY SearchInvByPart DEF PauseEnds, EngineInv, RunInv, MayBe
<1>1. /\ call' = call /\ scoped' = scoped /\ caller' = caller /\ aborted' = aborted
      /\ reply' = reply /\ row' = row /\ expired' = expired
      /\ work' = [work EXCEPT ![e] = w]
  BY DEF PauseEnds
<1>2. /\ work[e] \in WorkType /\ work \in [Engines -> WorkType] /\ aborted \in BOOLEAN
      /\ work[e].step \in 1..Profile[e].steps /\ work[e].tries <= Profile[e].retries
      /\ work[e].attempts <= 3 * (work[e].step - 1) + work[e].tries + 0
      /\ work[e].sent <= work[e].attempts
      /\ ~aborted => work[e].sent = work[e].attempts
  BY <1>0, RunningEngine
<1>3. /\ w \in WorkType /\ w.st = "asking" /\ w.step = work[e].step
      /\ w.tries = work[e].tries /\ w.attempts = work[e].attempts + 1
      /\ w.sent = IF aborted THEN work[e].sent ELSE work[e].sent + 1
  BY <1>2, AskMakes
<1> HIDE DEF w
<1>4. MayBe(e, w) /\ (~aborted => w.sent = w.attempts)
  <2>1. /\ work[e].step \in Nat /\ work[e].tries \in Nat /\ work[e].attempts \in Nat
        /\ work[e].sent \in Nat
        /\ Profile[e].retries \in 0..2 /\ Profile[e].steps \in 1..4
    BY <1>2, ProfileTyped DEF WorkType
  <2>2. w.step \in 1..Profile[e].steps /\ w.tries <= Profile[e].retries
    BY <1>2, <1>3
  <2>3. w.attempts <= 3 * (w.step - 1) + w.tries + 1 /\ w.sent <= w.attempts
    BY <1>2, <1>3, <2>1
  <2>4. ~aborted => w.sent = w.attempts
    BY <1>2, <1>3
  <2> QED
    BY <1>0, <1>3, <2>2, <2>3, <2>4 DEF MayBe
<1> QED
  BY <1>0, <1>1, <1>3, <1>4, RunMovesQuietly

LEMMA OverTyped ==
  ASSUME NEW w \in WorkType
  PROVE  /\ [w EXCEPT !.st = "over"] \in WorkType /\ [w EXCEPT !.st = "over"].st = "over"
         /\ [w EXCEPT !.st = "over"].step = w.step /\ [w EXCEPT !.st = "over"].tries = w.tries
         /\ [w EXCEPT !.st = "over"].attempts = w.attempts
         /\ [w EXCEPT !.st = "over"].sent = w.sent
BY DEF WorkType

LEMMA FinishKeepsSearch ==
  ASSUME SearchInv, NEW e \in Engines, NEW got \in Pages \cup Errors, Finish(e, got)
  PROVE  SearchInv'
<1> DEFINE w == [work[e] EXCEPT !.st = "over"]
           r == Row(OutcomeOf(e, got), HasRecords(got), Reported(e, got))
<1>1. /\ Answered(e, got)
      /\ row' = IF row[e] = None THEN [row EXCEPT ![e] = r] ELSE row
  BY DEF Finish, Settle
<1>2. /\ work[e] \in WorkType /\ work \in [Engines -> WorkType] /\ aborted \in BOOLEAN
      /\ work[e].step \in 1..Profile[e].steps /\ work[e].tries <= Profile[e].retries
      /\ work[e].attempts <= 3 * (work[e].step - 1) + work[e].tries + 1
      /\ work[e].sent <= work[e].attempts
      /\ ~aborted => work[e].sent = work[e].attempts
      /\ work[e].st = "asking" /\ ~Is(e, "foreign")
      /\ aborted => Deadline \in expired \/ row[e] # None
  BY <1>1, AnswerFrame, RunningEngine
<1>3. work' = [work EXCEPT ![e] = w]
  BY <1>2 DEF Finish
<1>4. /\ w \in WorkType /\ w.st = "over" /\ w.step = work[e].step /\ w.tries = work[e].tries
      /\ w.attempts = work[e].attempts /\ w.sent = work[e].sent
  BY <1>2, OverTyped
<1> HIDE DEF w
<1>5. MayBe(e, w)
  BY <1>2, <1>4 DEF MayBe
<1>6. Reported(e, got) \in Nat /\ HasRecords(got) \in BOOLEAN
  BY <1>2 DEF Reported, WorkType, HasRecords
<1>7. /\ r \in RowType /\ r.outcome = OutcomeOf(e, got) /\ r.requests = Reported(e, got)
      /\ r.outcome # "cancelled" /\ (r.outcome = "timeout" => got = "timeout")
      /\ Profile[e].blunt /\ got \in Errors => r.outcome = "transport_error"
  BY <1>6, OutcomeTyped, RowTyped
<1> HIDE DEF r
<1>8. row[e] = None /\ r.outcome = "timeout" => expired' \cap {e, Deadline} # {}
  BY <1>1, <1>2, <1>7, AnswerFrame
<1>9. /\ row[e] = None /\ Deadline \notin expired
      /\ Is(e, "fallback") \/ Is(e, "chain")
      /\ Profile[e].blunt => r.outcome # "transport_error"
      => r.requests = w.sent
  <2>1. Is(e, "fallback") \/ Is(e, "chain") => ~Is(e, "single")
    BY DEF Is
  <2> QED
    BY <1>2, <1>4, <1>7, <2>1 DEF Reported
<1>10. \/ row' = row
       \/ row[e] = None /\ row' = [row EXCEPT ![e] = r]
  BY <1>1
<1> QED
  BY <1>1, <1>2, <1>3, <1>4, <1>5, <1>7, <1>8, <1>9, <1>10, AnswerFrame, RunMoves

LEMMA ForeignKeepsSearch ==
  ASSUME SearchInv, NEW e \in Engines, ForeignSettles(e)
  PROVE  SearchInv'
<1> DEFINE w == [work[e] EXCEPT !.st = "over"]
<1>1. /\ call' = call /\ scoped' = scoped /\ caller' = caller /\ aborted' = aborted
      /\ reply' = reply /\ expired' = expired
      /\ work[e].st = "asking" /\ Is(e, "foreign")
  BY DEF ForeignSettles
<1>2. CallTyped /\ EngineInv(e)
  BY SearchInvByPart
<1>3. work[e] \in WorkType /\ work' = [work EXCEPT ![e] = w]
  BY <1>2 DEF ForeignSettles, CallTyped
<1>4. /\ w \in WorkType /\ w.st = "over" /\ w.step = work[e].step /\ w.tries = work[e].tries
      /\ w.attempts = work[e].attempts /\ w.sent = work[e].sent
  BY <1>3, OverTyped
<1> HIDE DEF w
<1>5. MayBe(e, w) /\ (~aborted => w.sent = w.attempts)
  BY <1>1, <1>2, <1>4 DEF MayBe, EngineInv, RunInv
<1>6. ~Is(e, "fallback") /\ ~Is(e, "chain")
  BY <1>1 DEF Is
<1>7. PICK outcome \in Outcomes, content \in BOOLEAN :
        /\ row' = Settle(e, outcome, content, 1)
        /\ outcome = "cancelled" => aborted
  <2>1. CASE \E outcome \in Outcomes \ {"cancelled"} :
               row' = Settle(e, outcome, outcome = "success_with_content", 1)
    <3>1. PICK outcome \in Outcomes \ {"cancelled"} :
            row' = Settle(e, outcome, outcome = "success_with_content", 1)
      BY <2>1
    <3>2. CASE outcome = "success_with_content"
      BY <3>1, <3>2
    <3>3. CASE outcome # "success_with_content"
      BY <3>1, <3>3
    <3> QED
      BY <3>2, <3>3
  <2>2. CASE row' = Settle(e, IF aborted THEN "cancelled" ELSE "transport_error", FALSE, 1)
    BY <2>2 DEF Outcomes
  <2> QED
    BY <2>1, <2>2 DEF ForeignSettles
<1> DEFINE r == Row(outcome, content, 1)
<1>8. r \in RowType /\ r.outcome = outcome
  BY RowTyped
<1>9. row' = row \/ (row[e] = None /\ row' = [row EXCEPT ![e] = r])
  BY <1>7 DEF Settle
<1> HIDE DEF r
<1> QED
  BY <1>1, <1>3, <1>4, <1>5, <1>6, <1>7, <1>8, <1>9, RunMoves

\* The first request of an engine.
LEMMA FirstAskTyped ==
  ASSUME NEW e \in Engines
  PROVE  /\ FirstAsk(e) \in WorkType /\ FirstAsk(e).st = "asking" /\ MayBe(e, FirstAsk(e))
         /\ FirstAsk(e).sent = FirstAsk(e).attempts
<1>1. CASE Is(e, "foreign")
  <2> DEFINE w == [Idle EXCEPT !.st = "asking"]
  <2>1. FirstAsk(e) = w
    BY <1>1 DEF FirstAsk
  <2>2. /\ w \in WorkType /\ w.st = "asking" /\ w.step = 0 /\ w.tries = 0 /\ w.attempts = 0
        /\ w.sent = 0
    BY DEF Idle, WorkType
  <2> HIDE DEF w
  <2> QED
    BY <1>1, <2>1, <2>2 DEF MayBe
<1>2. CASE ~Is(e, "foreign")
  <2> DEFINE w == [Idle EXCEPT !.step = 1]
             still == FALSE
             a == Ask(w, still)
  <2>1. FirstAsk(e) = a /\ still \in BOOLEAN /\ ~still
    BY <1>2 DEF FirstAsk
  <2>2. w \in WorkType /\ w.step = 1 /\ w.tries = 0 /\ w.attempts = 0 /\ w.sent = 0
    BY DEF Idle, WorkType
  <2> HIDE DEF w, still
  <2>3. /\ a \in WorkType /\ a.st = "asking" /\ a.step = 1 /\ a.tries = 0 /\ a.attempts = 1
        /\ a.sent = 1
    BY <2>1, <2>2, AskMakes
  <2> HIDE DEF a
  <2>4. 1 \in 1..Profile[e].steps /\ 0 <= Profile[e].retries
    BY ProfileTyped
  <2> QED
    BY <1>2, <2>1, <2>3, <2>4 DEF MayBe
<1> QED
  BY <1>1, <1>2

\* An engine that has not started, and one that threw as it did.
LEMMA NotStarted ==
  ASSUME NEW e \in Engines
  PROVE  /\ Idle \in WorkType /\ MayBe(e, Idle) /\ Idle.sent = Idle.attempts /\ Idle.st = "idle"
         /\ [Idle EXCEPT !.st = "over"] \in WorkType
         /\ [Idle EXCEPT !.st = "over"].sent = [Idle EXCEPT !.st = "over"].attempts
         /\ Is(e, "foreign") => MayBe(e, [Idle EXCEPT !.st = "over"])
<1> DEFINE w == [Idle EXCEPT !.st = "over"]
<1>1. /\ w \in WorkType /\ w.st = "over" /\ w.step = 0 /\ w.tries = 0 /\ w.attempts = 0
      /\ w.sent = 0
  BY DEF Idle, WorkType
<1> HIDE DEF w
<1>2. Is(e, "foreign") => MayBe(e, w)
  BY <1>1 DEF MayBe
<1>3. Idle \in WorkType /\ Idle.sent = Idle.attempts /\ Idle.st = "idle"
  BY DEF Idle, WorkType
<1>4. MayBe(e, Idle)
  BY DEF MayBe, Idle
<1>5. w.sent = w.attempts
  BY <1>1
<1> QED
  BY <1>1, <1>2, <1>3, <1>4, <1>5 DEF w

LEMMA SearchKeepsSearch ==
  ASSUME SearchInv, Search
  PROVE  SearchInv'
<1>1. CallTyped /\ PhaseInv
  BY SearchInvByPart
<1>2. PICK scope \in Scopes :
        LET eligible == EligibleOf(Selected(scope)) IN
        /\ scoped' = Selected(scope)
        /\ \E n \in 0..Len(eligible) :
           \E thrown \in SUBSET {e \in FirstOf(eligible, n) : Is(e, "foreign")} :
             StartEngines(eligible, n, thrown)
  BY DEF Search
<1> DEFINE eligible == EligibleOf(Selected(scope))
<1>3. scoped' \in Seq(Engines) /\ eligible = EligibleOf(scoped') /\ eligible \in Seq(Engines)
  BY <1>2, SelectedTyped, EligibleTyped
<1>4a. PICK n \in 0..Len(eligible) :
        \E thrown \in SUBSET {e \in FirstOf(eligible, n) : Is(e, "foreign")} :
          StartEngines(eligible, n, thrown)
  BY <1>2
<1>4. PICK thrown \in SUBSET {e \in FirstOf(eligible, n) : Is(e, "foreign")} :
        StartEngines(eligible, n, thrown)
  BY <1>4a
<1>5. Asked' = FirstOf(eligible, Len(eligible))
  BY <1>3 DEF Asked
<1> HIDE DEF eligible
<1> DEFINE late == n < Len(eligible)
           started == FirstOf(eligible, n)
           behind == FirstOf(eligible, Len(eligible)) \ FirstOf(eligible, n + 1)
<1>6. /\ Asked' \subseteq Engines /\ started \subseteq Asked' /\ behind \subseteq Asked'
      /\ late => eligible[n + 1] \in Asked'
      /\ thrown \subseteq started /\ \A e \in thrown : Is(e, "foreign")
  BY <1>3, <1>4, <1>5 DEF FirstOf
<1>7. /\ call' = "waiting" /\ caller' = caller /\ caller = FALSE /\ reply' = reply /\ reply = None
      /\ aborted' = late /\ expired' = (IF late THEN {Deadline} ELSE {})
      /\ work' = [e \in Engines |->
           IF e \in thrown THEN [Idle EXCEPT !.st = "over"]
           ELSE IF e \in started THEN FirstAsk(e) ELSE Idle]
      /\ row' = [e \in Engines |->
           CASE e \in thrown -> Row("transport_error", FALSE, 1)
             [] late /\ e = eligible[n + 1] -> Row("timeout", FALSE, 0)
             [] late /\ e \in behind -> Row("cancelled", FALSE, 0)
             [] OTHER -> None]
  BY <1>1, <1>4 DEF Search, StartEngines, CallTyped
<1> DEFINE ok == Deadline \in expired' <=> late
<1>8. ok /\ late \in BOOLEAN
  BY <1>7
<1> HIDE DEF late, started, behind
<1>9. ASSUME NEW e \in Engines
      PROVE  /\ work'[e] \in WorkType /\ MayBe(e, work'[e]) /\ work'[e].sent = work'[e].attempts
             /\ work'[e].st # "idle" => e \in Asked'
  <2>1. CASE e \in thrown
    BY <1>6, <1>7, <2>1, NotStarted
  <2>2. CASE e \notin thrown /\ e \in started
    BY <1>6, <1>7, <2>2, FirstAskTyped
  <2>3. CASE e \notin thrown /\ e \notin started
    BY <1>7, <2>3, NotStarted
  <2> QED
    BY <2>1, <2>2, <2>3
<1>10. ASSUME NEW e \in Engines, row'[e] # None
       PROVE  \/ /\ e \in thrown /\ row'[e] = Row("transport_error", FALSE, 1)
              \/ /\ late /\ e \in Asked'
                 /\ row'[e] \in {Row("timeout", FALSE, 0), Row("cancelled", FALSE, 0)}
  <2>1. row'[e] = CASE e \in thrown -> Row("transport_error", FALSE, 1)
                    [] late /\ e = eligible[n + 1] -> Row("timeout", FALSE, 0)
                    [] late /\ e \in behind -> Row("cancelled", FALSE, 0)
                    [] OTHER -> None
    BY <1>7
  <2> QED
    BY <1>6, <1>10, <2>1
<1>11. CallTyped'
  <2>1. work' \in [Engines -> WorkType]
    BY <1>7, <1>9
  <2>2. \A e \in Engines : row'[e] \in RowType \cup {None}
    <3>1. Row("transport_error", FALSE, 1) \in RowType /\ Row("timeout", FALSE, 0) \in RowType
          /\ Row("cancelled", FALSE, 0) \in RowType
      BY DEF Row, RowType, Outcomes
    <3> QED
      BY <1>10, <3>1
  <2>3. row' \in [Engines -> RowType \cup {None}]
    BY <1>7, <2>2
  <2> QED
    BY <1>1, <1>3, <1>7, <1>8, <2>1, <2>3 DEF CallTyped
<1>12. ReplySays' /\ PhaseInv'
  BY <1>1, <1>7, <1>8 DEF ReplySays, PhaseInv
<1>13. ASSUME NEW e \in Engines PROVE EngineInv(e)'
  <2>1. RunInv(e)'
    BY <1>9 DEF RunInv
  <2>2. RowSays(e)' /\ RaceInv(e)'
    <3>1. CASE row'[e] = None
      BY <3>1 DEF RowSays, RaceInv
    <3>2. CASE e \in thrown /\ row'[e] = Row("transport_error", FALSE, 1)
      <4>1. Is(e, "foreign") /\ ~Is(e, "fallback") /\ ~Is(e, "chain") /\ e \in Asked'
        BY <1>6, <3>2 DEF Is
      <4>2. row'[e].outcome = "transport_error"
        BY <3>2 DEF Row
      <4> QED
        BY <4>1, <4>2 DEF RowSays, RaceInv
    <3>3. CASE late /\ e \in Asked'
               /\ row'[e] \in {Row("timeout", FALSE, 0), Row("cancelled", FALSE, 0)}
      <4>1. Deadline \in expired' /\ aborted' /\ e \in Asked'
        BY <1>7, <1>8, <3>3
      <4> QED
        BY <4>1 DEF RowSays, RaceInv
    <3> QED
      BY <1>10, <3>1, <3>2, <3>3
  <2> QED
    BY <2>1, <2>2 DEF EngineInv
<1> QED
  BY <1>11, <1>12, <1>13, SearchInvNext

LEMMA CancelledKeepsSearch ==
  ASSUME SearchInv, SearchCancelled
  PROVE  SearchInv'
<1>1. CallTyped /\ PhaseInv /\ \A e \in Engines : EngineInv(e)
  BY SearchInvByPart
<1>2. /\ call = "idle" /\ caller /\ call' = "returned" /\ scoped' = scoped /\ caller' = caller
      /\ aborted' = aborted /\ work' = work /\ row' = row /\ expired' = expired
      /\ reply' = Reply("cancelled", {}, "cancelled")
  BY DEF SearchCancelled
<1>3. Reply("cancelled", {}, "cancelled") \in ReplyType /\ reply'.outcome = "cancelled"
  BY <1>2 DEF Reply, ReplyType, Outcomes
<1>4. reply' # None
  BY <1>2, <1>3, NoneAssumption
<1>5. Asked' = Asked /\ Asked = {}
  BY <1>1, <1>2, AskedAreEngines DEF Asked, PhaseInv, CallTyped
<1>6. CallTyped' /\ ReplySays' /\ PhaseInv'
  BY <1>1, <1>2, <1>3, <1>4, <1>5 DEF CallTyped, ReplySays, PhaseInv, Racing
<1>7. ASSUME NEW e \in Engines PROVE EngineInv(e)'
  BY <1>1, <1>2, <1>5 DEF EngineInv, RowSays, RunInv, RaceInv
<1> QED
  BY <1>6, <1>7, SearchInvNext

\* The call is over for some engines: each race that an abort or a timer decides.
LEMMA RacesEnd ==
  ASSUME SearchInv, call = "waiting", NEW lost \in SUBSET Racing, NEW r \in RowType,
         call' = call, scoped' = scoped, work' = work, reply' = reply,
         caller' \in BOOLEAN, caller => caller', aborted' = TRUE,
         expired' = expired \/ expired' = expired \cup {Deadline},
         caller' \/ Deadline \in expired',
         row' = [e \in Engines |-> IF e \in lost THEN r ELSE row[e]],
         r.outcome = "cancelled" \/ Deadline \in expired',
         caller' => lost = Racing
  PROVE  SearchInv'
<1>1. CallTyped /\ PhaseInv /\ \A e \in Engines : EngineInv(e)
  BY SearchInvByPart
<1>2. Asked' = Asked /\ Asked \subseteq Engines /\ reply = None /\ r # None
  BY <1>1, AskedAreEngines, NoneAssumption DEF Asked, CallTyped
<1>3. CallTyped'
  <2>1. row' \in [Engines -> RowType \cup {None}]
    BY <1>1 DEF CallTyped
  <2> QED
    BY <1>1, <2>1 DEF CallTyped
<1>4. ReplySays'
  BY <1>2 DEF ReplySays
<1>5. PhaseInv'
  <2>1. caller' => Racing' = {}
    BY <1>2 DEF Racing
  <2> QED
    BY <2>1 DEF PhaseInv
<1>6. ASSUME NEW e \in Engines PROVE EngineInv(e)'
  <2>1. EngineInv(e)
    BY <1>1
  <2>2. RunInv(e)'
    BY <1>2, <2>1 DEF EngineInv, RunInv
  <2>3. CASE e \in lost
    <3>1. row'[e] = r /\ e \in Asked
      BY <2>3 DEF Racing
    <3> QED
      BY <1>2, <2>2, <3>1 DEF EngineInv, RowSays, RaceInv
  <2>4. CASE e \notin lost
    <3>1. row'[e] = row[e]
      BY <2>4
    <3> QED
      BY <1>2, <2>1, <2>2, <3>1 DEF EngineInv, RowSays, RaceInv
  <2> QED
    BY <2>3, <2>4
<1> QED
  BY <1>3, <1>4, <1>5, <1>6, SearchInvNext

LEMMA AbortKeepsSearch ==
  ASSUME SearchInv, CallerAborts
  PROVE  SearchInv'
<1>1. CallTyped /\ ReplySays /\ PhaseInv /\ \A e \in Engines : EngineInv(e)
  BY SearchInvByPart
<1>2. /\ ~caller /\ call # "returned" /\ caller' = TRUE /\ call' = call /\ scoped' = scoped
      /\ work' = work /\ expired' = expired /\ reply' = reply
  BY DEF CallerAborts
<1>3. CASE call = "waiting"
  <2> DEFINE r == Row("cancelled", FALSE, 1)
             lost == Racing
  <2>1. /\ aborted' = TRUE
        /\ row' = [e \in Engines |-> IF e \in lost THEN r ELSE row[e]]
    BY <1>3 DEF CallerAborts
  <2>2. r \in RowType /\ r.outcome = "cancelled"
    BY SomeRow DEF Row
  <2>3. lost \in SUBSET Racing /\ lost = Racing
    OBVIOUS
  <2> HIDE DEF r, lost
  <2> QED
    BY <1>2, <1>3, <2>1, <2>2, <2>3, RacesEnd
<1>4. CASE call = "idle"
  <2>1. aborted' = aborted /\ row' = row /\ Asked' = Asked /\ reply = None
    BY <1>1, <1>2, <1>4 DEF CallerAborts, Asked, CallTyped
  <2>2. CallTyped' /\ ReplySays' /\ PhaseInv'
    BY <1>1, <1>2, <1>4, <2>1 DEF CallTyped, ReplySays, PhaseInv
  <2>3. \A e \in Engines : EngineInv(e)'
    BY <1>1, <1>2, <2>1 DEF EngineInv, RowSays, RunInv, RaceInv
  <2> QED
    BY <2>2, <2>3, SearchInvNext
<1> QED
  BY <1>1, <1>2, <1>3, <1>4 DEF CallTyped

LEMMA TimersKeepSearch ==
  ASSUME SearchInv, SearchTimer \/ \E e \in Engines : EngineTimer(e)
  PROVE  SearchInv'
<1>1. CallTyped /\ PhaseInv
  BY SearchInvByPart
<1> DEFINE r == Row("timeout", FALSE, 0)
<1>2. r \in RowType
  BY SomeRow
<1>3. CASE SearchTimer
  <2>1. row' = row /\ row = [e \in Engines |-> IF e \in {} THEN r ELSE row[e]]
    BY <1>1, <1>3 DEF SearchTimer, CallTyped
  <2>2. /\ call = "waiting" /\ call' = call /\ scoped' = scoped /\ work' = work
        /\ reply' = reply /\ caller' = caller /\ caller \in BOOLEAN /\ aborted' = TRUE
        /\ expired' = expired \cup {Deadline}
        /\ caller => Racing = {}
    BY <1>1, <1>3 DEF SearchTimer, CallTyped, PhaseInv
  <2> HIDE DEF r
  <2> DEFINE lost == {}
  <2>3. /\ lost \in SUBSET Racing /\ (caller' => lost = Racing)
        /\ row' = [e \in Engines |-> IF e \in lost THEN r ELSE row[e]]
    BY <2>1, <2>2
  <2> HIDE DEF lost
  <2>4. Deadline \in expired'
    BY <2>2
  <2> QED
    BY <1>2, <2>2, <2>3, <2>4, RacesEnd
<1>4. ASSUME NEW e \in Engines, EngineTimer(e) PROVE SearchInv'
  <2>1. row' = [row EXCEPT ![e] = r] /\ row \in [Engines -> RowType \cup {None}]
    BY <1>1, <1>4 DEF EngineTimer, CallTyped
  <2>2. /\ call = "waiting" /\ call' = call /\ scoped' = scoped /\ work' = work
        /\ reply' = reply /\ caller' = caller /\ caller \in BOOLEAN /\ aborted' = TRUE
        /\ expired' = expired \cup {Deadline} /\ e \in Racing
        /\ caller => Racing = {}
    BY <1>1, <1>4 DEF EngineTimer, CallTyped, PhaseInv
  <2> HIDE DEF r
  <2> DEFINE lost == {e}
  <2>3. /\ lost \in SUBSET Racing /\ (caller' => lost = Racing)
        /\ row' = [o \in Engines |-> IF o \in lost THEN r ELSE row[o]]
    BY <2>1, <2>2
  <2> HIDE DEF lost
  <2>4. Deadline \in expired'
    BY <2>2
  <2> QED
    BY <1>2, <2>2, <2>3, <2>4, RacesEnd
<1> QED
  BY <1>3, <1>4

LEMMA ReplyTyped ==
  ASSUME NEW outcome \in Outcomes, NEW kept \in SUBSET Engines,
         NEW why \in {"cancelled", "deadline", "engine_budget", "all_engines"}
  PROVE  /\ Reply(outcome, kept, why) \in ReplyType
         /\ Reply(outcome, kept, why).outcome = outcome
         /\ Reply(outcome, kept, why).candidates = kept
BY DEF Reply, ReplyType

LEMMA ReturnKeepsSearch ==
  ASSUME SearchInv, Return
  PROVE  SearchInv'
<1>1. CallTyped /\ PhaseInv /\ \A e \in Engines : EngineInv(e)
  BY SearchInvByPart
<1>2. PICK kept \in SUBSET {e \in Asked : row[e].content} :
        reply' = Reply(ReplyOutcome(kept), kept, StoppedReason)
  BY DEF Return
<1>3. /\ call = "waiting" /\ Racing = {} /\ call' = "returned" /\ scoped' = scoped
      /\ caller' = caller /\ aborted' = aborted /\ work' = work /\ row' = row
      /\ expired' = expired
  BY DEF Return
<1>4. Asked' = Asked /\ Asked \subseteq Engines
  BY <1>1, <1>3, AskedAreEngines DEF Asked, CallTyped
<1>5. \A e \in Asked : row[e] \in RowType /\ row[e] # None
  BY <1>1, <1>3, <1>4 DEF CallTyped, Racing
<1> DEFINE has(outcome) == \E e \in Asked : row[e].outcome = outcome
<1>6. /\ EmptyOutcome \in Outcomes \ {"cancelled", "success_with_content"}
      /\ EmptyOutcome = "timeout" => has("timeout")
      /\ EmptyOutcome = "success_empty" =>
           ~has("timeout") /\ ~has("http_error") /\ ~has("transport_error")
  <2>1. CASE has("timeout")
    BY <2>1 DEF EmptyOutcome, Outcomes
  <2>2. CASE ~has("timeout") /\ has("http_error")
    BY <2>2 DEF EmptyOutcome, Outcomes
  <2>3. CASE ~has("timeout") /\ ~has("http_error") /\ has("transport_error")
    BY <2>3 DEF EmptyOutcome, Outcomes
  <2>4. CASE ~has("timeout") /\ ~has("http_error") /\ ~has("transport_error")
    BY <2>4 DEF EmptyOutcome, Outcomes
  <2> QED
    BY <2>1, <2>2, <2>3, <2>4
<1> DEFINE empty == EmptyOutcome
           said == ReplyOutcome(kept)
<1>7. said = IF caller THEN "cancelled" ELSE IF aborted THEN "timeout"
             ELSE IF kept # {} THEN "success_with_content" ELSE empty
  BY DEF ReplyOutcome
<1>8. said \in Outcomes
  BY <1>6, <1>7 DEF Outcomes
<1>9. /\ reply' \in ReplyType /\ reply'.outcome = said /\ reply'.candidates = kept
  <2>1. StoppedReason \in {"cancelled", "deadline", "engine_budget", "all_engines"}
    BY DEF StoppedReason
  <2>2. kept \in SUBSET Engines
    BY <1>4
  <2> HIDE DEF said
  <2> QED
    BY <1>2, <1>8, <2>1, <2>2, ReplyTyped DEF said
<1>10. reply' # None
  BY <1>9, NoneAssumption
<1> HIDE DEF said, empty
<1>11. said = "cancelled" <=> caller
  BY <1>1, <1>6, <1>7 DEF empty, CallTyped
<1>12. said = "timeout" =>
         expired # {} \/ \E e \in Asked : Is(e, "foreign") /\ row[e].outcome = "timeout"
  <2>1. CASE aborted /\ ~caller
    BY <1>1, <2>1 DEF CallTyped
  <2>2. CASE has("timeout")
    <3>1. PICK e \in Asked : row[e].outcome = "timeout"
      BY <2>2
    <3>2. RowSays(e) /\ row[e] # None
      BY <1>1, <1>4, <1>5 DEF EngineInv
    <3> QED
      BY <3>1, <3>2 DEF RowSays
  <2> QED
    BY <1>6, <1>7, <2>1, <2>2 DEF empty
<1>13. said = "success_empty" =>
         \A e \in Asked : row[e].outcome \in {"success_empty", "success_with_content"}
  <2> SUFFICES ASSUME said = "success_empty", NEW e \in Asked
               PROVE  row[e].outcome \in {"success_empty", "success_with_content"}
    OBVIOUS
  <2>1. ~aborted /\ empty = "success_empty"
    BY <1>7
  <2>2. row[e].outcome \in Outcomes \ {"timeout", "http_error", "transport_error"}
    BY <1>5, <1>6, <2>1 DEF empty, RowType
  <2>3. row[e].outcome # "cancelled"
    BY <1>1, <1>4, <1>5, <2>1 DEF EngineInv, RaceInv
  <2> QED
    BY <2>2, <2>3 DEF Outcomes
<1>14. said = "success_with_content" => kept # {} /\ expired \cap {Deadline} = {}
  BY <1>1, <1>6, <1>7 DEF empty, PhaseInv
<1>15. CallTyped' /\ PhaseInv'
  BY <1>1, <1>3, <1>4, <1>10 DEF CallTyped, PhaseInv, Racing
<1>16. ReplySays'
  BY <1>3, <1>4, <1>9, <1>11, <1>12, <1>13, <1>14 DEF ReplySays
<1>17. ASSUME NEW e \in Engines PROVE EngineInv(e)'
  BY <1>1, <1>3, <1>4 DEF EngineInv, RowSays, RunInv, RaceInv
<1> QED
  BY <1>15, <1>16, <1>17, SearchInvNext

LEMMA SearchInvHolds ==
  /\ Init => SearchInv
  /\ SearchInv /\ [Next]_vars => SearchInv'
<1>1. ASSUME Init PROVE SearchInv
  <2>1. /\ call = "idle" /\ scoped = <<>> /\ caller \in BOOLEAN /\ aborted = FALSE
        /\ work = [e \in Engines |-> Idle] /\ row = [e \in Engines |-> None]
        /\ expired = {} /\ reply = None
    BY <1>1 DEF Init
  <2>2. scoped \in Seq(Engines) /\ aborted \in BOOLEAN
    <3>1. scoped \in Seq(Engines)
      BY <2>1
    <3>2. aborted \in BOOLEAN
      BY <2>1, Zenon
    <3> QED
      BY <3>1, <3>2
  <2>3. work \in [Engines -> [st : {"idle", "asking", "pause", "over"}, step : 0..4,
                             tries : 0..2, attempts : 0..12, sent : 0..12]]
    BY <2>1 DEF Idle
  <2>4. TypeOK
    BY <2>1, <2>2, <2>3 DEF TypeOK
  <2>5. RowsAreTrue
    BY <2>1 DEF RowsAreTrue, NoFalseTimeout, RequestsAreCounted
  <2>6. PhaseInv
    BY <2>1 DEF PhaseInv
  <2>7. \A e \in Engines : RunInv(e) /\ RaceInv(e)
    BY <2>1, NotStarted DEF RunInv, RaceInv
  <2> QED
    BY <2>1, <2>4, <2>5, <2>6, <2>7 DEF SearchInv, ReplyIsHonest
<1>2. ASSUME SearchInv, Next PROVE SearchInv'
  <2>1. CASE \E e \in Engines : EngineStep(e)
    BY <1>2, <2>1, PauseKeepsSearch, NextAddressKeepsSearch, FinishKeepsSearch,
       PauseEndsKeepsSearch DEF EngineStep
  <2>2. CASE \E e \in Engines : ForeignSettles(e)
    BY <1>2, <2>2, ForeignKeepsSearch
  <2> QED
    BY <1>2, <2>1, <2>2, CancelledKeepsSearch, SearchKeepsSearch, AbortKeepsSearch,
       TimersKeepSearch, ReturnKeepsSearch DEF Next
<1>3. ASSUME SearchInv, UNCHANGED vars PROVE SearchInv'
  <2>1. CallTyped /\ ReplySays /\ PhaseInv /\ \A e \in Engines : EngineInv(e)
    BY <1>3, SearchInvByPart
  <2>2. /\ call' = call /\ scoped' = scoped /\ caller' = caller /\ aborted' = aborted
        /\ work' = work /\ row' = row /\ expired' = expired /\ reply' = reply
    BY <1>3 DEF vars
  <2>3. Asked' = Asked
    BY <2>2 DEF Asked
  <2>4. CallTyped' /\ ReplySays' /\ PhaseInv'
    BY <2>1, <2>2, <2>3 DEF CallTyped, ReplySays, PhaseInv, Racing
  <2>5. \A e \in Engines : EngineInv(e)'
    BY <2>1, <2>2, <2>3 DEF EngineInv, RowSays, RunInv, RaceInv
  <2> QED
    BY <2>4, <2>5, SearchInvNext
<1> QED
  BY <1>1, <1>2, <1>3

\* A search says what happened, for any engines, scopes, entrances and answers: the
\* rows and the reply of the generic one (auto.ts), and the response of the layered
\* one, which holds all that was found (cloudflare-search-local.ts:395-484).
THEOREM SearchesAlwaysHonest == ProvidersSpec => []SearchesAreHonest
<1>1. ProvidersInit => SearchInv
  BY SearchInvHolds DEF ProvidersInit
<1>2. SearchInv /\ [ProvidersNext]_providersVars => SearchInv'
  BY SearchInvHolds, StepOfEach
<1>3. SearchInv /\ Fusion!CollectedInv => SearchesAreHonest
  BY CollectedIsHonest DEF SearchInv, SearchesAreHonest
<1> QED
  BY <1>1, <1>2, <1>3, CollectedInvHolds, PTL DEF ProvidersSpec

-----------------------------------------------------------------------------
(* The log of an LLM call *)

\* The part of LogIsALoop about the order of events, for any log.
Loop(events1) ==
  /\ events1 # <<>> => events1[1].type = "attempt_started" /\ events1[1].attempt = 1
  /\ \A i \in 2..Len(events1) : Llm!Follows(events1[i - 1], events1[i])

MayFollow(events1, e) ==
  IF events1 = <<>> THEN e.type = "attempt_started" /\ e.attempt = 1
  ELSE Llm!Follows(events1[Len(events1)], e)

\* An event that may follow the last one keeps the log a loop.
LEMMA AppendKeepsLoop ==
  ASSUME NEW S, NEW events1 \in Seq(S), Loop(events1), NEW e \in S, MayFollow(events1, e)
  PROVE  LET more == Append(events1, e) IN
         /\ more \in Seq(S) /\ Loop(more) /\ more # <<>>
         /\ Len(more) = Len(events1) + 1 /\ more[Len(more)] = e
<1> DEFINE more == Append(events1, e)
<1>1. /\ more \in Seq(S) /\ more # <<>> /\ Len(more) = Len(events1) + 1
      /\ \A i \in 1..Len(events1) : more[i] = events1[i]
      /\ more[Len(events1) + 1] = e /\ Len(events1) \in Nat
      /\ (events1 = <<>>) <=> (Len(events1) = 0)
  BY AppendProperties, LenProperties, EmptySeq
<1> HIDE DEF more
<1>2. more[1].type = "attempt_started" /\ more[1].attempt = 1
  BY <1>1 DEF Loop, MayFollow
<1>3. ASSUME NEW i \in 2..Len(more) PROVE Llm!Follows(more[i - 1], more[i])
  <2>1. CASE i = Len(more)
    BY <1>1, <2>1 DEF MayFollow
  <2>2. CASE i # Len(more)
    <3>1. i \in 2..Len(events1) /\ i \in 1..Len(events1) /\ i - 1 \in 1..Len(events1)
      BY <1>1, <2>2
    <3> QED
      BY <1>1, <3>1 DEF Loop
  <2> QED
    BY <2>1, <2>2
<1> QED
  BY <1>1, <1>2, <1>3 DEF Loop, more

\* Two events at once are one after the other.
LEMMA AppendTwo ==
  ASSUME NEW S, NEW events1 \in Seq(S), NEW a \in S, NEW b \in S
  PROVE  events1 \o <<a, b>> = Append(Append(events1, a), b)
<1>1. /\ <<a, b>> \in Seq(S) /\ Len(<<a, b>>) = 2 /\ <<a, b>>[1] = a /\ <<a, b>>[2] = b
  OBVIOUS
<1>2. /\ events1 \o <<a, b>> \in Seq(S) /\ Len(events1 \o <<a, b>>) = Len(events1) + 2
      /\ \A i \in 1..(Len(events1) + 2) : (events1 \o <<a, b>>)[i] =
           IF i <= Len(events1) THEN events1[i] ELSE <<a, b>>[i - Len(events1)]
  BY <1>1, ConcatProperties
<1> QED
  BY <1>1, <1>2, AppendProperties, LenProperties, SeqEqual

ErrorType ==
  [code : Llm!Codes, retryable : BOOLEAN, contract : BOOLEAN, retryAfter : Nat \cup {None}]

\* The errors of an attempt: a contract error is retryable and says that the
\* response was invalid; a wait asked for is bounded.
ErrorIsSound(error) ==
  /\ error \in ErrorType
  /\ error.contract => error.retryable /\ error.code = "LLM_INVALID_RESPONSE"
  /\ error.retryAfter # None => error.retryAfter <= MaxRetryAfter

LEMMA ErrorsAreSound ==
  ASSUME Llm!LogInv
  PROVE  /\ ErrorIsSound(Llm!TransportError)
         /\ phase = "body" => ErrorIsSound(Llm!HttpError)
         /\ ErrorIsSound(Llm!InvalidResponse) /\ ErrorIsSound(Llm!ToolContract)
<1> USE DEF Llm!Error, Llm!Codes, ErrorType, ErrorIsSound
<1>1. ErrorIsSound(Llm!TransportError)
  BY DEF Llm!TransportError
<1>2. ErrorIsSound(Llm!InvalidResponse) /\ ErrorIsSound(Llm!ToolContract)
  BY DEF Llm!InvalidResponse, Llm!ToolContract
<1>3. ASSUME phase = "body" PROVE ErrorIsSound(Llm!HttpError)
  <2> DEFINE after == Llm!RetryAfterMs(headers.retryAfter)
  <2>1. headers.retryAfter \in RetryAfters \cup {None}
    BY <1>3 DEF Llm!LogInv, Llm!Headers
  <2>2. /\ after \in Nat \cup {None}
        /\ after # None => after <= MaxRetryAfter
    <3>1. MaxRetryAfter \in Nat /\ RetryAfters \subseteq Nat
      BY ProvidersAssumption DEF Llm!LlmTransportAssumption
    <3>2. CASE headers.retryAfter = None
      BY <3>2 DEF Llm!RetryAfterMs
    <3>3. CASE headers.retryAfter # None
      <4>1. headers.retryAfter \in Nat /\ after = Llm!Lesser(MaxRetryAfter, headers.retryAfter)
        BY <2>1, <3>1, <3>3 DEF Llm!RetryAfterMs
      <4> HIDE DEF after
      <4> QED
        BY <3>1, <4>1 DEF Llm!Lesser
    <3> QED
      BY <3>2, <3>3
  <2> HIDE DEF after
  <2>3. Llm!HttpError = [code |-> "LLM_HTTP_ERROR", retryable |-> headers.status = "retryable",
                         contract |-> FALSE, retryAfter |-> after]
    BY DEF Llm!HttpError, after
  <2>4. (headers.status = "retryable") \in BOOLEAN
    OBVIOUS
  <2> QED
    BY <2>2, <2>3, <2>4
<1> QED
  BY <1>1, <1>2, <1>3

\* What a step of an LLM call promises once the caller has aborted.
CallStep ==
  llmAborted =>
    /\ requests' = requests
    /\ Len(events') <= Len(events) + 1
    /\ (events' # events /\ events'[Len(events')].type = "attempt_failed") =>
         events'[Len(events')].code = None /\ result'.kind = "aborted"

\* What the invariant says while an attempt is under way.
LEMMA WhileAwaiting ==
  ASSUME Llm!LogInv, Llm!Awaiting
  PROVE  /\ events \in Seq(Llm!EventType) /\ Loop(events) /\ events # <<>>
         /\ Llm!LastEvent.type = "attempt_started" /\ Llm!LastEvent.attempt = attempt
         /\ attempt \in 1..5 /\ attempt <= maxAttempts /\ maxAttempts \in 1..5
         /\ requests = attempt
<1>1. /\ Llm!TypeOK /\ Llm!LogIsALoop
      /\ (events = <<>>) <=> (attempt = 0)
      /\ events # <<>> => Llm!LastEvent.attempt = attempt
  BY DEF Llm!LogInv, Llm!LogAgrees
<1>2. events # <<>> /\ Llm!LastEvent.type = "attempt_started" /\ Loop(events)
      /\ requests = attempt
  BY <1>1 DEF Llm!LogIsALoop, Loop
<1>3. events \in Seq(Llm!EventType) /\ attempt \in 0..maxAttempts /\ maxAttempts \in 1..5
  BY <1>1 DEF Llm!TypeOK
<1> QED
  BY <1>1, <1>2, <1>3

SameCall == UNCHANGED <<maxAttempts, attempt, llmAborted, controller, headers, requests>>

\* The end of the call, with the event that ends its attempt.
LEMMA EndKeepsInv ==
  ASSUME Llm!LogInv, Llm!Awaiting, SameCall,
         NEW e \in Llm!EventType, e.type \in {"attempt_failed", "attempt_succeeded"},
         e.attempt = attempt, events' = Append(events, e), phase' = "settled",
         result' \in Llm!Results,
         \/ result'.kind = "text" /\ e.type = "attempt_succeeded"
         \/ /\ result'.kind = "protocol_error" /\ e.code = "LLM_INVALID_RESPONSE"
            /\ e.retryable /\ result'.attempts = maxAttempts
         \/ /\ result'.kind = "thrown" /\ e.type = "attempt_failed" /\ e.code = result'.code
            /\ e.retryable => result'.attempts = maxAttempts
         \/ result'.kind = "aborted" /\ llmAborted /\ e.type = "attempt_failed",
         llmAborted /\ e.type = "attempt_failed" => e.code = None /\ result'.kind = "aborted"
  PROVE  Llm!LogInv' /\ CallStep
<1>1. /\ events \in Seq(Llm!EventType) /\ Loop(events) /\ events # <<>>
      /\ Llm!LastEvent.type = "attempt_started" /\ Llm!LastEvent.attempt = attempt
      /\ attempt \in 1..5 /\ requests = attempt
  BY WhileAwaiting
<1>2. MayFollow(events, e)
  BY <1>1 DEF MayFollow, Llm!Follows, Llm!LastEvent
<1>3. /\ events' \in Seq(Llm!EventType) /\ Loop(events') /\ events' # <<>>
      /\ Len(events') = Len(events) + 1 /\ events'[Len(events')] = e
  BY <1>1, <1>2, AppendKeepsLoop
<1>4. Llm!LastEvent' = e
  BY <1>3 DEF Llm!LastEvent
<1>5. Llm!TypeOK'
  BY <1>3 DEF Llm!LogInv, Llm!LogAgrees, Llm!TypeOK, SameCall
<1>6. Llm!LogIsALoop'
  BY <1>1, <1>3, <1>4 DEF Llm!LogIsALoop, Loop, SameCall, Llm!Awaiting
<1>7. Llm!ResultAgreesWithLog'
  BY <1>4 DEF Llm!ResultAgreesWithLog, SameCall
<1>8. Llm!LogInv'
  BY <1>1, <1>3, <1>4, <1>5, <1>6, <1>7 DEF Llm!LogInv, Llm!LogAgrees, SameCall
<1>9. CallStep
  <2>1. requests' = requests /\ Len(events') <= Len(events) + 1
    BY <1>1, <1>3, LenProperties DEF SameCall
  <2> QED
    BY <1>3, <2>1 DEF CallStep
<1> QED
  BY <1>8, <1>9

\* The end of an attempt that failed, the caller having aborted or not.
LEMMA CaughtKeepsInv ==
  ASSUME Llm!LogInv, Llm!Awaiting, SameCall, NEW error, ErrorIsSound(error),
         Llm!Caught(error)
  PROVE  Llm!LogInv' /\ CallStep
<1>1. /\ events \in Seq(Llm!EventType) /\ Loop(events) /\ events # <<>>
      /\ Llm!LastEvent.type = "attempt_started" /\ Llm!LastEvent.attempt = attempt
      /\ attempt \in 1..5 /\ attempt <= maxAttempts /\ maxAttempts \in 1..5
      /\ requests = attempt
  BY WhileAwaiting
<1>2. CASE llmAborted /\ Llm!GivenUp
  <2> DEFINE e == Llm!Event("attempt_failed", None, FALSE, None)
  <2>1. e \in Llm!EventType /\ e.type = "attempt_failed" /\ e.attempt = attempt /\ e.code = None
    BY <1>1 DEF Llm!Event, Llm!EventType, Llm!EventTypes
  <2>2. events' = Append(events, e) /\ result' = Llm!Reason /\ phase' = "settled"
    BY <1>2 DEF Llm!GivenUp
  <2>3. result' \in Llm!Results /\ result'.kind = "aborted"
    BY <1>1, <2>2 DEF Llm!Reason, Llm!Results
  <2> HIDE DEF e
  <2> QED
    BY <1>2, <2>1, <2>2, <2>3, EndKeepsInv
<1> DEFINE f == Llm!Failed(error)
<1>3. /\ f \in Llm!EventType /\ f.type = "attempt_failed" /\ f.attempt = attempt
      /\ f.code = error.code /\ f.retryable = error.retryable /\ f.delay = error.retryAfter
  <2>1. /\ "attempt_failed" \in Llm!EventTypes /\ error.code \in Llm!Codes \cup {None}
        /\ error.retryable \in BOOLEAN /\ error.retryAfter \in Nat \cup {None}
    BY DEF Llm!EventTypes, ErrorIsSound, ErrorType
  <2>2. f = [type |-> "attempt_failed", attempt |-> attempt, code |-> error.code,
             retryable |-> error.retryable, delay |-> error.retryAfter]
    BY DEF Llm!Failed, Llm!Retryable, Llm!Event
  <2> HIDE DEF f
  <2> QED
    BY <1>1, <2>1, <2>2 DEF Llm!EventType
<1>4. CASE ~llmAborted /\ (~error.retryable \/ attempt >= maxAttempts) /\ Llm!GiveUp(error)
  <2>1. events' = Append(events, f) /\ phase' = "settled"
    BY <1>4 DEF Llm!GiveUp
  <2>2. CASE error.contract
    <3>1. result' = [kind |-> "protocol_error", code |-> None, attempts |-> attempt]
      BY <1>4, <2>2 DEF Llm!GiveUp, Llm!Completion
    <3>2. result' \in Llm!Results /\ attempt = maxAttempts
      BY <1>1, <1>4, <2>2, <3>1 DEF Llm!Results, ErrorIsSound
    <3> HIDE DEF f
    <3> QED
      BY <1>3, <1>4, <2>1, <2>2, <3>1, <3>2, EndKeepsInv DEF ErrorIsSound
  <2>3. CASE ~error.contract
    <3>1. result' = [kind |-> "thrown", code |-> error.code, attempts |-> attempt]
      BY <1>4, <2>3 DEF Llm!GiveUp, Llm!Thrown
    <3>2. result' \in Llm!Results /\ (error.retryable => attempt = maxAttempts)
      BY <1>1, <1>4, <3>1 DEF Llm!Results, ErrorIsSound, ErrorType
    <3> HIDE DEF f
    <3> QED
      BY <1>3, <1>4, <2>1, <3>1, <3>2, EndKeepsInv
  <2> QED
    BY <2>2, <2>3 DEF ErrorIsSound, ErrorType
<1>5. CASE ~llmAborted /\ error.retryable /\ attempt < maxAttempts /\ Llm!Retry(error)
  <2> DEFINE g == Llm!Event("retry_scheduled", error.code, TRUE, Llm!Delay(error))
             one == Append(events, f)
  <2>1. Llm!Delay(error) \in Nat /\ Llm!Delay(error) <= Llm!Greater(RetryDelay, MaxRetryAfter)
    BY ProvidersAssumption
       DEF ErrorIsSound, ErrorType, Llm!Delay, Llm!Greater, Llm!LlmTransportAssumption
  <2>2. /\ g \in Llm!EventType /\ g.type = "retry_scheduled" /\ g.attempt = attempt
        /\ g.code = error.code /\ g.delay = Llm!Delay(error)
    <3>1. "retry_scheduled" \in Llm!EventTypes /\ error.code \in Llm!Codes
      BY DEF Llm!EventTypes, ErrorIsSound, ErrorType
    <3>2. g = [type |-> "retry_scheduled", attempt |-> attempt, code |-> error.code,
               retryable |-> TRUE, delay |-> Llm!Delay(error)]
      BY DEF Llm!Event
    <3> HIDE DEF g
    <3> QED
      BY <1>1, <2>1, <3>1, <3>2 DEF Llm!EventType
  <2>3. events' = events \o <<f, g>> /\ phase' = "wait" /\ result' = result
    BY <1>5 DEF Llm!Retry
  <2> HIDE DEF f, g
  <2>4. events' = Append(one, g)
    BY <1>1, <1>3, <2>2, <2>3, AppendTwo
  <2>5. MayFollow(events, f)
    BY <1>1, <1>3 DEF MayFollow, Llm!Follows, Llm!LastEvent
  <2>6. /\ one \in Seq(Llm!EventType) /\ Loop(one) /\ one # <<>> /\ one[Len(one)] = f
    BY <1>1, <1>3, <2>5, AppendKeepsLoop
  <2> HIDE DEF one
  <2>7. MayFollow(one, g)
    BY <1>3, <1>5, <2>1, <2>2, <2>6 DEF MayFollow, Llm!Follows
  <2>8. /\ events' \in Seq(Llm!EventType) /\ Loop(events') /\ events' # <<>>
        /\ events'[Len(events')] = g
    BY <2>2, <2>4, <2>6, <2>7, AppendKeepsLoop
  <2>9. Llm!LastEvent' = g
    BY <2>8 DEF Llm!LastEvent
  <2>10. Llm!TypeOK'
    BY <2>3, <2>8 DEF Llm!LogInv, Llm!LogAgrees, Llm!TypeOK, SameCall
  <2>11. Llm!LogIsALoop' /\ Llm!ResultAgreesWithLog'
    BY <1>1, <2>2, <2>3, <2>8, <2>9
       DEF Llm!LogIsALoop, Llm!ResultAgreesWithLog, Loop, SameCall, Llm!Awaiting
  <2>12. Llm!LogInv'
    BY <1>1, <1>5, <2>2, <2>3, <2>8, <2>9, <2>10, <2>11
       DEF Llm!LogInv, Llm!LogAgrees, SameCall
  <2> QED
    BY <1>5, <2>12 DEF CallStep
<1>6. llmAborted \in BOOLEAN
  BY DEF Llm!LogInv, Llm!LogAgrees, Llm!TypeOK
<1> QED
  BY <1>1, <1>2, <1>4, <1>5, <1>6
     DEF Llm!Caught, Llm!Retryable, Llm!LastAttempt, ErrorIsSound, ErrorType

\* The caller's reason is thrown between two attempts.
LEMMA ReasonKeepsInv ==
  ASSUME Llm!LogInv, phase \in {"loop", "wait"}, llmAborted, SameCall, UNCHANGED events,
         result' = Llm!Reason, phase' = "settled"
  PROVE  Llm!LogInv' /\ CallStep
<1>0. /\ Llm!TypeOK /\ Llm!LogIsALoop
      /\ (events = <<>>) <=> (attempt = 0)
      /\ events # <<>> => Llm!LastEvent.attempt = attempt
      /\ events # <<>> => Llm!LastEvent.type = "retry_scheduled"
  BY DEF Llm!LogInv, Llm!LogAgrees
<1>1. events \in Seq(Llm!EventType) /\ attempt \in 0..5
  BY <1>0 DEF Llm!TypeOK
<1>2. result' \in Llm!Results /\ result'.kind = "aborted"
  BY <1>1 DEF Llm!Reason, Llm!Results
<1>3. Llm!TypeOK'
  BY <1>0, <1>2 DEF Llm!TypeOK, SameCall
<1>4. Llm!LastEvent' = Llm!LastEvent
  BY DEF Llm!LastEvent
<1>5. Llm!LogIsALoop'
  BY <1>0, <1>4 DEF Llm!LogIsALoop, Llm!Awaiting, SameCall
<1>6. Llm!ResultAgreesWithLog'
  BY <1>0, <1>2, <1>4 DEF Llm!ResultAgreesWithLog, SameCall
<1>7. Llm!LogInv'
  BY <1>0, <1>3, <1>4, <1>5, <1>6 DEF Llm!LogInv, Llm!LogAgrees, SameCall
<1> QED
  BY <1>1, <1>7, LenProperties DEF CallStep, SameCall

\* The next attempt begins, or the caller's reason is thrown.
LEMMA AttemptKeepsInv ==
  ASSUME Llm!LogInv, Llm!Attempt
  PROVE  Llm!LogInv' /\ CallStep
<1>0. /\ Llm!TypeOK /\ Llm!LogIsALoop /\ Llm!ResultAgreesWithLog /\ phase = "loop"
      /\ (events = <<>>) <=> (attempt = 0)
      /\ events # <<>> => Llm!LastEvent.attempt = attempt
      /\ attempt < maxAttempts
      /\ events # <<>> => Llm!LastEvent.type = "retry_scheduled"
  BY DEF Llm!LogInv, Llm!LogAgrees, Llm!Attempt
<1>1. /\ events \in Seq(Llm!EventType) /\ Loop(events) /\ requests = attempt
      /\ attempt \in Nat /\ maxAttempts \in 1..5 /\ attempt + 1 \in 1..maxAttempts
      /\ attempt + 1 \in 1..5
  BY <1>0 DEF Llm!TypeOK, Llm!LogIsALoop, Loop
<1>2. CASE llmAborted
  BY <1>0, <1>2, ReasonKeepsInv DEF Llm!Attempt, SameCall
<1>3. CASE ~llmAborted
  <2> DEFINE e == [Llm!Event("attempt_started", None, FALSE, None) EXCEPT !.attempt = attempt + 1]
  <2>1. /\ attempt' = attempt + 1 /\ requests' = requests + 1 /\ controller' = None
        /\ headers' = None /\ phase' = "fetch" /\ events' = Append(events, e)
        /\ UNCHANGED <<result, maxAttempts, llmAborted>>
    BY <1>3 DEF Llm!Attempt
  <2>2. e = [type |-> "attempt_started", attempt |-> attempt + 1, code |-> None,
             retryable |-> FALSE, delay |-> None]
    <3> DEFINE o == Llm!Event("attempt_started", None, FALSE, None)
    <3>1. o = [type |-> "attempt_started", attempt |-> attempt, code |-> None,
               retryable |-> FALSE, delay |-> None]
      BY DEF Llm!Event
    <3>2. PICK p, q : p = o /\ q = [p EXCEPT !.attempt = attempt + 1] /\ q = e
      OBVIOUS
    <3> HIDE DEF o, e
    <3> QED
      BY <3>1, <3>2
  <2> HIDE DEF e
  <2>3. e \in Llm!EventType /\ e.type = "attempt_started" /\ e.attempt = attempt + 1
    BY <1>1, <2>2 DEF Llm!EventType, Llm!EventTypes
  <2>4. MayFollow(events, e)
    BY <1>0, <1>1, <2>3 DEF MayFollow, Llm!Follows, Llm!LastEvent
  <2>5. /\ events' \in Seq(Llm!EventType) /\ Loop(events') /\ events' # <<>>
        /\ events'[Len(events')] = e
    BY <1>1, <2>1, <2>3, <2>4, AppendKeepsLoop
  <2>6. Llm!LastEvent' = e
    BY <2>5 DEF Llm!LastEvent
  <2>7. Llm!TypeOK'
    BY <1>0, <1>1, <2>1, <2>5 DEF Llm!TypeOK
  <2>8. Llm!LogIsALoop' /\ Llm!ResultAgreesWithLog'
    BY <1>1, <2>1, <2>3, <2>5, <2>6
       DEF Llm!LogIsALoop, Llm!ResultAgreesWithLog, Loop, Llm!Awaiting
  <2>9. Llm!LogInv'
    BY <1>1, <2>1, <2>3, <2>5, <2>6, <2>7, <2>8 DEF Llm!LogInv, Llm!LogAgrees
  <2> QED
    BY <1>3, <2>9 DEF CallStep
<1>4. llmAborted \in BOOLEAN
  BY <1>0 DEF Llm!TypeOK
<1> QED
  BY <1>2, <1>3, <1>4

\* What leaves the log, the attempt and the result as they are.
LEMMA QuietKeepsInv ==
  ASSUME Llm!LogInv, UNCHANGED <<maxAttempts, attempt, requests, events, result>>,
         llmAborted => llmAborted', llmAborted' \in BOOLEAN,
         controller' \in {None, "timer", "caller"}, headers' \in Llm!Headers \cup {None},
         \/ phase' = phase
         \/ phase = "fetch" /\ phase' = "body"
         \/ phase = "wait" /\ phase' = "loop",
         phase' = "body" => headers' \in Llm!Headers
  PROVE  Llm!LogInv' /\ CallStep
<1>0. Llm!TypeOK /\ Llm!LogIsALoop /\ Llm!ResultAgreesWithLog
  BY DEF Llm!LogInv, Llm!LogAgrees
<1>1. Llm!LastEvent' = Llm!LastEvent
  BY DEF Llm!LastEvent
<1>2. Llm!TypeOK'
  BY <1>0 DEF Llm!TypeOK
<1>3. Llm!LogIsALoop'
  BY <1>0, <1>1 DEF Llm!LogIsALoop, Llm!Awaiting
<1>4. Llm!ResultAgreesWithLog'
  <2>1. phase' = "settled" => phase = "settled"
    OBVIOUS
  <2> QED
    BY <1>0, <1>1, <2>1 DEF Llm!ResultAgreesWithLog
<1>5. Llm!LogInv'
  BY <1>1, <1>2, <1>3, <1>4 DEF Llm!LogInv, Llm!LogAgrees
<1>6. CallStep
  BY <1>0, LenProperties DEF CallStep, Llm!TypeOK
<1> QED
  BY <1>5, <1>6

LEMMA CallKeepsInv ==
  ASSUME Llm!LogInv, [Llm!Next]_llmVars
  PROVE  Llm!LogInv' /\ CallStep
<1>0. /\ Llm!TypeOK /\ llmAborted \in BOOLEAN
      /\ phase \in {"loop", "fetch", "body", "wait", "settled"}
      /\ controller \in {None, "timer", "caller"} /\ headers \in Llm!Headers \cup {None}
      /\ phase = "body" => headers \in Llm!Headers
  BY DEF Llm!LogInv, Llm!LogAgrees, Llm!TypeOK
<1>1. CASE Llm!Attempt
  BY <1>1, AttemptKeepsInv
<1>2. CASE Llm!Timeout
  BY <1>0, <1>2, QuietKeepsInv DEF Llm!Timeout
<1>3. CASE Llm!Abort
  BY <1>0, <1>3, QuietKeepsInv DEF Llm!Abort
<1>4. ASSUME NEW h \in Llm!Headers, Llm!HeadersArrive(h) PROVE Llm!LogInv' /\ CallStep
  BY <1>0, <1>4, QuietKeepsInv DEF Llm!HeadersArrive
<1>5. CASE Llm!BodyRead
  <2>1. Llm!Awaiting /\ SameCall /\ phase = "body"
    BY <1>5 DEF Llm!BodyRead, Llm!Awaiting, SameCall
  <2>2. \/ Llm!Succeeded \/ Llm!Caught(Llm!HttpError) \/ Llm!Caught(Llm!InvalidResponse)
        \/ Llm!Caught(Llm!ToolContract)
    BY <1>5 DEF Llm!BodyRead
  <2>3. CASE Llm!Succeeded
    <3> DEFINE e == Llm!Event("attempt_succeeded", None, FALSE, None)
    <3>1. attempt \in 1..5
      BY <2>1, WhileAwaiting
    <3>2. e \in Llm!EventType /\ e.type = "attempt_succeeded" /\ e.attempt = attempt
      BY <3>1 DEF Llm!Event, Llm!EventType, Llm!EventTypes
    <3>3. events' = Append(events, e) /\ result' = Llm!Completion("text") /\ phase' = "settled"
      BY <2>3 DEF Llm!Succeeded
    <3>4. result' \in Llm!Results /\ result'.kind = "text"
      BY <3>1, <3>3 DEF Llm!Completion, Llm!Results
    <3> HIDE DEF e
    <3> QED
      BY <2>1, <3>2, <3>3, <3>4, EndKeepsInv
  <2> QED
    BY <2>1, <2>2, <2>3, ErrorsAreSound, CaughtKeepsInv
<1>6. CASE Llm!Rejected
  <2>1. Llm!Awaiting /\ SameCall /\ Llm!Caught(Llm!TransportError)
    BY <1>6 DEF Llm!Rejected, SameCall
  <2> QED
    BY <2>1, ErrorsAreSound, CaughtKeepsInv
<1>7. CASE Llm!RetryAborted
  BY <1>7, ReasonKeepsInv DEF Llm!RetryAborted, SameCall
<1>8. CASE Llm!RetryTimer
  BY <1>0, <1>8, QuietKeepsInv DEF Llm!RetryTimer
<1>9. CASE UNCHANGED llmVars
  BY <1>0, <1>9, QuietKeepsInv DEF llmVars
<1> QED
  BY <1>1, <1>2, <1>3, <1>4, <1>5, <1>6, <1>7, <1>8, <1>9 DEF Llm!Next

LEMMA CallInitHasInv == Llm!Init => Llm!LogInv
<1> SUFFICES ASSUME Llm!Init PROVE Llm!LogInv
  OBVIOUS
<1>1. /\ attempt = 0 /\ phase = "loop" /\ llmAborted \in BOOLEAN /\ controller = None
      /\ headers = None /\ requests = 0 /\ events = <<>> /\ result = Llm!Pending
  BY DEF Llm!Init
<1>2. maxAttempts \in 1..5
  <2>1. PICK o \in MaxAttemptsOptions : maxAttempts = Llm!BoundedInteger(o, 2, 1, 5)
    BY DEF Llm!Init
  <2>2. o \in Int \/ o = None
    BY ProvidersAssumption DEF Llm!LlmTransportAssumption
  <2> QED
    BY <2>1, <2>2 DEF Llm!BoundedInteger, Llm!Greater, Llm!Lesser
<1>3. result \in Llm!Results /\ events \in Seq(Llm!EventType)
  BY <1>1 DEF Llm!Pending, Llm!Results
<1>4. Llm!TypeOK
  BY <1>1, <1>2, <1>3 DEF Llm!TypeOK
<1>5. Llm!LogIsALoop /\ Llm!ResultAgreesWithLog
  BY <1>1 DEF Llm!LogIsALoop, Llm!ResultAgreesWithLog, Llm!Awaiting
<1> QED
  BY <1>1, <1>2, <1>4, <1>5 DEF Llm!LogInv, Llm!LogAgrees

LEMMA LogInvHolds == ProvidersSpec => []Llm!LogInv
<1>1. ProvidersInit => Llm!LogInv
  BY CallInitHasInv DEF ProvidersInit
<1>2. Llm!LogInv /\ [ProvidersNext]_providersVars => Llm!LogInv'
  BY StepOfEach, CallKeepsInv
<1> QED
  BY <1>1, <1>2, PTL DEF ProvidersSpec

\* For any bound of attempts, delays and server: the log of an LLM call is that
\* of a loop, and what the caller gets is what the log ends with.
THEOREM LogAlwaysAgrees == ProvidersSpec => []LogAgrees
<1>1. Llm!LogInv => LogAgrees
  BY DEF Llm!LogInv, LogAgrees
<1> QED
  BY <1>1, LogInvHolds, PTL

-----------------------------------------------------------------------------
(* The page of a run *)

MonitorLogs == Seq(Monitor!EventNames)

\* What is a prefix stays as it was, event by event.
LEMMA PrefixKeeps ==
  ASSUME NEW s \in MonitorLogs, NEW t \in MonitorLogs, Monitor!Prefix(s, t)
  PROVE  Len(s) <= Len(t) /\ \A n \in 1..Len(s) : t[n] = s[n]
<1>1. Len(s) \in Nat /\ Len(t) \in Nat /\ Len(s) <= Len(t) /\ SubSeq(t, 1, Len(s)) = s
  BY DEF Monitor!Prefix, MonitorLogs
<1>2. \A n \in 1..Len(s) : SubSeq(t, 1, Len(s))[n] = t[n]
  BY <1>1, SubSeqProperties DEF MonitorLogs
<1> QED
  BY <1>1, <1>2

LEMMA AppendEvent ==
  ASSUME NEW s \in MonitorLogs, NEW e \in Monitor!EventNames
  PROVE  /\ Append(s, e) \in MonitorLogs /\ Append(s, e) # <<>>
         /\ Append(s, e)[Len(Append(s, e))] = e
<1>1. /\ Append(s, e) \in Seq(Monitor!EventNames) /\ Len(Append(s, e)) = Len(s) + 1
      /\ Append(s, e)[Len(s) + 1] = e /\ Len(s) \in Nat
  BY AppendProperties DEF MonitorLogs
<1> QED
  BY <1>1, EmptySeq DEF MonitorLogs

\* An outcome is not a status of an active run.
LEMMA StatusesApart ==
  /\ Monitor!Terminal \cap Monitor!Active = {}
  /\ "absent" \notin Monitor!Terminal \cup Monitor!Active /\ "open" \notin Monitor!Terminal
  /\ "running" \in Monitor!Active /\ "cancelling" \in Monitor!Active /\ "failed" \in Monitor!Terminal
  /\ Monitor!TerminalEvent("failed") = "run.failed"
  /\ {"run.queued", "run.started", "run.cancellation_requested"} \subseteq Monitor!EventNames
  /\ Monitor!AgentEvents \cup Monitor!ReportEvents \subseteq Monitor!EventNames
  /\ \A outcome \in Monitor!Terminal : Monitor!TerminalEvent(outcome) \in Monitor!EventNames
BY DEF Monitor!Terminal, Monitor!Active, Monitor!TerminalEvent, Monitor!EventNames

\* What a run is for the page: ServiceInv, of one run.
OfRun(r) ==
  /\ Len(log[r]) <= MaxLog
  /\ view[r] # "absent" \/ log[r] # <<>> \/ saved[r].log # <<>> => r \in issued
  /\ view[r] \in Monitor!Terminal => Monitor!EndsWith(log[r], view[r])
  /\ saved[r].outcome # "open" => Monitor!EndsWith(saved[r].log, saved[r].outcome)

ServiceTyped ==
  /\ log \in [RunIds -> MonitorLogs]
  /\ view \in [RunIds -> Monitor!Active \cup Monitor!Terminal \cup {"absent"}]
  /\ saved \in [RunIds -> [log : MonitorLogs, outcome : Monitor!Terminal \cup {"open"}]]

LEMMA ServiceByRun ==
  Monitor!ServiceInv <=> ServiceTyped /\ \A r \in RunIds : OfRun(r)
BY DEF Monitor!ServiceInv, ServiceTyped, OfRun, MonitorLogs

LEMMA ServiceByRunNext ==
  ServiceTyped' /\ (\A r \in RunIds : OfRun(r)') => Monitor!ServiceInv'
BY DEF Monitor!ServiceInv, ServiceTyped, OfRun, MonitorLogs

\* A run whose record is left as it is, or that is dropped.
Kept(r) == view'[r] = view[r] /\ log'[r] = log[r]

Gone(r) == view'[r] = "absent" /\ log'[r] = <<>>

LEMMA EmptyLog == <<>> \in MonitorLogs /\ Len(<<>>) = 0
BY EmptySeq DEF MonitorLogs

LEMMA UntouchedRun ==
  ASSUME NEW r \in RunIds, ServiceTyped, OfRun(r), Kept(r) \/ Gone(r), saved'[r] = saved[r],
         issued \subseteq issued', Len(log'[r]) <= MaxLog
  PROVE  OfRun(r)'
BY StatusesApart DEF OfRun, Kept, Gone, ServiceTyped

\* What a step of the service does to the runs that are over.
OverStays ==
  \A r \in RunIds :
    view[r] \in Monitor!Terminal => (Kept(r) \/ log'[r] = <<>>)

ServiceBound == \A r \in RunIds : Len(log'[r]) <= MaxLog

LEMMA DropKeeps ==
  ASSUME Monitor!ServiceInv, ServiceBound, NEW gone \in SUBSET RunIds, Monitor!Drop(gone)
  PROVE  Monitor!ServiceInv' /\ OverStays
<1>1. ServiceTyped /\ \A r \in RunIds : OfRun(r)
  BY ServiceByRun
<1>2. /\ view' = [r \in RunIds |-> IF r \in gone THEN "absent" ELSE view[r]]
      /\ log' = [r \in RunIds |-> IF r \in gone THEN <<>> ELSE log[r]]
      /\ issued' = issued /\ saved' = saved
  BY DEF Monitor!Drop, Monitor!Without
<1>3. \A r \in RunIds : Kept(r) \/ Gone(r)
  BY <1>2 DEF Kept, Gone
<1>4. ServiceTyped'
  BY <1>1, <1>2, EmptyLog DEF ServiceTyped
<1>5. \A r \in RunIds : OfRun(r)'
  BY <1>1, <1>2, <1>3, UntouchedRun DEF ServiceBound
<1>6. OverStays
  BY <1>3 DEF OverStays, Gone
<1> QED
  BY <1>4, <1>5, <1>6, ServiceByRunNext

LEMMA CrashKeeps ==
  ASSUME Monitor!ServiceInv, ServiceBound, Monitor!Crash
  PROVE  Monitor!ServiceInv' /\ OverStays
<1>1. ServiceTyped /\ \A r \in RunIds : OfRun(r)
  BY ServiceByRun
<1>2. /\ view' = [r \in RunIds |-> "absent"] /\ log' = [r \in RunIds |-> <<>>]
      /\ issued' = issued /\ saved' = saved
  BY DEF Monitor!Crash
<1>3. \A r \in RunIds : Gone(r)
  BY <1>2 DEF Gone
<1>4. ServiceTyped'
  BY <1>1, <1>2, EmptyLog DEF ServiceTyped
<1>5. \A r \in RunIds : OfRun(r)'
  BY <1>1, <1>2, <1>3, UntouchedRun DEF ServiceBound
<1>6. OverStays
  BY <1>3 DEF OverStays, Gone
<1> QED
  BY <1>4, <1>5, <1>6, ServiceByRunNext

LEMMA AcceptKeeps ==
  ASSUME Monitor!ServiceInv, ServiceBound, NEW s \in RunIds, NEW gone \in SUBSET RunIds,
         Monitor!Accept(s, gone)
  PROVE  Monitor!ServiceInv' /\ OverStays
<1>1. ServiceTyped /\ \A r \in RunIds : OfRun(r)
  BY ServiceByRun
<1> DEFINE begun == <<"run.queued", "run.started">>
<1>2. begun \in MonitorLogs /\ begun # <<>>
  BY StatusesApart DEF MonitorLogs
<1>3. /\ s \notin issued /\ issued' = issued \cup {s} /\ saved' = saved
      /\ \A r \in RunIds : view'[r] = IF r = s THEN "running"
                                      ELSE IF r \in gone THEN "absent" ELSE view[r]
      /\ \A r \in RunIds : log'[r] = IF r = s THEN begun
                                     ELSE IF r \in gone THEN <<>> ELSE log[r]
      /\ view' = [r \in RunIds |-> view'[r]] /\ log' = [r \in RunIds |-> log'[r]]
  BY DEF Monitor!Accept, Monitor!Without
<1> HIDE DEF begun
<1>4. \A r \in RunIds \ {s} : Kept(r) \/ Gone(r)
  BY <1>3 DEF Kept, Gone
<1>5. view[s] = "absent" /\ saved[s].outcome = "open"
  <2>1. view[s] = "absent" /\ saved[s].log = <<>>
    BY <1>1, <1>3 DEF OfRun
  <2> QED
    BY <1>1, <2>1 DEF OfRun, Monitor!EndsWith
<1>6. ServiceTyped'
  <2>1. \A r \in RunIds : view'[r] \in Monitor!Active \cup Monitor!Terminal \cup {"absent"}
    BY <1>1, <1>3, StatusesApart DEF ServiceTyped
  <2>2. \A r \in RunIds : log'[r] \in MonitorLogs
    BY <1>1, <1>2, <1>3, EmptyLog DEF ServiceTyped
  <2> QED
    BY <1>1, <1>3, <2>1, <2>2 DEF ServiceTyped
<1>7. ASSUME NEW r \in RunIds PROVE OfRun(r)'
  <2>1. CASE r = s
    <3>1. view'[s] = "running" /\ saved'[s] = saved[s] /\ s \in issued'
      BY <1>3
    <3> QED
      BY <1>5, <2>1, <3>1, StatusesApart DEF OfRun, ServiceBound
  <2>2. CASE r # s
    BY <1>1, <1>3, <1>4, <2>2, UntouchedRun DEF ServiceBound
  <2> QED
    BY <2>1, <2>2
<1>8. OverStays
  BY <1>4, <1>5, StatusesApart DEF OverStays, Gone
<1> QED
  BY <1>6, <1>7, <1>8, ServiceByRunNext

\* An event is added to the log of a run that is active, which stays so or ends.
LEMMA LoggedKeeps ==
  ASSUME Monitor!ServiceInv, ServiceBound, NEW s \in RunIds, NEW e \in Monitor!EventNames,
         view[s] \in Monitor!Active, Monitor!Logs(s, e), issued' = issued,
         NEW v \in Monitor!Active \cup Monitor!Terminal, view' = [view EXCEPT ![s] = v],
         v \in Monitor!Terminal => e = Monitor!TerminalEvent(v),
         \/ saved' = saved
         \/ v \in Monitor!Terminal /\ saved' = [saved EXCEPT ![s] = [log |-> log'[s], outcome |-> v]]
  PROVE  Monitor!ServiceInv' /\ OverStays
<1>1. ServiceTyped /\ \A r \in RunIds : OfRun(r)
  BY ServiceByRun
<1>2. log[s] \in MonitorLogs /\ log' = [log EXCEPT ![s] = Append(log[s], e)]
  BY <1>1 DEF ServiceTyped, Monitor!Logs
<1>3. log'[s] \in MonitorLogs /\ log'[s] # <<>> /\ log'[s][Len(log'[s])] = e
  BY <1>1, <1>2, AppendEvent DEF ServiceTyped
<1>4. view'[s] = v
  BY <1>1 DEF ServiceTyped
<1>5. \A r \in RunIds \ {s} : Kept(r) /\ saved'[r] = saved[r]
  BY <1>1, <1>2 DEF Kept, ServiceTyped
<1>6. ServiceTyped'
  <2>1. log' \in [RunIds -> MonitorLogs]
    BY <1>1, <1>2, <1>3 DEF ServiceTyped
  <2>2. view' \in [RunIds -> Monitor!Active \cup Monitor!Terminal \cup {"absent"}]
    BY <1>1 DEF ServiceTyped
  <2>3. saved' \in [RunIds -> [log : MonitorLogs, outcome : Monitor!Terminal \cup {"open"}]]
    BY <1>1, <1>3 DEF ServiceTyped
  <2> QED
    BY <2>1, <2>2, <2>3 DEF ServiceTyped
<1>7. ASSUME NEW r \in RunIds PROVE OfRun(r)'
  <2>1. CASE r = s
    <3>1. s \in issued'
      BY <1>1, StatusesApart DEF OfRun
    <3>2. v \in Monitor!Terminal => Monitor!EndsWith(log'[s], v)
      BY <1>3 DEF Monitor!EndsWith
    <3>3. \/ saved'[s] = saved[s]
          \/ v \in Monitor!Terminal /\ saved'[s].log = log'[s] /\ saved'[s].outcome = v
      BY <1>1 DEF ServiceTyped
    <3>4. saved'[s].outcome # "open" => Monitor!EndsWith(saved'[s].log, saved'[s].outcome)
      BY <1>1, <3>2, <3>3 DEF OfRun
    <3> QED
      BY <1>4, <2>1, <3>1, <3>2, <3>4 DEF OfRun, ServiceBound
  <2>2. CASE r # s
    BY <1>1, <1>5, <2>2, UntouchedRun DEF ServiceBound
  <2> QED
    BY <2>1, <2>2
<1>8. OverStays
  BY <1>5, StatusesApart DEF OverStays
<1> QED
  BY <1>6, <1>7, <1>8, ServiceByRunNext

LEMMA SaveKeeps ==
  ASSUME Monitor!ServiceInv, ServiceBound, NEW s \in RunIds, Monitor!Save(s)
  PROVE  Monitor!ServiceInv' /\ OverStays
<1>1. ServiceTyped /\ \A r \in RunIds : OfRun(r)
  BY ServiceByRun
<1>2. PICK n \in Len(saved[s].log)..Len(log[s]) :
        saved' = [saved EXCEPT ![s].log = SubSeq(log[s], 1, n)]
  BY DEF Monitor!Save
<1>3. issued' = issued /\ view' = view /\ log' = log /\ saved[s].outcome = "open"
  BY DEF Monitor!Save
<1> DEFINE part == SubSeq(log[s], 1, n)
<1>4. part \in MonitorLogs /\ (part # <<>> => log[s] # <<>>)
  <2>1. log[s] \in MonitorLogs /\ saved[s].log \in MonitorLogs
    BY <1>1 DEF ServiceTyped
  <2>2. n \in 0..Len(log[s])
    BY <1>2, <2>1 DEF MonitorLogs
  <2>3. part \in Seq(Monitor!EventNames) /\ Len(part) = n
    BY <2>1, <2>2, SubSeqProperties DEF MonitorLogs
  <2> QED
    BY <2>1, <2>2, <2>3, EmptySeq DEF MonitorLogs
<1> HIDE DEF part
<1>5. /\ saved' \in [RunIds -> [log : MonitorLogs, outcome : Monitor!Terminal \cup {"open"}]]
      /\ saved'[s].log = part /\ saved'[s].outcome = "open"
      /\ \A r \in RunIds \ {s} : saved'[r] = saved[r]
  BY <1>1, <1>2, <1>3, <1>4 DEF ServiceTyped, part
<1>6. ServiceTyped'
  BY <1>1, <1>3, <1>5 DEF ServiceTyped
<1>7. \A r \in RunIds : Kept(r)
  BY <1>3 DEF Kept
<1>8. ASSUME NEW r \in RunIds PROVE OfRun(r)'
  <2>1. CASE r = s
    BY <1>1, <1>3, <1>4, <1>5, <2>1 DEF OfRun
  <2>2. CASE r # s
    BY <1>1, <1>3, <1>5, <1>7, <2>2, UntouchedRun DEF ServiceBound
  <2> QED
    BY <2>1, <2>2
<1> QED
  BY <1>6, <1>7, <1>8, ServiceByRunNext DEF OverStays

LEMMA RecoverKeeps ==
  ASSUME Monitor!ServiceInv, ServiceBound, NEW s \in RunIds, Monitor!Recover(s)
  PROVE  Monitor!ServiceInv' /\ OverStays
<1>1. ServiceTyped /\ \A r \in RunIds : OfRun(r)
  BY ServiceByRun
<1>2. /\ view[s] = "absent" /\ saved[s].log # <<>> /\ issued' = issued
      /\ view' = [view EXCEPT ![s] = saved'[s].outcome]
      /\ log' = [log EXCEPT ![s] = saved'[s].log]
      /\ saved[s].log \in MonitorLogs
  BY <1>1 DEF Monitor!Recover, ServiceTyped
<1>3. /\ saved' \in [RunIds -> [log : MonitorLogs, outcome : Monitor!Terminal \cup {"open"}]]
      /\ saved'[s].outcome \in Monitor!Terminal
      /\ Monitor!EndsWith(saved'[s].log, saved'[s].outcome)
      /\ \A r \in RunIds \ {s} : saved'[r] = saved[r]
  <2>1. CASE saved[s].outcome = "open"
    <3> DEFINE failed == Append(saved[s].log, "run.failed")
    <3>1. failed \in MonitorLogs /\ failed # <<>> /\ failed[Len(failed)] = "run.failed"
      <4>1. "run.failed" \in Monitor!EventNames
        BY StatusesApart
      <4> QED
        BY <1>2, <4>1, AppendEvent
    <3>2. saved' = [saved EXCEPT ![s] = [log |-> failed, outcome |-> "failed"]]
      BY <2>1 DEF Monitor!Recover
    <3> HIDE DEF failed
    <3> QED
      BY <1>1, <3>1, <3>2, StatusesApart DEF ServiceTyped, Monitor!EndsWith
  <2>2. CASE saved[s].outcome # "open"
    BY <1>1, <2>2 DEF Monitor!Recover, ServiceTyped, OfRun
  <2> QED
    BY <2>1, <2>2
<1>4. saved'[s].log \in MonitorLogs
  BY <1>3
<1>5. ServiceTyped'
  BY <1>1, <1>2, <1>3, <1>4 DEF ServiceTyped
<1>6. \A r \in RunIds \ {s} : Kept(r)
  BY <1>1, <1>2 DEF Kept, ServiceTyped
<1>7. ASSUME NEW r \in RunIds PROVE OfRun(r)'
  <2>1. CASE r = s
    <3>1. view'[s] = saved'[s].outcome /\ log'[s] = saved'[s].log
      BY <1>1, <1>2 DEF ServiceTyped
    <3>2. s \in issued'
      BY <1>1, <1>2 DEF OfRun
    <3> QED
      BY <1>3, <2>1, <3>1, <3>2 DEF OfRun, ServiceBound
  <2>2. CASE r # s
    BY <1>1, <1>2, <1>3, <1>6, <2>2, UntouchedRun DEF ServiceBound
  <2> QED
    BY <2>1, <2>2
<1>8. OverStays
  BY <1>2, <1>6, StatusesApart DEF OverStays
<1> QED
  BY <1>5, <1>7, <1>8, ServiceByRunNext

\* Whatever the service does, what it shows of a run stays consistent, and a
\* run that is over stays as it is or loses its log.
LEMMA ServiceKeeps ==
  ASSUME Monitor!ServiceInv, ServiceBound, Monitor!LifecycleNext
  PROVE  Monitor!ServiceInv' /\ OverStays
<1>1. ASSUME NEW gone \in SUBSET RunIds, Monitor!Drop(gone)
      PROVE  Monitor!ServiceInv' /\ OverStays
  BY <1>1, DropKeeps
<1>2. ASSUME NEW s \in RunIds, NEW gone \in SUBSET RunIds, Monitor!Accept(s, gone)
      PROVE  Monitor!ServiceInv' /\ OverStays
  BY <1>2, AcceptKeeps
<1>3. ASSUME NEW s \in RunIds, Monitor!RequestCancel(s)
      PROVE  Monitor!ServiceInv' /\ OverStays
  <2>1. /\ view[s] \in Monitor!Active /\ view' = [view EXCEPT ![s] = "cancelling"]
        /\ "cancelling" \in Monitor!Active /\ "cancelling" \notin Monitor!Terminal
        /\ "run.cancellation_requested" \in Monitor!EventNames
        /\ Monitor!Logs(s, "run.cancellation_requested") /\ issued' = issued /\ saved' = saved
    BY <1>3, StatusesApart DEF Monitor!RequestCancel
  <2> QED
    BY <2>1, LoggedKeeps
<1>4. ASSUME NEW s \in RunIds, Monitor!Save(s) PROVE Monitor!ServiceInv' /\ OverStays
  BY <1>4, SaveKeeps
<1>5. ASSUME NEW s \in RunIds, Monitor!Recover(s) PROVE Monitor!ServiceInv' /\ OverStays
  BY <1>5, RecoverKeeps
<1>6. ASSUME NEW s \in RunIds, NEW e \in Monitor!AgentEvents \cup Monitor!ReportEvents,
             Monitor!Emit(s, e)
      PROVE  Monitor!ServiceInv' /\ OverStays
  <2>1. view[s] \in Monitor!Active /\ view' = [view EXCEPT ![s] = view[s]]
    <3>1. view \in [RunIds -> Monitor!Active \cup Monitor!Terminal \cup {"absent"}]
      BY DEF Monitor!ServiceInv
    <3> QED
      BY <1>6, <3>1 DEF Monitor!Emit
  <2>2. e \in Monitor!EventNames /\ view[s] \notin Monitor!Terminal
    BY <2>1, StatusesApart
  <2>3. Monitor!Logs(s, e) /\ issued' = issued /\ saved' = saved
    BY <1>6 DEF Monitor!Emit
  <2> QED
    BY <2>1, <2>2, <2>3, LoggedKeeps
<1>7. ASSUME NEW s \in RunIds, NEW outcome \in Monitor!Terminal, Monitor!Finish(s, outcome)
      PROVE  Monitor!ServiceInv' /\ OverStays
  BY <1>7, LoggedKeeps, StatusesApart DEF Monitor!Finish
<1>8. CASE Monitor!Crash
  BY <1>8, CrashKeeps
<1> QED
  BY <1>1, <1>2, <1>3, <1>4, <1>5, <1>6, <1>7, <1>8 DEF Monitor!LifecycleNext

\* What was true of a log is true of one that it is a prefix of.
StillShown(entries) ==
  \A n \in DOMAIN entries : n <= Len(log[runId]) /\ entries[n] = log[runId][n]

LEMMA ServiceStepKeepsInv ==
  ASSUME Monitor!MonitorInv, Monitor!ServiceStep
  PROVE  Monitor!MonitorInv'
<1>1. /\ runId' = runId /\ generation' = generation /\ polling' = polling
      /\ cursor' = cursor /\ shown' = shown /\ lastRun' = lastRun /\ polls' = polls
      /\ replaced' = (replaced \/ (runId # None /\ ~Monitor!Prefix(log[runId], log'[runId])))
  BY DEF Monitor!ServiceStep
<1>2. Monitor!ServiceInv' /\ OverStays
  BY ServiceKeeps DEF Monitor!ServiceStep, Monitor!MonitorInv, ServiceBound
<1>3. Monitor!TypeOK /\ Monitor!EventsAreTrue /\ Monitor!PollInv
  BY DEF Monitor!MonitorInv
<1>4. ASSUME runId # None, ~replaced'
      PROVE  /\ ~replaced /\ runId \in RunIds
             /\ Len(log[runId]) \in Nat /\ Len(log'[runId]) \in Nat
             /\ Len(log[runId]) <= Len(log'[runId])
             /\ \A n \in 1..Len(log[runId]) : log'[runId][n] = log[runId][n]
  <2>1. ~replaced /\ Monitor!Prefix(log[runId], log'[runId]) /\ runId \in RunIds
    BY <1>1, <1>3, <1>4 DEF Monitor!TypeOK
  <2>2. log[runId] \in MonitorLogs /\ log'[runId] \in MonitorLogs
    BY <1>2, <2>1 DEF Monitor!MonitorInv, Monitor!ServiceInv, MonitorLogs
  <2> QED
    BY <2>1, <2>2, PrefixKeeps DEF MonitorLogs
<1>5. ASSUME runId # None, ~replaced', view[runId] \in Monitor!Terminal
      PROVE  view'[runId] = view[runId] /\ log'[runId] = log[runId]
  <2>1. runId \in RunIds
    BY <1>4, <1>5
  <2>2. log[runId] # <<>> /\ log[runId] \in MonitorLogs
    BY <1>5, <2>1 DEF Monitor!MonitorInv, Monitor!ServiceInv, Monitor!EndsWith, MonitorLogs
  <2>3. Len(log[runId]) # 0
    BY <2>2, EmptySeq DEF MonitorLogs
  <2>4. log'[runId] # <<>>
    BY <1>4, <1>5, <2>3, EmptyLog
  <2> QED
    BY <1>2, <1>5, <2>1, <2>4 DEF OverStays, Kept
<1>6. ASSUME runId # None, ~replaced', NEW entries, DOMAIN entries \subseteq Nat \ {0},
             StillShown(entries)
      PROVE  \A n \in DOMAIN entries : n <= Len(log'[runId]) /\ entries[n] = log'[runId][n]
  BY <1>4, <1>6 DEF StillShown
<1>7. Monitor!TypeOK'
  BY <1>1, <1>3 DEF Monitor!TypeOK
<1>8. Monitor!EventsAreTrue'
  <2>1. DOMAIN shown = {n \in 1..cursor : n > cursor - MaxRendered} /\ cursor \in Nat
    BY <1>3 DEF Monitor!EventsAreTrue, Monitor!TypeOK
  <2>2. DOMAIN shown \subseteq Nat \ {0}
    BY <2>1
  <2>3. runId # None /\ ~replaced' => StillShown(shown)
    BY <1>3, <1>4 DEF Monitor!EventsAreTrue, Monitor!Open, StillShown
  <2> QED
    BY <1>1, <1>6, <2>1, <2>2, <2>3 DEF Monitor!EventsAreTrue, Monitor!Open
<1>9. Monitor!PollInv'
  <2>1. /\ generation' = 0 => polling' = "list"
        /\ (polling' = "asking") <=> (generation' # 0 /\ Monitor!Asking(generation)')
        /\ \A g \in 1..MaxOpens :
             /\ g > generation' => ~Monitor!Asking(g)'
             /\ polls'[g].run # None => Monitor!Asking(g)'
    BY <1>1, <1>3 DEF Monitor!PollInv, Monitor!Asking
  <2>2. SUFFICES ASSUME polling = "asking"
                 PROVE  LET p == polls[generation] IN
                        /\ p.runId = runId /\ p.after = cursor
                        /\ p.run # None /\ ~replaced' => Monitor!StillSo(p.run)'
                        /\ p.events # None =>
                             /\ \E last \in cursor..MaxLog : DOMAIN p.events = (cursor + 1)..last
                             /\ ~replaced' => \A n \in DOMAIN p.events :
                                  n <= Len(log'[runId]) /\ p.events[n] = log'[runId][n]
    BY <1>1, <2>1 DEF Monitor!PollInv
  <2> DEFINE p == polls[generation]
  <2>3. runId # None
    BY <1>3, <2>2 DEF Monitor!TypeOK
  <2>4. p.runId = runId /\ p.after = cursor
    BY <1>3, <2>2 DEF Monitor!PollInv
  <2>5. p.run # None /\ ~replaced' => Monitor!StillSo(p.run)'
    <3>1. SUFFICES ASSUME p.run # None, ~replaced' PROVE Monitor!StillSo(p.run)'
      OBVIOUS
    <3>2. Monitor!StillSo(p.run)
      BY <1>3, <1>4, <2>2, <2>3, <3>1 DEF Monitor!PollInv
    <3> QED
      BY <1>1, <1>5, <2>3, <3>1, <3>2 DEF Monitor!StillSo
  <2>6. ASSUME p.events # None
        PROVE  /\ \E last \in cursor..MaxLog : DOMAIN p.events = (cursor + 1)..last
               /\ ~replaced' => \A n \in DOMAIN p.events :
                    n <= Len(log'[runId]) /\ p.events[n] = log'[runId][n]
    <3>1. PICK last \in cursor..MaxLog : DOMAIN p.events = (cursor + 1)..last
      BY <1>3, <2>2, <2>6 DEF Monitor!PollInv
    <3>2. DOMAIN p.events \subseteq Nat \ {0}
      BY <1>3, <3>1 DEF Monitor!TypeOK
    <3>3. ~replaced' => StillShown(p.events)
      BY <1>3, <1>4, <2>2, <2>3, <2>6 DEF Monitor!PollInv, StillShown
    <3> QED
      BY <1>6, <2>3, <3>1, <3>2, <3>3
  <2> QED
    BY <2>4, <2>5, <2>6
<1>10. polls' \in [1..MaxOpens -> Monitor!PollType]
  BY <1>1 DEF Monitor!MonitorInv
<1>11. polling' = "finished" =>
         Monitor!Over(lastRun)' /\ (~replaced' => Monitor!StillSo(lastRun)')
  <2>1. polling = "finished" => runId # None
    BY <1>3 DEF Monitor!TypeOK
  <2>2. polling = "finished" /\ ~replaced => Monitor!StillSo(lastRun)
    BY DEF Monitor!MonitorInv
  <2>3. polling = "finished" /\ ~replaced' => Monitor!StillSo(lastRun)'
    <3>1. ASSUME polling = "finished", ~replaced' PROVE Monitor!StillSo(lastRun)'
      <4>1. Monitor!StillSo(lastRun) /\ runId # None
        BY <1>4, <2>1, <2>2, <3>1
      <4> QED
        BY <1>1, <1>5, <3>1, <4>1 DEF Monitor!StillSo
    <3> QED
      BY <3>1
  <2>4. polling' = "finished" => Monitor!Over(lastRun)'
    BY <1>1 DEF Monitor!MonitorInv, Monitor!Over
  <2> QED
    BY <1>1, <2>3, <2>4
<1> QED
  BY <1>2, <1>7, <1>8, <1>9, <1>10, <1>11 DEF Monitor!MonitorInv

\* mergeEvents() with a batch that follows the cursor: the window moves on.
LEMMA WindowMoves ==
  ASSUME Monitor!TypeOK, NEW entries, NEW last \in cursor..MaxLog,
         DOMAIN entries = (cursor + 1)..last,
         DOMAIN shown = {n \in 1..cursor : n > cursor - MaxRendered}
  PROVE  /\ DOMAIN Monitor!Merged(entries) = {n \in 1..last : n > last - MaxRendered}
         /\ \A n \in DOMAIN Monitor!Merged(entries) :
              Monitor!Merged(entries)[n] = IF n \in DOMAIN entries THEN entries[n] ELSE shown[n]
         /\ Monitor!Max(DOMAIN entries \cup {cursor}) = last
<1>1. cursor \in Nat /\ last \in Nat /\ last >= cursor /\ MaxRendered \in Nat \ {0} /\ MaxLog \in Nat
  BY ProvidersAssumption DEF Monitor!TypeOK, Monitor!MonitorPageAssumption
<1> DEFINE D == DOMAIN entries \cup DOMAIN shown
           all == [n \in D |-> IF n \in DOMAIN entries THEN entries[n] ELSE shown[n]]
           Later(n) == {m \in D : m > n}
           W == {n \in D : Monitor!Cardinality(Later(n)) < MaxRendered}
<1>2. D = {n \in 1..last : n > cursor - MaxRendered}
  BY <1>1
<1>3. ASSUME NEW n \in D PROVE Monitor!Cardinality(Later(n)) = last - n
  <2>1. Later(n) = (n + 1)..last
    BY <1>1, <1>2, <1>3
  <2>2. n \in 1..last
    BY <1>2, <1>3
  <2>3. Cardinality((n + 1)..last) = last - n
    BY <1>1, <2>2, FS_Interval
  <2> QED
    BY <2>1, <2>3 DEF Monitor!Cardinality, Cardinality, Monitor!IsFiniteSet, IsFiniteSet
<1>4. W = {n \in 1..last : n > last - MaxRendered}
  <2>1. W = {n \in D : last - n < MaxRendered}
    BY <1>3
  <2> QED
    BY <1>1, <1>2, <2>1
<1>5. Monitor!Merged(entries) = [n \in W |-> all[n]]
  BY DEF Monitor!Merged, Monitor!Newest, Monitor!Restrict
<1>6. \A n \in W : all[n] = IF n \in DOMAIN entries THEN entries[n] ELSE shown[n]
  OBVIOUS
<1>7. Monitor!Max(DOMAIN entries \cup {cursor}) = last
  <2> DEFINE S == DOMAIN entries \cup {cursor}
  <2>1. last \in S /\ \A y \in S : last >= y /\ y \in Nat
    BY <1>1
  <2>2. \A x \in S : (\A y \in S : x >= y) => x = last
    BY <1>1, <2>1
  <2> HIDE DEF S
  <2>3. Monitor!Max(S) = last
    BY <2>1, <2>2 DEF Monitor!Max
  <2> QED
    BY <2>3 DEF S
<1> HIDE DEF W, all
<1>8. DOMAIN [n \in W |-> all[n]] = W /\ \A n \in W : [m \in W |-> all[m]][n] = all[n]
  OBVIOUS
<1> QED
  BY <1>4, <1>5, <1>6, <1>7, <1>8

LEMMA BoundsTyped ==
  PageSize \in Nat \ {0} /\ MaxRendered \in Nat \ {0} /\ MaxOpens \in Nat \ {0}
  /\ MaxLog \in Nat \ {0}
BY ProvidersAssumption DEF Monitor!MonitorPageAssumption

LEMMA AskedTyped ==
  ASSUME NEW r \in RunIds \cup {None}, NEW after \in 0..MaxLog
  PROVE  /\ Monitor!Asked(r, after) \in Monitor!PollType
         /\ Monitor!Asked(r, after).runId = r /\ Monitor!Asked(r, after).after = after
         /\ Monitor!Asked(r, after).run = None /\ Monitor!Asked(r, after).events = None
         /\ Monitor!NoPoll \in Monitor!PollType /\ Monitor!NoPoll.runId = None
<1>1. /\ Monitor!NoPoll \in Monitor!PollType /\ Monitor!NoPoll.runId = None
      /\ Monitor!NoPoll = [runId |-> None, after |-> 0, run |-> None, events |-> None]
  BY BoundsTyped DEF Monitor!NoPoll, Monitor!PollType
<1>2. Monitor!Asked(r, after) = [Monitor!NoPoll EXCEPT !.runId = r, !.after = after]
  BY DEF Monitor!Asked
<1> DEFINE n == Monitor!NoPoll
<1>3. n \in [runId : RunIds \cup {None}, after : 0..MaxLog, run : {None}, events : {None}]
  BY <1>1, BoundsTyped
<1> HIDE DEF n
<1>4. [n EXCEPT !.runId = r, !.after = after]
        \in [runId : {r}, after : {after}, run : {None}, events : {None}]
  BY <1>3
<1>5. Monitor!Asked(r, after) \in [runId : {r}, after : {after}, run : {None}, events : {None}]
  BY <1>2, <1>4 DEF n
<1> QED
  BY <1>1, <1>5 DEF Monitor!PollType

\* What is known of a poll of this opening.
PollSound(p) ==
  /\ p.run # None /\ ~replaced => Monitor!StillSo(p.run)
  /\ p.events # None =>
       /\ \E last \in cursor..MaxLog : DOMAIN p.events = (cursor + 1)..last
       /\ ~replaced => StillShown(p.events)

PageSame ==
  /\ issued' = issued /\ view' = view /\ log' = log /\ saved' = saved
  /\ runId' = runId /\ generation' = generation /\ polling' = polling
  /\ cursor' = cursor /\ shown' = shown /\ lastRun' = lastRun /\ replaced' = replaced

\* The parts of the invariant that are not about a poll, while nothing else changes.
LEMMA PageSameKeeps ==
  ASSUME Monitor!MonitorInv, PageSame, polls' \in [1..MaxOpens -> Monitor!PollType]
  PROVE  /\ Monitor!ServiceInv' /\ Monitor!TypeOK' /\ Monitor!EventsAreTrue'
         /\ polling' = "finished" =>
              Monitor!Over(lastRun)' /\ (~replaced' => Monitor!StillSo(lastRun)')
<1>1. Monitor!ServiceInv /\ Monitor!TypeOK /\ Monitor!EventsAreTrue
  BY DEF Monitor!MonitorInv
<1>2. Monitor!ServiceInv'
  BY <1>1 DEF PageSame, Monitor!ServiceInv, Monitor!EndsWith
<1>3. Monitor!TypeOK'
  <2>1. \A h \in 1..MaxOpens : polls'[h].run \in Monitor!Projection \cup {None}
    BY DEF Monitor!PollType
  <2> QED
    BY <1>1, <2>1 DEF PageSame, Monitor!TypeOK
<1>4. Monitor!EventsAreTrue'
  BY <1>1 DEF PageSame, Monitor!EventsAreTrue, Monitor!Open
<1>5. polling' = "finished" =>
        Monitor!Over(lastRun)' /\ (~replaced' => Monitor!StillSo(lastRun)')
  BY DEF PageSame, Monitor!MonitorInv, Monitor!Over, Monitor!StillSo
<1> QED
  BY <1>2, <1>3, <1>4, <1>5

\* One of the two answers of a poll arrives.
LEMMA AnswerKeepsInv ==
  ASSUME Monitor!MonitorInv, PageSame, NEW g \in 1..MaxOpens, NEW p \in Monitor!PollType,
         polls' = [polls EXCEPT ![g] = p],
         p.runId = polls[g].runId, p.runId # None, p.after = polls[g].after,
         polling = "asking" /\ g = generation => PollSound(p)
  PROVE  Monitor!MonitorInv'
<1>1. /\ Monitor!TypeOK /\ Monitor!PollInv /\ polls \in [1..MaxOpens -> Monitor!PollType]
  BY DEF Monitor!MonitorInv
<1>2. /\ polls' \in [1..MaxOpens -> Monitor!PollType] /\ polls'[g] = p
      /\ \A h \in (1..MaxOpens) \ {g} : polls'[h] = polls[h]
  BY <1>1
<1>3. generation # 0 => generation \in 1..MaxOpens
  BY <1>1, BoundsTyped DEF Monitor!TypeOK
<1>4. \A h \in 1..MaxOpens : polls'[h].runId = polls[h].runId /\ polls'[h].after = polls[h].after
  BY <1>2
<1>5. /\ generation' = 0 => polling' = "list"
      /\ polling' = "asking" <=> generation' # 0 /\ Monitor!Asking(generation)'
      /\ \A h \in 1..MaxOpens :
           /\ h > generation' => ~Monitor!Asking(h)'
           /\ polls'[h].run # None => Monitor!Asking(h)'
  BY <1>1, <1>3, <1>4 DEF PageSame, Monitor!PollInv, Monitor!Asking
<1>6. ASSUME polling = "asking"
      PROVE  /\ polls'[generation].runId = runId /\ polls'[generation].after = cursor
             /\ PollSound(polls'[generation])
  <2>1. generation \in 1..MaxOpens
    BY <1>1, <1>3, <1>6 DEF Monitor!PollInv
  <2>2. PollSound(polls[generation])
    BY <1>1, <1>6 DEF Monitor!PollInv, PollSound, StillShown
  <2> QED
    BY <1>1, <1>2, <1>4, <1>6, <2>1, <2>2 DEF Monitor!PollInv
<1>7. Monitor!PollInv'
  BY <1>5, <1>6 DEF PageSame, Monitor!PollInv, PollSound, StillShown, Monitor!StillSo
<1> QED
  BY <1>2, <1>7, PageSameKeeps DEF Monitor!MonitorInv

\* GET /v1/research/:runId is answered with what is so at that moment.
LEMMA RunAnsweredKeepsInv ==
  ASSUME Monitor!MonitorInv, NEW g \in 1..MaxOpens, Monitor!RunAnswered(g)
  PROVE  Monitor!MonitorInv'
<1> DEFINE r == polls[g].runId
           run == [status |-> view[r], pending |-> Monitor!ReportPending(log[r])]
           p == [polls[g] EXCEPT !.run = run]
<1>1. PageSame /\ polls' = [polls EXCEPT ![g] = p] /\ r # None /\ view[r] # "absent"
  BY DEF PageSame, Monitor!RunAnswered, Monitor!lifecycleVars, Monitor!Found, Monitor!Asking
<1>2. Monitor!ServiceInv /\ Monitor!PollInv /\ polls[g] \in Monitor!PollType
  BY DEF Monitor!MonitorInv
<1>3. r \in RunIds
  BY <1>1, <1>2 DEF Monitor!PollType
<1>4. run \in Monitor!Projection /\ run.status = view[r]
      /\ (run.pending <=> Monitor!ReportPending(log[r]))
  BY <1>1, <1>2, <1>3 DEF Monitor!ServiceInv, Monitor!Projection, Monitor!ReportPending
<1> HIDE DEF run
<1>5. p \in Monitor!PollType /\ p.runId = r /\ p.after = polls[g].after
      /\ p.events = polls[g].events /\ p.run = run
  BY <1>2, <1>4 DEF Monitor!PollType
<1> HIDE DEF p
<1>6. ASSUME polling = "asking", g = generation PROVE PollSound(p)
  <2>1. r = runId /\ Monitor!StillSo(run)
    BY <1>2, <1>4, <1>6 DEF Monitor!PollInv, Monitor!StillSo
  <2> QED
    BY <1>2, <1>5, <1>6, <2>1 DEF Monitor!PollInv, PollSound, StillShown
<1> QED
  BY <1>1, <1>5, <1>6, AnswerKeepsInv

\* The other request is answered with the oldest events after the cursor.
LEMMA BatchFollows ==
  ASSUME NEW entries \in MonitorLogs, Len(entries) <= MaxLog, NEW after \in 0..MaxLog
  PROVE  /\ Monitor!Batch(entries, after) \in Monitor!EventPages
         /\ \E last \in after..MaxLog :
              DOMAIN Monitor!Batch(entries, after) = (after + 1)..last
         /\ \A n \in DOMAIN Monitor!Batch(entries, after) :
              n <= Len(entries) /\ Monitor!Batch(entries, after)[n] = entries[n]
<1> DEFINE S == {m \in DOMAIN entries : after < m /\ m <= after + PageSize}
           b == [n \in S |-> entries[n]]
<1>1. /\ Len(entries) \in Nat /\ DOMAIN entries = 1..Len(entries)
      /\ \A n \in 1..Len(entries) : entries[n] \in Monitor!EventNames
  BY DEF MonitorLogs
<1>2. b \in [S -> Monitor!EventNames] /\ S \in SUBSET (1..MaxLog)
  BY <1>1, BoundsTyped
<1>3. \E last \in after..MaxLog : S = (after + 1)..last
  <2>1. CASE Len(entries) <= after
    <3>1. S = (after + 1)..after /\ after \in after..MaxLog
      BY <1>1, <2>1, BoundsTyped
    <3> QED
      BY <3>1
  <2>2. CASE after < Len(entries) /\ Len(entries) <= after + PageSize
    <3>1. S = (after + 1)..Len(entries) /\ Len(entries) \in after..MaxLog
      BY <1>1, <2>2, BoundsTyped
    <3> QED
      BY <3>1
  <2>3. CASE after + PageSize < Len(entries)
    <3>1. S = (after + 1)..(after + PageSize) /\ after + PageSize \in after..MaxLog
      BY <1>1, <2>3, BoundsTyped
    <3> QED
      BY <3>1
  <2> QED
    BY <1>1, <2>1, <2>2, <2>3, BoundsTyped
<1>4. \A n \in S : n <= Len(entries) /\ b[n] = entries[n]
  BY <1>1
<1>5. DOMAIN b = S /\ b \in Monitor!EventPages
  BY <1>2 DEF Monitor!EventPages
<1>6. Monitor!Batch(entries, after) = b
  BY DEF Monitor!Batch
<1> HIDE DEF S, b
<1> QED
  BY <1>3, <1>4, <1>5, <1>6

LEMMA EventsAnsweredKeepsInv ==
  ASSUME Monitor!MonitorInv, NEW g \in 1..MaxOpens, Monitor!EventsAnswered(g)
  PROVE  Monitor!MonitorInv'
<1> DEFINE r == polls[g].runId
           batch == Monitor!Batch(log[r], polls[g].after)
           p == [polls[g] EXCEPT !.events = batch]
<1>1. PageSame /\ polls' = [polls EXCEPT ![g] = p] /\ r # None
  BY DEF PageSame, Monitor!EventsAnswered, Monitor!lifecycleVars, Monitor!Found, Monitor!Asking
<1>2. Monitor!ServiceInv /\ Monitor!PollInv /\ polls[g] \in Monitor!PollType
  BY DEF Monitor!MonitorInv
<1>3. r \in RunIds /\ polls[g].after \in 0..MaxLog
  BY <1>1, <1>2 DEF Monitor!PollType
<1>4. log[r] \in MonitorLogs /\ Len(log[r]) <= MaxLog
  BY <1>2, <1>3 DEF Monitor!ServiceInv, MonitorLogs
<1>5. /\ batch \in Monitor!EventPages
      /\ \E last \in polls[g].after..MaxLog : DOMAIN batch = (polls[g].after + 1)..last
      /\ \A n \in DOMAIN batch : n <= Len(log[r]) /\ batch[n] = log[r][n]
  BY <1>3, <1>4, BatchFollows
<1> HIDE DEF batch
<1>6. p \in Monitor!PollType /\ p.runId = r /\ p.after = polls[g].after
      /\ p.events = batch /\ p.run = polls[g].run
  BY <1>2, <1>5 DEF Monitor!PollType
<1> HIDE DEF p
<1>7. ASSUME polling = "asking", g = generation PROVE PollSound(p)
  <2>1. r = runId /\ polls[g].after = cursor
    BY <1>2, <1>7 DEF Monitor!PollInv
  <2>2. StillShown(batch)
    BY <1>5, <2>1 DEF StillShown
  <2> QED
    BY <1>2, <1>5, <1>6, <1>7, <2>1, <2>2 DEF Monitor!PollInv, PollSound
<1> QED
  BY <1>1, <1>6, <1>7, AnswerKeepsInv

ServiceSame == issued' = issued /\ view' = view /\ log' = log /\ saved' = saved

LEMMA ServiceSameKeeps ==
  ASSUME Monitor!MonitorInv, ServiceSame
  PROVE  Monitor!ServiceInv'
BY DEF Monitor!MonitorInv, ServiceSame, Monitor!ServiceInv, Monitor!EndsWith

\* A fresh opening knows nothing yet, whatever still comes for the earlier ones.
LEMMA ConnectKeepsInv ==
  ASSUME Monitor!MonitorInv, NEW r \in RunIds \cup {None}, Monitor!Connect(r)
  PROVE  Monitor!MonitorInv'
<1>1. /\ ServiceSame /\ generation < MaxOpens /\ generation' = generation + 1
      /\ runId' = r /\ cursor' = 0 /\ shown' = Monitor!NoEvents /\ lastRun' = None
      /\ replaced' = FALSE
      /\ IF r = None
         THEN polling' = "list" /\ polls' = polls
         ELSE /\ polling' = "asking"
              /\ polls' = [polls EXCEPT ![generation'] = Monitor!Asked(r, 0)]
  BY DEF Monitor!Connect, Monitor!lifecycleVars, ServiceSame
<1>2. /\ Monitor!TypeOK /\ Monitor!PollInv /\ polls \in [1..MaxOpens -> Monitor!PollType]
      /\ generation \in 0..MaxOpens
  BY DEF Monitor!MonitorInv, Monitor!TypeOK
<1>3. generation' \in 1..MaxOpens /\ generation' # 0 /\ generation' > generation
      /\ MaxLog \in Nat /\ 0 \in 0..MaxLog
  BY <1>1, <1>2, BoundsTyped
<1> DEFINE p == Monitor!Asked(r, 0)
<1>4. /\ p \in Monitor!PollType /\ p.runId = r /\ p.after = 0
      /\ p.run = None /\ p.events = None
  BY <1>3, AskedTyped
<1>5. polls' \in [1..MaxOpens -> Monitor!PollType]
  BY <1>1, <1>2, <1>4
<1>6. Monitor!TypeOK'
  <2>1. \A h \in 1..MaxOpens : polls'[h].run \in Monitor!Projection \cup {None}
    BY <1>5 DEF Monitor!PollType
  <2> QED
    BY <1>1, <1>3, <2>1 DEF Monitor!TypeOK
<1>7. Monitor!EventsAreTrue'
  <2>1. shown' = [n \in {} |-> "none"] /\ DOMAIN shown' = {}
    BY <1>1 DEF Monitor!NoEvents
  <2>2. {n \in 1..cursor' : n > cursor' - MaxRendered} = {}
    BY <1>1
  <2> QED
    BY <2>1, <2>2 DEF Monitor!EventsAreTrue
<1>8. Monitor!PollInv'
  <2>1. \A h \in 1..MaxOpens : h > generation => polls[h].runId = None
    BY <1>2 DEF Monitor!PollInv, Monitor!Asking
  <2>2. /\ \A h \in 1..MaxOpens : h > generation' => polls'[h].runId = None
        /\ \A h \in 1..MaxOpens : polls'[h].run # None => polls'[h].runId # None
    <3>1. \A h \in 1..MaxOpens : polls[h].run # None => polls[h].runId # None
      BY <1>2 DEF Monitor!PollInv, Monitor!Asking
    <3>2. \A h \in 1..MaxOpens :
            polls'[h] = polls[h] \/ (h = generation' /\ polls'[h] = p)
      BY <1>1, <1>2, <1>3
    <3> HIDE DEF p
    <3> QED
      BY <1>2, <1>3, <1>4, <2>1, <3>1, <3>2
  <2>3. CASE r = None
    <3>1. polls' = polls
      BY <1>1, <2>3
    <3>2. polls'[generation'].runId = None
      BY <1>3, <2>1, <3>1
    <3> QED
      BY <1>1, <1>3, <2>2, <2>3, <3>2 DEF Monitor!PollInv, Monitor!Asking
  <2>4. CASE r # None
    <3>1. polls'[generation'] = p
      BY <1>1, <1>2, <1>3, <2>4
    <3> HIDE DEF p
    <3> QED
      BY <1>1, <1>3, <1>4, <2>2, <2>4, <3>1 DEF Monitor!PollInv, Monitor!Asking
  <2> QED
    BY <2>3, <2>4
<1>9. polling' # "finished"
  BY <1>1
<1> QED
  BY <1>1, <1>5, <1>6, <1>7, <1>8, <1>9, ServiceSameKeeps DEF Monitor!MonitorInv

\* The next poll, from the timer or from the retry button, goes on from the cursor.
LEMMA PollKeepsInv ==
  ASSUME Monitor!MonitorInv, Monitor!Poll, polling \in {"waiting", "failed"}
  PROVE  Monitor!MonitorInv'
<1> DEFINE p == Monitor!Asked(runId, cursor)
<1>1. /\ ServiceSame /\ generation' = generation /\ runId' = runId /\ cursor' = cursor
      /\ shown' = shown /\ lastRun' = lastRun /\ replaced' = replaced
      /\ polling' = "asking" /\ polls' = [polls EXCEPT ![generation] = p]
  BY DEF Monitor!Poll, Monitor!lifecycleVars, ServiceSame
<1>2. /\ Monitor!TypeOK /\ Monitor!PollInv /\ polls \in [1..MaxOpens -> Monitor!PollType]
      /\ Monitor!EventsAreTrue
  BY DEF Monitor!MonitorInv
<1>3. /\ p \in Monitor!PollType /\ p.runId = runId /\ p.after = cursor
      /\ p.run = None /\ p.events = None /\ runId # None
  BY <1>2, AskedTyped DEF Monitor!TypeOK
<1> HIDE DEF p
<1>4. generation \in 1..MaxOpens
  BY <1>2, BoundsTyped DEF Monitor!TypeOK, Monitor!PollInv
<1>5. /\ polls' \in [1..MaxOpens -> Monitor!PollType] /\ polls'[generation] = p
      /\ \A h \in 1..MaxOpens : h # generation => polls'[h] = polls[h]
  BY <1>1, <1>2, <1>3, <1>4
<1>6. Monitor!TypeOK'
  <2>1. \A h \in 1..MaxOpens : polls'[h].run \in Monitor!Projection \cup {None}
    BY <1>5 DEF Monitor!PollType
  <2> QED
    BY <1>1, <1>2, <1>3, <2>1 DEF Monitor!TypeOK
<1>7. Monitor!EventsAreTrue'
  BY <1>1, <1>2 DEF ServiceSame, Monitor!EventsAreTrue, Monitor!Open
<1>8. Monitor!PollInv'
  <2>1. \A h \in 1..MaxOpens : /\ h > generation => polls'[h].runId = None
                               /\ polls'[h].run # None => polls'[h].runId # None
    BY <1>2, <1>3, <1>4, <1>5 DEF Monitor!PollInv, Monitor!Asking
  <2> QED
    BY <1>1, <1>3, <1>4, <1>5, <2>1 DEF Monitor!PollInv, Monitor!Asking
<1> QED
  BY <1>1, <1>5, <1>6, <1>7, <1>8, ServiceSameKeeps DEF Monitor!MonitorInv

\* An answer applied, or lost: the poll is over; if it was of this opening, so is
\* what the page waited for.
LEMMA PollEnds ==
  ASSUME Monitor!MonitorInv, NEW g \in 1..MaxOpens,
         polls' = [polls EXCEPT ![g] = Monitor!NoPoll],
         ServiceSame, runId' = runId, generation' = generation, replaced' = replaced,
         \/ /\ Monitor!Expected(g) /\ polling' \in {"waiting", "failed", "finished"}
            /\ runId # None
         \/ /\ ~Monitor!Expected(g) /\ polling' = polling /\ cursor' = cursor
  PROVE  /\ Monitor!PollInv' /\ polls' \in [1..MaxOpens -> Monitor!PollType]
         /\ (polling' = "list") <=> (runId' = None)
<1>1. /\ Monitor!TypeOK /\ Monitor!PollInv /\ polls \in [1..MaxOpens -> Monitor!PollType]
      /\ generation \in 0..MaxOpens
  BY DEF Monitor!MonitorInv, Monitor!TypeOK
<1>2. /\ Monitor!NoPoll \in Monitor!PollType /\ Monitor!NoPoll.runId = None
      /\ Monitor!NoPoll.run = None
  BY BoundsTyped DEF Monitor!NoPoll, Monitor!PollType
<1>3. /\ polls' \in [1..MaxOpens -> Monitor!PollType] /\ polls'[g].runId = None
      /\ polls'[g].run = None
      /\ \A h \in 1..MaxOpens : h # g => polls'[h] = polls[h]
  BY <1>1, <1>2
<1>4. \A h \in 1..MaxOpens : /\ h > generation => polls'[h].runId = None
                             /\ polls'[h].run # None => polls'[h].runId # None
  BY <1>1, <1>3 DEF Monitor!PollInv, Monitor!Asking
<1>5. CASE Monitor!Expected(g)
  <2>1. /\ g = generation /\ polling' \in {"waiting", "failed", "finished"} /\ runId # None
        /\ generation # 0
    BY <1>1, <1>5 DEF Monitor!Expected
  <2> QED
    BY <1>3, <1>4, <2>1 DEF Monitor!PollInv, Monitor!Asking
<1>6. CASE ~Monitor!Expected(g)
  <2>1. g # generation /\ polling' = polling /\ cursor' = cursor
    BY <1>6 DEF Monitor!Expected
  <2>2. generation # 0 => polls'[generation] = polls[generation]
    BY <1>1, <1>3, <2>1, BoundsTyped
  <2>3. /\ generation' = 0 => polling' = "list"
        /\ polling' = "asking" <=> generation' # 0 /\ Monitor!Asking(generation)'
        /\ \A h \in 1..MaxOpens :
             /\ h > generation' => ~Monitor!Asking(h)'
             /\ polls'[h].run # None => Monitor!Asking(h)'
    BY <1>1, <1>4, <2>1, <2>2 DEF Monitor!PollInv, Monitor!Asking
  <2>4. ASSUME polling = "asking"
        PROVE  LET p == polls'[generation] IN
               /\ p.runId = runId /\ p.after = cursor /\ PollSound(p)
    BY <1>1, <2>2, <2>4 DEF Monitor!PollInv, PollSound, StillShown
  <2>5. Monitor!PollInv'
    BY <2>1, <2>3, <2>4
       DEF ServiceSame, Monitor!PollInv, PollSound, StillShown, Monitor!StillSo
  <2> QED
    BY <1>1, <1>3, <2>1, <2>5 DEF Monitor!TypeOK
<1> QED
  BY <1>5, <1>6

LEMMA PollFailsKeepsInv ==
  ASSUME Monitor!MonitorInv, NEW g \in 1..MaxOpens, Monitor!PollFails(g)
  PROVE  Monitor!MonitorInv'
<1>1. /\ ServiceSame /\ runId' = runId /\ generation' = generation /\ cursor' = cursor
      /\ shown' = shown /\ lastRun' = lastRun /\ replaced' = replaced
      /\ polls' = [polls EXCEPT ![g] = Monitor!NoPoll] /\ polls[g].runId # None
      /\ polling' = IF Monitor!Expected(g) THEN "failed" ELSE polling
  BY DEF Monitor!PollFails, Monitor!lifecycleVars, ServiceSame, Monitor!Asking
<1>2. /\ Monitor!TypeOK /\ Monitor!PollInv /\ Monitor!EventsAreTrue
  BY DEF Monitor!MonitorInv
<1>3. Monitor!Expected(g) => runId # None
  BY <1>1, <1>2 DEF Monitor!PollInv, Monitor!Expected, Monitor!TypeOK, Monitor!Asking
<1>4. /\ Monitor!PollInv' /\ polls' \in [1..MaxOpens -> Monitor!PollType]
      /\ (polling' = "list") <=> (runId' = None)
  <2>1. \/ /\ Monitor!Expected(g) /\ polling' \in {"waiting", "failed", "finished"}
           /\ runId # None
        \/ /\ ~Monitor!Expected(g) /\ polling' = polling /\ cursor' = cursor
    BY <1>1, <1>3
  <2> QED
    BY <1>1, <2>1, PollEnds
<1>5. Monitor!TypeOK'
  <2>1. \A h \in 1..MaxOpens : polls'[h].run \in Monitor!Projection \cup {None}
    BY <1>4 DEF Monitor!PollType
  <2> QED
    BY <1>1, <1>2, <1>4, <2>1 DEF Monitor!TypeOK
<1>6. Monitor!EventsAreTrue'
  BY <1>1, <1>2 DEF ServiceSame, Monitor!EventsAreTrue, Monitor!Open
<1>7. polling' = "finished" =>
        Monitor!Over(lastRun)' /\ (~replaced' => Monitor!StillSo(lastRun)')
  <2>1. polling' = "finished" => polling = "finished"
    BY <1>1
  <2> QED
    BY <1>1, <2>1 DEF ServiceSame, Monitor!MonitorInv, Monitor!Over, Monitor!StillSo
<1> QED
  BY <1>1, <1>4, <1>5, <1>6, <1>7, ServiceSameKeeps DEF Monitor!MonitorInv

\* Both answers applied, if the page still waits for them.
LEMMA AppliedKeepsInv ==
  ASSUME Monitor!MonitorInv, NEW g \in 1..MaxOpens, Monitor!Applied(g)
  PROVE  Monitor!MonitorInv'
<1> DEFINE p == polls[g]
<1>1. /\ ServiceSame /\ runId' = runId /\ generation' = generation /\ replaced' = replaced
      /\ polls' = [polls EXCEPT ![g] = Monitor!NoPoll] /\ p.run # None /\ p.events # None
  BY DEF Monitor!Applied, Monitor!lifecycleVars, ServiceSame
<1>2. /\ Monitor!TypeOK /\ Monitor!PollInv /\ Monitor!EventsAreTrue /\ p \in Monitor!PollType
  BY DEF Monitor!MonitorInv
<1>3. CASE Monitor!Expected(g)
  <2>1. /\ lastRun' = p.run /\ shown' = Monitor!Merged(p.events)
        /\ cursor' = Monitor!Max(DOMAIN p.events \cup {cursor})
        /\ polling' = IF Monitor!Over(p.run) THEN "finished" ELSE "waiting"
    BY <1>3 DEF Monitor!Applied
  <2>2. g = generation /\ polling = "asking" /\ runId # None
    BY <1>1, <1>2, <1>3 DEF Monitor!Expected, Monitor!PollInv, Monitor!TypeOK
  <2>3. PollSound(p)
    BY <1>2, <2>2 DEF Monitor!PollInv, PollSound, StillShown
  <2>4. PICK last \in cursor..MaxLog : DOMAIN p.events = (cursor + 1)..last
    BY <1>1, <2>3 DEF PollSound
  <2>5. /\ DOMAIN shown' = {n \in 1..last : n > last - MaxRendered}
        /\ \A n \in DOMAIN shown' :
             shown'[n] = IF n \in DOMAIN p.events THEN p.events[n] ELSE shown[n]
        /\ cursor' = last
    BY <1>2, <2>1, <2>4, WindowMoves DEF Monitor!EventsAreTrue
  <2>6. cursor' \in 0..MaxLog /\ last \in Nat /\ cursor \in Nat /\ last >= cursor
    BY <1>2, <2>4, <2>5, BoundsTyped DEF Monitor!TypeOK
  <2>7. /\ Monitor!PollInv' /\ polls' \in [1..MaxOpens -> Monitor!PollType]
        /\ (polling' = "list") <=> (runId' = None)
    BY <1>1, <1>3, <2>1, <2>2, PollEnds
  <2>8. Monitor!TypeOK'
    <3>1. \A h \in 1..MaxOpens : polls'[h].run \in Monitor!Projection \cup {None}
      BY <2>7 DEF Monitor!PollType
    <3>2. lastRun' \in Monitor!Projection \cup {None}
      BY <1>2, <2>1 DEF Monitor!PollType
    <3>3. polling' \in {"list", "asking", "waiting", "failed", "finished"}
      BY <2>1
    <3> QED
      BY <1>1, <1>2, <2>6, <2>7, <3>1, <3>2, <3>3 DEF Monitor!TypeOK
  <2>9. Monitor!EventsAreTrue'
    <3>1. ASSUME ~replaced, NEW n \in DOMAIN shown'
          PROVE  n <= Len(log[runId]) /\ shown'[n] = log[runId][n]
      <4>1. CASE n \in DOMAIN p.events
        BY <1>1, <2>3, <2>5, <3>1, <4>1 DEF PollSound, StillShown
      <4>2. CASE n \notin DOMAIN p.events
        <5>1. n \in DOMAIN shown
          BY <1>2, <2>4, <2>5, <2>6, <3>1, <4>2, BoundsTyped DEF Monitor!EventsAreTrue
        <5> QED
          BY <1>2, <2>2, <2>5, <3>1, <4>2, <5>1 DEF Monitor!EventsAreTrue, Monitor!Open
      <4> QED
        BY <4>1, <4>2
    <3> QED
      BY <1>1, <2>5, <3>1 DEF ServiceSame, Monitor!EventsAreTrue, Monitor!Open
  <2>10. polling' = "finished" =>
           Monitor!Over(lastRun)' /\ (~replaced' => Monitor!StillSo(lastRun)')
    BY <1>1, <2>1, <2>3 DEF ServiceSame, PollSound, Monitor!Over, Monitor!StillSo
  <2> QED
    BY <1>1, <2>7, <2>8, <2>9, <2>10, ServiceSameKeeps DEF Monitor!MonitorInv
<1>4. CASE ~Monitor!Expected(g)
  <2>1. lastRun' = lastRun /\ shown' = shown /\ cursor' = cursor /\ polling' = polling
    BY <1>4 DEF Monitor!Applied
  <2>2. /\ Monitor!PollInv' /\ polls' \in [1..MaxOpens -> Monitor!PollType]
        /\ (polling' = "list") <=> (runId' = None)
    BY <1>1, <1>4, <2>1, PollEnds
  <2>3. PageSame
    BY <1>1, <2>1 DEF ServiceSame, PageSame
  <2> QED
    BY <2>2, <2>3, PageSameKeeps DEF Monitor!MonitorInv
<1> QED
  BY <1>3, <1>4

LEMMA PageKeepsInv ==
  ASSUME Monitor!MonitorInv, [Monitor!Next]_monitorVars
  PROVE  Monitor!MonitorInv'
<1>1. CASE Monitor!ServiceStep
  BY <1>1, ServiceStepKeepsInv
<1>2. ASSUME NEW r \in RunIds \cup {None}, Monitor!Connect(r) PROVE Monitor!MonitorInv'
  BY <1>2, ConnectKeepsInv
<1>3. CASE Monitor!Retry \/ Monitor!TimerFires
  BY <1>3, PollKeepsInv DEF Monitor!Retry, Monitor!TimerFires
<1>4. ASSUME NEW g \in 1..MaxOpens,
             \/ Monitor!RunAnswered(g) \/ Monitor!EventsAnswered(g)
             \/ Monitor!Applied(g) \/ Monitor!NotFound(g) \/ Monitor!PollFails(g)
      PROVE  Monitor!MonitorInv'
  BY <1>4, RunAnsweredKeepsInv, EventsAnsweredKeepsInv, AppliedKeepsInv, PollFailsKeepsInv
     DEF Monitor!NotFound
<1>5. CASE UNCHANGED monitorVars
  <2>1. PageSame /\ polls' = polls
    BY <1>5 DEF monitorVars, PageSame
  <2>2. Monitor!PollInv'
    BY <2>1 DEF Monitor!MonitorInv, PageSame, Monitor!PollInv, Monitor!Asking, Monitor!StillSo
  <2>3. polls' \in [1..MaxOpens -> Monitor!PollType]
    BY <2>1 DEF Monitor!MonitorInv
  <2> QED
    BY <2>1, <2>2, <2>3, PageSameKeeps DEF Monitor!MonitorInv
<1> QED
  BY <1>1, <1>2, <1>3, <1>4, <1>5 DEF Monitor!Next, Monitor!Due

LEMMA PageInitHasInv == Monitor!Init => Monitor!MonitorInv
<1> SUFFICES ASSUME Monitor!Init PROVE Monitor!MonitorInv
  OBVIOUS
<1>1. /\ issued = {} /\ view = [r \in RunIds |-> "absent"] /\ log = [r \in RunIds |-> <<>>]
      /\ saved = [r \in RunIds |-> [log |-> <<>>, outcome |-> "open"]]
      /\ runId = None /\ generation = 0 /\ polling = "list" /\ cursor = 0
      /\ shown = Monitor!NoEvents /\ lastRun = None /\ replaced = FALSE
      /\ polls = [g \in 1..MaxOpens |-> Monitor!NoPoll]
  BY DEF Monitor!Init, Monitor!LifecycleInit
<1>2. Monitor!ServiceInv
  <2>1. ServiceTyped
    BY <1>1, EmptyLog DEF ServiceTyped
  <2>2. ASSUME NEW r \in RunIds PROVE OfRun(r)
    BY <1>1, EmptyLog, BoundsTyped, StatusesApart DEF OfRun
  <2> QED
    BY <2>1, <2>2, ServiceByRun
<1>3. /\ Monitor!NoPoll \in Monitor!PollType /\ Monitor!NoPoll.runId = None
      /\ Monitor!NoPoll.run = None
  BY BoundsTyped DEF Monitor!NoPoll, Monitor!PollType
<1>4. /\ polls \in [1..MaxOpens -> Monitor!PollType]
      /\ \A g \in 1..MaxOpens : polls[g].runId = None /\ polls[g].run = None
  BY <1>1, <1>3
<1>5. Monitor!TypeOK
  BY <1>1, <1>4, BoundsTyped DEF Monitor!TypeOK
<1>6. Monitor!EventsAreTrue
  <2>1. shown = [n \in {} |-> "none"] /\ DOMAIN shown = {}
    BY <1>1 DEF Monitor!NoEvents
  <2> QED
    BY <1>1, <2>1 DEF Monitor!EventsAreTrue
<1>7. Monitor!PollInv
  BY <1>1, <1>4 DEF Monitor!PollInv, Monitor!Asking
<1> QED
  BY <1>1, <1>2, <1>4, <1>5, <1>6, <1>7 DEF Monitor!MonitorInv

LEMMA MonitorInvHolds == ProvidersSpec => []Monitor!MonitorInv
<1>1. ProvidersInit => Monitor!MonitorInv
  BY PageInitHasInv DEF ProvidersInit
<1>2. Monitor!MonitorInv /\ [ProvidersNext]_providersVars => Monitor!MonitorInv'
  BY StepOfEach, PageKeepsInv
<1> QED
  BY <1>1, <1>2, PTL DEF ProvidersSpec

\* For any runs, restarts, batches, window and openings: the page shows the
\* newest events of its run without a gap, unless a restart took some back, and
\* once it has stopped it shows how the run ended.
THEOREM PageIsAlwaysTrue == ProvidersSpec => []MonitorIsTrue
<1>1. Monitor!MonitorInv => MonitorIsTrue
  <2> SUFFICES ASSUME Monitor!MonitorInv PROVE MonitorIsTrue
    OBVIOUS
  <2>1. ASSUME polling = "finished", ~replaced
        PROVE  /\ lastRun.status = view[runId]
               /\ ~Monitor!ReportPending(log[runId])
               /\ log[runId][Len(log[runId])] = Monitor!TerminalEvent(lastRun.status)
    <3>1. Monitor!Over(lastRun) /\ Monitor!StillSo(lastRun) /\ runId \in RunIds
      BY <2>1 DEF Monitor!MonitorInv, Monitor!TypeOK
    <3>2. /\ view[runId] = lastRun.status /\ view[runId] \in Monitor!Terminal
          /\ ~Monitor!ReportPending(log[runId])
      BY <3>1 DEF Monitor!Over, Monitor!StillSo
    <3>3. Monitor!EndsWith(log[runId], view[runId])
      BY <3>1, <3>2 DEF Monitor!MonitorInv, Monitor!ServiceInv
    <3> QED
      BY <3>2, <3>3 DEF Monitor!EndsWith
  <2> QED
    BY <2>1 DEF Monitor!MonitorInv, MonitorIsTrue, Monitor!PageIsTrue, Monitor!FinishedIsFinal
<1> QED
  BY <1>1, MonitorInvHolds, PTL

-----------------------------------------------------------------------------
(* Aborts *)

\* Whatever engines, servers, pages and entrances do after the signal, the call
\* that it aborts has ended: nothing is asked again, and nobody else is blamed.
THEOREM AbortAlwaysEnds == ProvidersSpec => AbortIsTheEnd
<1>1. RequestsInv /\ [ProvidersNext]_providersVars
        => [aborted => \A e \in Engines : work'[e].sent = work[e].sent]_vars
  BY StepOfEach, SearchKeepsInv DEF SearchStep
<1>2. Llm!LogInv /\ [ProvidersNext]_providersVars
        => [llmAborted =>
              /\ requests' = requests
              /\ Len(events') <= Len(events) + 1
              /\ (events' # events /\ events'[Len(events')].type = "attempt_failed") =>
                   events'[Len(events')].code = None /\ result'.kind = "aborted"]_(Llm!vars)
  BY StepOfEach, CallKeepsInv DEF CallStep
<1>3. Fetch!PipelineInv /\ [ProvidersNext]_providersVars
        => [fetchAborted =>
              /\ stage' = "rendering" => stage = "rendering"
              /\ answer'.outcome = "transport_error" => answer' = answer]_(Fetch!vars)
  BY StepOfEach, FetchKeepsInv DEF FetchStep
<1>4. Fusion!LayersInv /\ [ProvidersNext]_providersVars
        => [/\ signal => tries' <= IF turn' = turn THEN tries ELSE 1
            /\ rejected' => response' = Fusion!Threw]_(Fusion!vars)
  BY StepOfEach, LayersKeepInv DEF LayersStep
<1>5. ProvidersSpec => NoRequestAfterAbort
  BY <1>1, RequestsInvHolds, PTL DEF ProvidersSpec, NoRequestAfterAbort
<1>6. ProvidersSpec => Llm!AbortIsTheLastWord
  BY <1>2, LogInvHolds, PTL DEF ProvidersSpec, Llm!AbortIsTheLastWord
<1>7. ProvidersSpec => Fetch!AbortIsTheEnd
  BY <1>3, PipelineInvHolds, PTL DEF ProvidersSpec, Fetch!AbortIsTheEnd
<1>8. ProvidersSpec => Fusion!AbortIsTheEnd
  BY <1>4, LayersInvHolds, PTL DEF ProvidersSpec, Fusion!AbortIsTheEnd
<1> QED
  BY <1>5, <1>6, <1>7, <1>8 DEF AbortIsTheEnd

=============================================================================
