--------------------------- MODULE FetchPipeline ---------------------------
(***************************************************************************)
(* One call of the generic fetch provider                                  *)
(* (src/app/create-generic-dependencies.ts) from its URL check to its      *)
(* answer: the host's WebFetch hook, the static fetch that follows         *)
(* redirects one checked hop at a time, the extraction of the page, the    *)
(* browser for a page that needs one, and the extraction of what the       *)
(* browser rendered.                                                       *)
(*                                                                         *)
(* A step runs from one await to the next. The network and WebFetch are    *)
(* external, the pool and the browser are ExtractionPool and BrowserPool:  *)
(* all of them answer anything or fail. A URL is a name; of a text only    *)
(* the two tests made on it are kept, and where it comes from.             *)
(***************************************************************************)
EXTENDS Naturals, Sequences

CONSTANTS
  Urls, Start,     \* the URLs a server may name; the one asked for
  Blocked,         \* those assertSafeResolvedNetworkTarget throws for
  MaxRedirects,    \* options.maxRedirects (5 by default)
  None

\* What the two tests made on a text tell apart: "titled" is long enough only
\* together with its title; a "shell" is long but says that it is loading, a
\* "challenge" is long but asks for a login.
Kinds == {"empty", "short", "titled", "shell", "challenge", "good"}

\* What a run assumes of the constants.
FetchPipelineAssumption ==
  /\ Start \in Urls
  /\ Blocked \subseteq Urls
  /\ MaxRedirects \in Nat
  /\ None \notin Urls

VARIABLES
  stage,     \* the await the call is at
  aborted,   \* options.signal
  target,    \* the URL of the current hop, then of the static page
  hops,      \* hop of safeFetchWithRedirects
  page,      \* the record of the static page, as it is built
  rendered,  \* what the browser gave: its URL and its body text
  answer     \* the FetchResponse, or what the caller was thrown

vars == <<stage, aborted, target, hops, page, rendered, answer>>

-----------------------------------------------------------------------------
(* Texts and records *)

\* isWeakFetchedContent() and staticNeedsBrowser() are not the same test.
Weak(kind) == kind \in {"empty", "short", "shell", "challenge"}
NeedsBrowser(kind) == kind \in {"empty", "short", "titled", "shell"}
TooShort(kind) == kind \in {"empty", "short", "titled"}

Text(kind, url) == [kind |-> kind, from |-> IF kind = "empty" THEN None ELSE url]
NoText == Text("empty", None)

Warnings ==
  {"webfetch_weak", "static_extraction_failed", "html_truncated", "static_extraction_weak",
   "browser_html_extraction_empty", "browser_html_extraction_failed",
   "browser_extraction_weak", "browser_failed"}

Record(url, text, status, mode, warnings) ==
  [finalUrl |-> url, content |-> text, status |-> status, mode |-> mode,
   warnings |-> warnings]
NoPage == Record(None, NoText, "none", "static", {})

\* The message of an error says whether the target was blocked.
Answer(how, record) == [outcome |-> how, error |-> "none", page |-> record]
Unanswered == Answer("none", NoPage)
Failure(error) ==
  [Answer("transport_error", Record(Start, NoText, "none", "static", {})) EXCEPT !.error = error]

\* classifyGenericFetchPage(): the status is that of the static response, even
\* when the browser gave the text.
Classified(record) ==
  Answer(IF record.status = "error" THEN "http_error"
         ELSE IF Weak(record.content.kind) THEN "success_empty"
         ELSE "success_with_content", record)

\* Mutant: an aborted fetch is answered as one that failed.
FailedAnswer(error) == Failure(error)

\* the catch clause of the provider
CaughtAnswer(error) == IF aborted THEN Answer("threw", NoPage) ELSE Failure(error)

Nowhere == [url |-> None, text |-> NoText]

\* The call is over and its locals are gone.
Ends(with) ==
  /\ stage' = "done"
  /\ answer' = with
  /\ target' = Start /\ hops' = 0
  /\ page' = NoPage /\ rendered' = Nowhere
  /\ UNCHANGED aborted

ThrowsBlocked == Ends(CaughtAnswer("blocked"))
Throws == Ends(CaughtAnswer("failed"))
Returns(record) == Ends(Classified(record))

-----------------------------------------------------------------------------
Stage ==
  {"new", "check", "web", "lookup", "request", "body", "extracting",
   "rendering", "reextracting", "done"}

Init ==
  /\ stage = "new"
  /\ aborted = FALSE
  /\ target = Start /\ hops = 0
  /\ page = NoPage
  /\ rendered = Nowhere
  /\ answer = Unanswered

\* The provider's fetch() up to its first await.
Begin ==
  /\ stage = "new"
  /\ stage' = "check"
  /\ UNCHANGED <<aborted, target, hops, page, rendered, answer>>

\* assertSafeResolvedNetworkTarget(url), then the hook or the first hop
Checked(resolves) ==
  /\ stage = "check"
  /\ IF ~resolves THEN Throws
     ELSE IF Start \in Blocked THEN ThrowsBlocked
     ELSE /\ stage' \in {"web", "lookup"}   \* globalThis.WebFetch is a function
          /\ UNCHANGED <<aborted, target, hops, page, rendered, answer>>

\* The fallback to the static fetch, with the warning it takes along.
FallBack(warnings) ==
  /\ stage' = "lookup"
  /\ page' = [page EXCEPT !.warnings = warnings]
  /\ UNCHANGED <<aborted, target, hops, rendered, answer>>

\* The hook answers with a page of the URL it says, or of the one asked for.
WebFetchAnswers(url, kind) ==
  /\ stage = "web"
  /\ IF url \in Blocked
     THEN IF aborted THEN Throws ELSE FallBack({})
     ELSE IF Weak(kind) THEN FallBack({"webfetch_weak"})
     ELSE Returns(Record(url, Text(kind, url), "none", "static", {}))

\* It throws; an error that calls itself an abort or a time-out counts as one.
WebFetchThrows(cancellation) ==
  /\ stage = "web"
  /\ IF cancellation \/ aborted THEN Throws ELSE FallBack({})

-----------------------------------------------------------------------------
(* safeFetchWithRedirects *)

Lookup(resolves) ==
  /\ stage = "lookup"
  /\ IF ~resolves THEN Throws
     ELSE IF target \in Blocked THEN ThrowsBlocked
     ELSE /\ stage' = "request"
          /\ UNCHANGED <<aborted, target, hops, page, rendered, answer>>

LastHop == hops = MaxRedirects

Redirected(location) ==
  /\ stage = "request"
  /\ ~aborted
  /\ IF LastHop THEN Throws
     ELSE /\ stage' = "lookup"
          /\ target' = location
          /\ hops' = hops + 1
          /\ UNCHANGED <<aborted, page, rendered, answer>>

\* Any other status, or a redirect that names no location.
Responds(status) ==
  /\ stage = "request"
  /\ ~aborted
  /\ stage' = "body"
  /\ page' = [page EXCEPT !.status = status]
  /\ UNCHANGED <<aborted, target, hops, rendered, answer>>

\* fetch() or text() rejects, an aborted one always.
NetworkFails ==
  /\ stage \in {"request", "body"}
  /\ Throws

-----------------------------------------------------------------------------
(* The static page *)

StaticRecord(kind, warnings) ==
  Record(target, Text(kind, target), page.status, "static",
         page.warnings \cup warnings
           \cup (IF TooShort(kind) THEN {"static_extraction_weak"} ELSE {}))

\* From the extraction to the next await: fetchWithBrowserFallback returns the
\* static page, or the browser is asked to render the URL.
StaticDone(kind, warnings) ==
  IF aborted THEN Throws
  ELSE IF ~NeedsBrowser(kind) THEN Returns(StaticRecord(kind, warnings))
  ELSE /\ stage' = "rendering"
       /\ page' = StaticRecord(kind, warnings)
       /\ UNCHANGED <<aborted, target, hops, rendered, answer>>

Truncation(cut) == IF cut THEN {"html_truncated"} ELSE {}

\* A small page is extracted where it is; what fails there gives no text.
SmallBody(kind) ==
  /\ stage = "body"
  /\ ~aborted
  /\ StaticDone(kind, {})

\* A large one goes to the pool, cut if it is too large.
LargeBody(cut) ==
  /\ stage = "body"
  /\ ~aborted
  /\ stage' = "extracting"
  /\ page' = [page EXCEPT !.warnings = @ \cup Truncation(cut)]
  /\ UNCHANGED <<aborted, target, hops, rendered, answer>>

\* The pool rejects an aborted job at once.
StaticExtracted(kind) ==
  /\ stage = "extracting"
  /\ ~aborted
  /\ StaticDone(kind, {})

\* isCancellation(): a time-out of the pool, a full queue and a lost worker are
\* none.
StaticExtractionFails ==
  /\ stage = "extracting"
  /\ IF aborted THEN Throws ELSE StaticDone("empty", {"static_extraction_failed"})

-----------------------------------------------------------------------------
(* The browser *)

\* Mutant: the URL the browser ended at is forgotten.
AtStaticUrl(url, text, warnings) ==
  Record(page.finalUrl, text, page.status, "browser", page.warnings \cup warnings)

RenderedRecord(url, text, warnings) ==
  Record(url, text, page.status, "browser",
         page.warnings \cup warnings
           \cup (IF NeedsBrowser(text.kind) THEN {"browser_extraction_weak"} ELSE {}))

\* The text of the browser's body, or what was extracted from its HTML.
ReturnRendered(url, body, extracted) ==
  IF extracted.kind # "empty"
  THEN Returns(RenderedRecord(url, extracted, {}))
  ELSE Returns(RenderedRecord(url, body, {"browser_html_extraction_empty"}))

\* render() resolves without HTML, or with a page small enough to be extracted
\* at once. An abort may come too late to stop it.
Renders(url, body, html) ==
  /\ stage = "rendering"
  /\ IF url \in Blocked THEN ThrowsBlocked
     ELSE IF html = "none" THEN Returns(RenderedRecord(url, Text(body, url), {}))
     ELSE ReturnRendered(url, Text(body, url), Text(html, url))

RendersLarge(url, body) ==
  /\ stage = "rendering"
  /\ url \notin Blocked
  /\ stage' = "reextracting"
  /\ rendered' = [url |-> url, text |-> Text(body, url)]
  /\ UNCHANGED <<aborted, target, hops, page, answer>>

\* Mutant: a browser that fails fails the fetch.
StaticResultLost == Throws

\* the catch clause of fetchWithBrowserFallback, the target not being blocked
StaticResultKept ==
  IF aborted THEN Throws
  ELSE Returns([page EXCEPT !.warnings = @ \cup {"browser_failed"}])

\* render() rejects: launch, navigation, a full queue, a crash, the time-out.
RenderFails ==
  /\ stage = "rendering"
  /\ StaticResultKept

RenderedExtracted(kind) ==
  /\ stage = "reextracting"
  /\ ~aborted
  /\ ReturnRendered(rendered.url, rendered.text, Text(kind, rendered.url))

RenderedExtractionFails ==
  /\ stage = "reextracting"
  /\ IF aborted THEN Throws
     ELSE Returns(RenderedRecord(rendered.url, rendered.text,
                                 {"browser_html_extraction_failed"}))

-----------------------------------------------------------------------------
Abort ==
  /\ stage # "done"
  /\ ~aborted
  /\ aborted' = TRUE
  /\ UNCHANGED <<stage, target, hops, page, rendered, answer>>

Network ==
  \/ \E resolves \in BOOLEAN : Checked(resolves) \/ Lookup(resolves)
  \/ \E url \in Urls, kind \in Kinds : WebFetchAnswers(url, kind)
  \/ \E cancellation \in BOOLEAN : WebFetchThrows(cancellation)
  \/ \E location \in Urls : Redirected(location)
  \/ \E status \in {"ok", "error"} : Responds(status)
  \/ NetworkFails

Extraction ==
  \/ \E kind \in Kinds : SmallBody(kind) \/ StaticExtracted(kind) \/ RenderedExtracted(kind)
  \/ \E cut \in BOOLEAN : LargeBody(cut)
  \/ StaticExtractionFails \/ RenderedExtractionFails

Browser ==
  \/ \E url \in Urls, body \in Kinds, html \in Kinds \cup {"none"} : Renders(url, body, html)
  \/ \E url \in Urls, body \in Kinds : RendersLarge(url, body)
  \/ RenderFails

Next == Begin \/ Network \/ Extraction \/ Browser \/ Abort

Spec == Init /\ [][Next]_vars

\* Lookups, the network, the hook, the pool and the browser answer or fail in
\* the end: each has a time-out of its own, the pool's and the browser's calls
\* are shown to end in their modules.
Due == Network \/ Extraction \/ Browser

FairSpec == Spec /\ WF_vars(Due)

-----------------------------------------------------------------------------
(* Properties *)

FetchTypeOK ==
  /\ stage \in Stage
  /\ aborted \in BOOLEAN
  /\ target \in Urls
  /\ hops \in 0..MaxRedirects
  /\ page.warnings \subseteq Warnings /\ answer.page.warnings \subseteq Warnings
  /\ (stage = "done") <=> (answer.outcome # "none")

Answered == answer.outcome \in {"success_with_content", "success_empty", "http_error"}

\* A page that is handed over has the text of the URL it is said to be of, and
\* that is not one the call must not reach, whichever of the hook, the redirects,
\* the extraction and the browser it came through. It counts as content only if
\* it is no shell and the server did not answer with an error.
AnswerAgrees ==
  Answered =>
    /\ answer.page.finalUrl \in Urls \ Blocked
    /\ answer.page.content.from \in {None, answer.page.finalUrl}
    /\ answer.outcome = "success_with_content" =>
         answer.page.status # "error" /\ ~Weak(answer.page.content.kind)

\* What went wrong on the way is among its warnings: a WebFetch page that was
\* too weak, a static extraction that failed before the browser took over, a
\* browser that was needed and failed.
WarningsCarried ==
  stage # "done" /\ Answered' =>
    /\ page.warnings \subseteq answer'.page.warnings
    /\ answer'.page.mode = "browser" => NeedsBrowser(page.content.kind)
    /\ answer'.page.mode = "static" /\ page.finalUrl # None =>
         "browser_failed" \in answer'.page.warnings

PageIsHonest == [](FetchTypeOK /\ AnswerAgrees) /\ [][WarningsCarried]_vars

\* A page read over the network is not lost because the browser, its pool or
\* the extraction of what it rendered fails (README.md:521-522, "the static
\* result and the browser failure warning remain distinguishable"): the answer
\* is that page or a rendered one, unless the browser was led to a blocked URL
\* or the caller aborted.
StaticPageSurvives ==
  [][page.finalUrl # None /\ stage' = "done" =>
       \/ aborted
       \/ answer'.error = "blocked"
       \/ /\ Answered'
          /\ answer'.page.status = page.status
          /\ \/ answer'.page.mode = "browser"
             \/ answer'.page.content = page.content]_vars

\* After the signal the caller is thrown its reason, or gets a page that was
\* ready, never a failure that looks like the network's; and the signal starts
\* no render: it is looked at again between the static page and the browser.
AbortIsTheEnd ==
  [][aborted => /\ stage' = "rendering" => stage = "rendering"
                /\ answer'.outcome = "transport_error" => answer' = answer]_vars

\* Every fetch ends, however the hook, the hops, the pool and the browser fail.
EveryFetchEnds == (stage # "new") ~> (stage = "done")

-----------------------------------------------------------------------------
(* The inductive invariant behind the three safety properties *)

Texts == [kind : Kinds, from : Urls \cup {None}]

Records ==
  [finalUrl : Urls \cup {None}, content : Texts, status : {"none", "ok", "error"},
   mode : {"static", "browser"}, warnings : SUBSET Warnings]

InBrowser == stage \in {"rendering", "reextracting"}

\* A hop past its lookup is allowed; there is a static page only while the
\* browser is asked, and then it is one the call may hand over as it is; the
\* hook is called before anything is known of the page.
PipelineInv ==
  /\ FetchTypeOK /\ AnswerAgrees
  /\ page \in Records
  /\ rendered \in [url : Urls \cup {None}, text : Texts]
  /\ stage \in {"request", "body", "extracting"} => target \notin Blocked
  /\ stage \in {"new", "check", "web"} => page = NoPage
  /\ ~InBrowser => page.finalUrl = None
  /\ InBrowser =>
       /\ page.finalUrl \in Urls \ Blocked
       /\ page.content.from \in {None, page.finalUrl}
       /\ NeedsBrowser(page.content.kind)
  /\ stage = "reextracting" =>
       rendered.url \in Urls \ Blocked /\ rendered.text.from \in {None, rendered.url}
=============================================================================
