------------------------------ MODULE MCAnswers ------------------------------
(***************************************************************************)
(* In each container the actions that tell the ways through the parser     *)
(* apart: of the right kind and of the other, saying what they are or not, *)
(* complete, without their query or URL, with a URL that does not parse,   *)
(* a fetch that mentions a query as its context, a search that says it is  *)
(* a fetch.                                                                *)
(***************************************************************************)
EXTENDS Answers

CONSTANTS q1, q2, q3, link

QuerySet == {q1, q2, q3}
LinkSet == {link}

S == Item("search", None, q1, None, None)
F == Item(None, "fetch", None, link, None)
FetchWithContext == Item("fetch", None, None, link, q3)
Mislabelled == Item("fetch", None, q1, None, None)
Plain == Item(None, None, q2, None, None)
PlainFetch == Item(None, None, None, link, None)
TypedSearch == Item(None, "search", q1, link, None)
Empty == Item(None, None, None, None, None)
Unparsable == Item(None, None, None, BadLink, None)

Arrays(c) ==
  CASE c = "searchActions" ->
         {NotArray, Array(<<>>), Array(<<Plain>>), Array(<<S>>), Array(<<Plain, Empty>>),
          Array(<<Mislabelled>>)}
    [] c = "fetchActions" ->
         {NotArray, Array(<<>>), Array(<<PlainFetch>>), Array(<<FetchWithContext>>),
          Array(<<Empty, PlainFetch>>), Array(<<Unparsable>>),
          Array(<<TypedSearch, F>>)}
    [] c = "requiredSearches" -> {Array(<<Plain>>), Array(<<Empty>>)}
    [] c = "recommendedNextActions" -> {Array(<<S>>), Array(<<FetchWithContext>>)}
    [] c = "nextActions" ->
         {NotArray, Array(<<S>>), Array(<<F>>), Array(<<FetchWithContext, S>>)}
    [] c = "radarActions" -> {Array(<<S>>)}
    [] c = "combinedActions" -> {Array(<<S, F>>), Array(<<S>>), Array(<<FetchWithContext>>)}
=============================================================================
