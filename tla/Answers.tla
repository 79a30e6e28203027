------------------------------- MODULE Answers -------------------------------
(* What a model's answer may say, as tokens, and the containers that the   *)
(* parsers of src/runtime/ask-real-claude.ts and decision-protocol.ts read *)
(* actions from (see DecisionParsing).                                     *)
EXTENDS Sequences

CONSTANTS
  SearchTexts, Links,   \* the queries, the URLs that parse
  BadLink,              \* a URL that does not parse
  ArraysOf(_),          \* what may stand in each container of actions
  None

Terminal == {"finalize", "stop", "summarize_and_stop"}
DECISIONS == {"continue_search", "continue_fetch"} \cup Terminal

\* The other things a decision or a status may say.
OtherDecisions == {"continue", "search_and_fetch", "maybe"}
Statuses == {"continue", "need_fetch", "search_and_fetch", "done"}

\* searchActions and fetchActions are the two of the output contract.
Containers ==
  {"searchActions", "fetchActions", "requiredSearches", "recommendedNextActions",
   "nextActions", "radarActions", "combinedActions"}

\* What an action says it is, in its field action or else in type; a query, a
\* URL and a context query.
Item(action, type, query, url, context) ==
  [action |-> action, type |-> type, query |-> query, url |-> url, context |-> context]
Says(item) == IF item.action # None THEN item.action ELSE item.type

Absent == [array |-> FALSE, present |-> FALSE, items |-> <<>>]
NotArray == [array |-> FALSE, present |-> TRUE, items |-> <<>>]
Array(items) == [array |-> TRUE, present |-> TRUE, items |-> items]

\* A field is absent or a string, whatever the string.
ActionItem ==
  [action : STRING \cup {None}, type : STRING \cup {None},
   query : SearchTexts \cup {None}, url : Links \cup {BadLink, None},
   context : SearchTexts \cup {None}]

ASSUME AnswersAssumption ==
  /\ None \notin STRING \cup DECISIONS \cup OtherDecisions \cup Statuses
  /\ None \notin SearchTexts \cup Links
  /\ \A c \in Containers : \A actions \in ArraysOf(c) :
       \/ actions = NotArray
       \/ actions = Array(actions.items) /\ actions.items \in Seq(ActionItem)
=============================================================================
