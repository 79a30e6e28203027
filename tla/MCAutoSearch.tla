---------------------------- MODULE MCAutoSearch ----------------------------
(***************************************************************************)
(* bing and dogpile with their retry, 360 with its two pages and an engine *)
(* that heeds nothing; one scope is larger than the budget of two calls.   *)
(***************************************************************************)
EXTENDS AutoSearch

CONSTANTS bing, x360, dogpile, foreign

EngineOrder == <<bing, x360, foreign, dogpile>>

ScopeSets == {{}, {bing, foreign}, {x360, dogpile}, Engines}

EngineProfiles == [e \in Engines |->
  CASE e = bing -> [kind |-> "fallback", steps |-> 2, retries |-> 1, blunt |-> FALSE]
    [] e = x360 -> [kind |-> "chain", steps |-> 2, retries |-> 0, blunt |-> TRUE]
    [] e = dogpile -> [kind |-> "single", steps |-> 1, retries |-> 1, blunt |-> TRUE]
    [] e = foreign -> [kind |-> "foreign", steps |-> 1, retries |-> 0, blunt |-> FALSE]]
=============================================================================
