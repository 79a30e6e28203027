-------------------------- MODULE MCDecisionParsing --------------------------
(* The parser over the answers of MCAnswers.                               *)
EXTENDS DecisionParsing, MCAnswers
=============================================================================
