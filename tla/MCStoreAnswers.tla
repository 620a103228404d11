--------------------------- MODULE MCStoreAnswers ---------------------------
(***************************************************************************)
(* An instance of StoreAnswers for TLC.                                    *)
(***************************************************************************)
EXTENDS StoreAnswers

CONSTANTS a, b, c

\* Every key and every value is valid UTF-8.
KeysSurvive == [k \in Keys |-> k]
AllSurviveJSON == [v \in Values |-> v]
=============================================================================
