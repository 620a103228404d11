--------------------------- MODULE MCLSMTreeStore ---------------------------
(***************************************************************************)
(* Instances of LSMTreeStore for TLC.                                      *)
(***************************************************************************)
EXTENDS LSMTreeStoreProperties

CONSTANTS a, b, c

\* Every key and every value is valid UTF-8.
KeysSurvive == [k \in Keys |-> k]
AllSurviveJSON == [v \in Values |-> v]

\* Key 1 is U+FFFD, which the JSON of key 2, "\xff", holds in its place.
BadKeyReplaced == [k \in Keys |-> IF k = 2 THEN 1 ELSE k]

\* The JSON of b holds U+FFFD where b is not valid UTF-8, which makes it c.
BadUTF8Replaced == [v \in Values |-> IF v = b THEN c ELSE v]

\* The line of b is too long for the scanner, whatever the key.
BIsTooLong == Keys \X {b}
=============================================================================
