--------------------------- MODULE MCRunAdmission ---------------------------
(* Finite instances of RunAdmission for TLC. *)
EXTENDS RunAdmission

CONSTANTS r1, r2, r3, b1, b2

\* Two requests are retries of one another, the third reuses the key for
\* something else.
Bodies == [r \in Requests |-> IF r = r3 THEN b2 ELSE b1]
=============================================================================
