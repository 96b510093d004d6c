----------------------------- MODULE MCToolCalls -----------------------------
(* One call at a time, running any of the programs. *)
EXTENDS ToolCalls

MCRetryAfters == {0, 3}

(* An exponent of 2. *)
MCInterval == [n \in 1 .. MaxElapsed + 3 |-> 2 ^ (n - 1)]
=============================================================================
