------------------------- MODULE MCTerminalPublication -------------------------
(* Model-checking instances of TerminalPublication. *)
EXTENDS TerminalPublication, TLC

CONSTANTS p, q, c1, c2

\* The owner's replica and another one; two clients of the owner's replica would
\* differ in nothing, so one of two clients is never sent there.
TwoClients == (c1 :> {p, q}) @@ (c2 :> {q})
OneClient == c1 :> {p, q}
=============================================================================
