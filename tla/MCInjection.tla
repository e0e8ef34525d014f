---------------------------- MODULE MCInjection ----------------------------
(* Small instances of Injection for TLC.                                   *)
EXTENDS Injection

CONSTANTS a, b

\* The whole candidate, and one of its two files.
MCPlans == {{a}, {a, b}}

\* The first instance maps the whole candidate; a retried one may map less.
ShrinkingSpec == Init /\ wf[1].plan = {a, b} /\ [][Next]_vars
=============================================================================
