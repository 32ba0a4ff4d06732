------------------------------- MODULE MCSmoke -------------------------------
(***************************************************************************)
(* Small instances of Smoke for TLC.                                       *)
(***************************************************************************)
EXTENDS MCSync, Smoke

\* The deal of a smoke test (d2, with its own account) beside a real one that is
\* edited to something that cannot be mapped.
TestEvents == {Event(d2, 1, a2, x, "good")}
SmokeDeal == TestEvents \cup {Event(d1, 1, a1, x, "good"), Event(d1, 2, a1, x, "unmappable")}
=============================================================================
