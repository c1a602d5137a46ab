---- MODULE MCProactiveGate ----
EXTENDS ProactiveGate, TLC

CONSTANTS a1, a2, k1, k2

Ask(a, k, s, l) == [agent |-> a, key |-> k, severity |-> s, listed |-> l]

\* Emissions of the concurrent run: one subject, every severity.
SameSubject ==
  {Ask(a1, k1, "warn", FALSE),
   Ask(a1, k1, "critical", TRUE), Ask(a1, k1, "critical", FALSE),
   Ask(a1, k2, "critical", TRUE)}

\* Emissions of two agents on two subjects, no critical without
\* a whitelisted reason.
Honest ==
  {Ask(a1, k1, "critical", TRUE), Ask(a1, k2, "info", FALSE),
   Ask(a1, k2, "critical", TRUE), Ask(a2, k1, "warn", FALSE)}

\* Emissions without a whitelisted reason, beside an ordinary warning.
Overclaimed ==
  {Ask(a1, k1, "critical", FALSE), Ask(a2, k2, "warn", FALSE)}

Symmetry == Permutations(Jobs)
====
