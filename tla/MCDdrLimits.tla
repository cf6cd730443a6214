----------------------------- MODULE MCDdrLimits -----------------------------
EXTENDS DdrLimits

\* Two loads of the GPU: a low one that asks for the lowest level of the
\* table and a high one that asks for the highest.
MCCurve == [g \in {"low", "high"} |-> IF g = "low" THEN 1 ELSE MaxLevel]

\* A profile without limits and one that asks for a floor over the low end.
MCProfiles == {[min |-> 1, max |-> MaxLevel], [min |-> 2, max |-> MaxLevel]}
=============================================================================
