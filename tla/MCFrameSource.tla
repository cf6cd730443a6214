---------------------------- MODULE MCFrameSource ----------------------------
EXTENDS FrameSource, TLC

CONSTANTS s1, s2, a1, a2, b1

\* Game a runs as process a1, then perhaps as a2 (or the other way round); game
\* b as b1.
MCAppOf == a1 :> "a" @@ a2 :> "a" @@ b1 :> "b"

\* Surfaces, and the processes of a game, differ by what they queue only.
Alike == Permutations(Keys) \cup Permutations({a1, a2})
=============================================================================
