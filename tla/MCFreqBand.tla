----------------------------- MODULE MCFreqBand -----------------------------
(* A small frequency table for FreqBand. *)
EXTENDS FreqBand

\* A frame-aware pass in two corridors, and passes on the load in and out of games.
Ask(fas, game, fmin, fmax, lo, hi) ==
    [fas |-> fas, game |-> game, fmin |-> fmin, fmax |-> fmax, lo |-> lo, hi |-> hi]

\* Frame-aware passes that ask for little and for much, load passes outside games,
\* and a corridor a configuration has put above the policy's highest frequency.
SomeAsks == {Ask(TRUE, TRUE, 1, 8, 1, 3), Ask(TRUE, TRUE, 1, 8, 5, 8),
             Ask(FALSE, FALSE, 1, 5, 2, 5), Ask(FALSE, TRUE, 9, 9, 9, 9)}

Vendor == {Band(1, 8), Band(1, 3)}
=============================================================================
