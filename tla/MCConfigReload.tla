---------------------------- MODULE MCConfigReload ---------------------------
(* The reload of the two files on a small instance for TLC. *)
EXTENDS ConfigReload

ThreeModes == {Balance, Powersave, "performance"}
Lines == <<Balance, "performance">>
\* One package follows the global mode, the other has its own.
OwnModes == <<[p \in {"p", "q"} |-> IF p = "p" THEN Balance ELSE "performance"],
              [p \in {"p", "q"} |-> IF p = "p" THEN "performance" ELSE Powersave]>>
\* The first version has no settings for one mode, the second for one mode only and none
\* of balance to fall back to.
TwoSettings == <<{Balance, Powersave}, {"performance"}>>
==============================================================================
