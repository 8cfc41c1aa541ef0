------------------------------- MODULE MCFCyc -------------------------------
(* Instances of FCyc for TLC. *)
EXTENDS FCyc

par(k, max, comp, cache) ==
  [kbest |-> k, maxsamples |-> max, compensate |-> comp, clear_cache |-> cache]

Fsecs == par(2, 4, TRUE, TRUE)

\* As at first, as init_fsecs leaves them, and with fewer samples than kbest.
SmallParameters ==
  {par(3, 4, FALSE, FALSE), Fsecs, par(2, 1, TRUE, FALSE),
   par(1, 3, FALSE, TRUE)}

\* Two plausible windows, and one with too few cycles.
SmallEvents == {[cycles |-> 6, ticks |-> 1], [cycles |-> 8, ticks |-> 2],
                [cycles |-> 2, ticks |-> 1]}
=============================================================================
