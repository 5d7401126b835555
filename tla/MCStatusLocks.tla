---------------------------- MODULE MCStatusLocks ----------------------------
EXTENDS StatusLocks

MCRegsOf ==
  [c \in Cands |-> {[id |-> c, paths |-> << c, "x" >>, channels |-> << << "p" >> >>]}]

\* Wanted with a threshold of two exits, and not wanted with a threshold of one.
MCConfigs == {[enabled |-> Cands, autostart_all |-> TRUE, threshold |-> 2, window |-> 0],
              [enabled |-> {}, autostart_all |-> FALSE, threshold |-> 1, window |-> 0]}
=============================================================================
