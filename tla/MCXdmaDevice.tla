---------------------------- MODULE MCXdmaDevice ----------------------------
(***************************************************************************)
(* Small instances of XdmaDevice for TLC.                                  *)
(***************************************************************************)
EXTENDS XdmaDevice, TLC

CONSTANTS d1, d2, f1

\* BARs by number; 64-bit BARs leave gaps.
Layout(p) ==
  [i \in 0 .. 5 |-> IF \E k \in 1 .. Len(p) : p[k][1] = i
                    THEN (CHOOSE x \in {p[k] : k \in 1 .. Len(p)} : x[1] = i)[2]
                    ELSE "none"]

\* The first device is any of these boards: every kind of interrupt, every
\* choice of optional BARs, and a board without config BAR.  The second is a
\* plain one.
MCBoards(d) ==
  IF d = d1
    THEN {Board(Layout(<<<<0, "user">>, <<2, "config">>, <<4, "bypass">>>>),
                Engines, "msix"),
          Board(Layout(<<<<0, "user">>, <<1, "config">>>>), Engines, "msi"),
          Board(Layout(<<<<0, "config">>, <<2, "bypass">>>>), {"c2h"}, "legacy"),
          Board(Layout(<<<<0, "user">>>>), {}, "msix")}
    ELSE {Board(Layout(<<<<0, "config">>>>), {}, "legacy")}
=============================================================================
