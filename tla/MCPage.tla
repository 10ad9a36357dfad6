-------------------------------- MODULE MCPage --------------------------------
(* Two pages; a clock of three instants a second; a demo of two orders,         *)
(* the later of them a second old.  Local clocks are a second ahead, and are    *)
(* set back in the middle.                                                      *)
EXTENDS Page, TLC

CONSTANTS p1, p2

MCPages      == {p1, p2}
Symmetry     == Permutations(MCPages)
TwoOrders    == <<5, 3>>
AllCommands  == {"submit_order", "seed_demo", "reset"}

\* Three commands and no loss, or two commands and a loss.
FewSteps == commands + losses <= 3
=============================================================================
