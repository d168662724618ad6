------------------------- MODULE MCProactiveRefresh -------------------------
(***************************************************************************)
(* Instances of ProactiveRefresh for TLC: three holders, of whom the first *)
(* and the third draw the same slope, so that leaving out the own          *)
(* contribution goes unnoticed until one of them restarts and draws anew.  *)
(***************************************************************************)
EXTENDS ProactiveRefresh

ThreeSecrets == <<3, 1, 6>>
ThreeDealt == {<<1, 2, 5>>}
ThreeSlopes == << <<1, 4>>, <<2>>, <<1>> >>
ThreeManagerSlopes == <<2, 3, 3>>
ThreeLtKeys == <<2, 4, 6>>
=============================================================================
