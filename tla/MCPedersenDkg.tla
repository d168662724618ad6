--------------------------- MODULE MCPedersenDkg ----------------------------
(***************************************************************************)
(* Instances of PedersenDkg for TLC.  Four parties tolerate one fault.     *)
(***************************************************************************)
EXTENDS PedersenDkg

\* Party 4 deals shares that fail to nobody, to one party or to both others,
\* and its share for party 1 may be that of another party.
FaultyFour ==
  {[invalid |-> {}, astray |-> {}],
   [invalid |-> {<<4, 1>>}, astray |-> {}],
   [invalid |-> {<<4, 1>>, <<4, 2>>, <<4, 3>>}, astray |-> {}],
   [invalid |-> {<<4, 3>>}, astray |-> {<<4, 1>>}]}

\* Parties 2 and 3 have something to complain about.
FaultyForTwo == {[invalid |-> {<<4, 2>>, <<4, 3>>}, astray |-> {}]}
=============================================================================
