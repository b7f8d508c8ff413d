--------------------------- MODULE MCGlobalBoost ---------------------------
(***************************************************************************)
(* Specifications of global boosts and environments for the runs about     *)
(* GlobalBoost.                                                            *)
(***************************************************************************)
EXTENDS GlobalBoost

OneSpec == {[sel |-> {"on"}, tmpl |-> 1]}
ThreeSpecs == {[sel |-> {"on"}, tmpl |-> 1], [sel |-> {"on"}, tmpl |-> 2],
               [sel |-> {"off"}, tmpl |-> 1]}

\* Users who leave labels and selectors alone, users who change them.
TwoEnvironments ==
    {{"create", "retemplate", "own", "disown", "touch"},
     {"create", "reselect", "relabel", "own", "disown", "terminate"}}
DeletionWithFaults == {{"create", "delete", "own", "fail", "lost"}}
=============================================================================
