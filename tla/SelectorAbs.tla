----------------------------- MODULE SelectorAbs ------------------------------
(***************************************************************************)
(* What the selector promises about which addresses a group serves: a      *)
(* group serves exactly its bundled list or exactly one pinned address,    *)
(* and changes from one to the other in one step.  Measurements and        *)
(* failures never add, drop or reorder an address.                         *)
(***************************************************************************)
EXTENDS Sequences

CONSTANTS Groups, Ips, None, Bundled

VARIABLE serving     \* per group, the addresses traffic may go to

ListFor(g, ip) == IF ip = None THEN Bundled[g] ELSE <<ip>>

Init == serving = [g \in Groups |-> ListFor(g, None)]

Serve(g, ip) == serving' = [serving EXCEPT ![g] = ListFor(g, ip)]

Next == \E g \in Groups, ip \in Ips \cup {None} : Serve(g, ip)

Spec == Init /\ [][Next]_serving
=============================================================================
