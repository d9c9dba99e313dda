------------------------ MODULE MCGovernanceBrowser ------------------------
(* A record in each of two scopes, one disabled and one deleted; two       *)
(* proposals of one scope in two combinations of states; a user who visits *)
(* one place, with at most two requests in flight when the user acts.      *)
EXTENDS GovernanceBrowser

CONSTANTS s1, s2, r1, r2, p1, p2
MCHome == [i \in Items |-> IF i = r2 THEN s2 ELSE s1]
States(first, second) ==
    [i \in Items |-> CASE i = r1 -> "disabled" [] i = r2 -> "deleted" [] i = p1 -> first [] i = p2 -> second]
MCSituations == {[places |-> {"privacy"}, st |-> States("pending", "applied")],
                 [places |-> {"records"}, st |-> States("pending", "applied")],
                 [places |-> {"reviews"}, st |-> States("pending", "expired")],
                 [places |-> {"reviews"}, st |-> States("approved", "applied")]}
=============================================================================
