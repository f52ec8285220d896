------------------------- MODULE MC_PublicShareSQL -------------------------
(***************************************************************************)
(* Instantiation of PublicShareSQL for TLC.  alice owns a home resource;  *)
(* a project account owns a resource in the project space p1, whose admin  *)
(* group holds bob.  One share of another type (a user share of alice's,   *)
(* shared with bob) is already in oc_share.                                *)
(***************************************************************************)
EXTENDS PublicShareSQL

CONSTANTS alice, bob, projacct, home, proj, p1, pw1, t1, t2, t3,
          projacct2, proj2, p2

MCResOwner == (home :> alice) @@ (proj :> projacct)
MCProjectOf == (home :> None) @@ (proj :> p1)
MCProjectAdmins == p1 :> {bob}
MCTokenFor == <<t1, t2, t3>>
MCForeignRows ==
    << [type |-> "other", owner |-> alice, creator |-> alice, token |-> None,
        resource |-> home, hash |-> bob, exp |-> None, orphan |-> FALSE,
        internal |-> FALSE] >>
\* References by token only.
MCTokenRefs == {[by |-> "token", token |-> t] : t \in {t2, t3}}
\* References by id and by token.
MCAllRefs == Ref
\* References by the id of the foreign row, and by a public token.
MCForeignIdRefs == {[by |-> "id", id |-> 1], [by |-> "token", token |-> t2]}
MCSymmetry == Permutations(Workers)
\* No filter.
MCNoFilters == {{}}
\* No filter, or one resource filter on the project resource.
MCListFilterSets == {{}, {[type |-> "resource", val |-> proj]}}
\* A second project space p2, with no admin, holding proj2.
MCResOwnerTwoProjects == MCResOwner @@ (proj2 :> projacct2)
MCProjectOfTwoProjects == MCProjectOf @@ (proj2 :> p2)
MCProjectAdminsTwoProjects == MCProjectAdmins @@ (p2 :> {})
\* One list request filtering on a resource of each project space.
MCTwoProjectFilters ==
    {{[type |-> "resource", val |-> proj], [type |-> "resource", val |-> proj2]}}
==============================================================================
