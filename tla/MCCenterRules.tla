--------------------------- MODULE MCCenterRules ---------------------------
(***************************************************************************)
(* Instances of CenterRules: one caller with failures and crashes over the *)
(* rules of a group and of the peers, and two callers with no failure at   *)
(* all.                                                                    *)
(***************************************************************************)
EXTENDS CenterRules, TLC

CONSTANTS c1, c2, n1, n2, v1, v2, group, tag, peers

OneCaller   == {c1}
TwoCallers  == {c1, c2}
OneName     == {n1}
TwoNames    == {n1, n2}
OneContent  == {v1}
TwoContents == {v1, v2}
AllOwners   == {group, tag, peers}

GroupAndPeers == n1 :> group @@ n2 :> peers
GroupOnly     == n1 :> group

NoFaults  == {}

\* No user is created: nothing but the order of two refreshes can part kernel and
\* database.
NoUserCreated == \A c \in Callers : task[c] # "created"
=============================================================================
