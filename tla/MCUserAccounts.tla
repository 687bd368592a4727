--------------------------- MODULE MCUserAccounts ---------------------------
(***************************************************************************)
(* Instances of UserAccounts for TLC: two users, the root group and one    *)
(* group inside it.                                                        *)
(***************************************************************************)
EXTENDS UserAccounts, TLC

CONSTANTS c1, c2, u1, u2, root, dev, pool, low

OneCaller  == {c1}
TwoCallers == {c1, c2}
TwoUsers   == {u1, u2}
TwoGroups  == {root, dev}
Nets       == {pool, low}
HostsOf    == pool :> {1, 2} @@ low :> {1}

NoFaults == {}

\* Calls follow one another, except that creates and the revocations of the
\* certificates page overlap as they like.
Concurrent == {"create", "revoke"}

\* A failure leaves at most one user or group unsettled or unrevoked, three certificates
\* are issued at most, and a group just disabled is not followed further.
FewFailures ==
    /\ Cardinality(unsettled) + Cardinality(unrevoked) <= 1
    /\ Latest(u1) + Latest(u2) <= 3
    /\ \A g \in TwoGroups : group[g].exists => group[g].active

Symmetry == Permutations(TwoUsers) \cup Permutations(TwoCallers)
=============================================================================
