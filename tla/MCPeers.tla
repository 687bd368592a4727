------------------------------- MODULE MCPeers -------------------------------
(***************************************************************************)
(* Peers for TLC: the rows and what is derived from them at the centre     *)
(* (PeerSites), one user's CCD file line by line (CcdFile), the host of    *)
(* one peer (PeerClient), and the working copy of one peer's chain         *)
(* (RemoteChain).  The four share no variable, so a behaviour follows one  *)
(* of them, chosen at the start.                                           *)
(***************************************************************************)
EXTENDS PeerSites, CcdFile, PeerClient, RemoteChain, TLC

CONSTANTS p1, p2, u1, u2, g1, g2, lan, t1, t2, r1, r2

TwoPeers == {p1, p2}
TwoUsers == {u1, u2}
TwoTeams == {g1, g2}
OneNet   == {lan}
TwoTasks == {t1, t2}
TwoRules == {r1, r2}

\* Fetches overlap with fetches, and the operations that look at
\* _remote_push_running_peer with each other; the rest run alone.
Guarding == {{"fetch", "pull"}, {"guarded"}}

VARIABLE follow

peersVars == <<siteVars, ccdVars, hostVars, chainVars, follow>>

PeersInit ==
    /\ follow \in {"sites", "file", "host", "chain"}
    /\ SiteInit /\ CcdInit /\ HostInit /\ ChainInit
    /\ follow # "host" => official /\ soft = "ok"

PeersNext ==
    /\ \/ follow = "sites" /\ SiteNext /\ UNCHANGED <<ccdVars, hostVars, chainVars>>
       \/ follow = "file" /\ CcdNext /\ UNCHANGED <<siteVars, hostVars, chainVars>>
       \/ follow = "host" /\ HostNext /\ UNCHANGED <<siteVars, ccdVars, chainVars>>
       \/ follow = "chain" /\ ChainNext /\ UNCHANGED <<siteVars, ccdVars, hostVars>>
    /\ UNCHANGED follow

PeersSpec == PeersInit /\ [][PeersNext]_peersVars

PeersTypeOK == SiteTypeOK /\ CcdTypeOK /\ HostTypeOK /\ ChainTypeOK

\* The two tasks may be exchanged; the second peer may not (OneTrouble).
Symmetry == Permutations(TwoTasks)

Piles == {k \in {"rules", "jumps", "nats"} : marks[k] = 2}

\* One store is left behind at a time and no user passed over; the second peer
\* is one fixed site, there or not.  On a host one kind of line piles up at a
\* time, and the profile's second place, a second profile and bad software go with
\* deletions that succeed; while the second place is in use the software is good, and
\* only the assembly, the dialog and the service's buttons are used.  What overlaps
\* at a chain does so before an append came after a failed flush.
OneTrouble ==
    /\ Cardinality(troubled) <= 1 /\ skipped = {}
    /\ Cardinality(Piles) <= 1
    /\ Piles # {} \/ verdict.slips # {} =>
         conf["other"] = 0 /\ unit.at # "other" /\ profile = 1 /\ soft = "ok"
    /\ conf["other"] # 0 \/ unit.at = "other" =>
         soft = "ok" /\ verdict.op \notin {"site", "remove"}
    /\ "unflushed" \in astray => Cardinality(Busy) <= 1
    /\ site[p2] \in {NoSite, [bound |-> u2, lan |-> {lan}, to |-> {}, open |-> TRUE]}
=============================================================================
