------------------------------- MODULE CcdFile -------------------------------
(***************************************************************************)
(* The CCD file of one user, line by line.  Four parts of the program      *)
(* write it without knowing of each other: the switch (disable), the fixed *)
(* address, the iroute block of each peer, and the push-route block.  Each *)
(* reads the text, changes its own part and writes the whole file; a write *)
(* that is cut off leaves the beginning of the new text.                   *)
(***************************************************************************)
EXTENDS Naturals, Sequences, SequencesExt, FiniteSets, Subsequences

CONSTANTS
    Sites,       \* the peers whose blocks may be in the file
    Mesh,         \* the name of the push-route block
    Addresses, Routes,
    MaxTorn       \* bound: writes that are cut off

ASSUME CcdAssumption == Mesh \notin Sites /\ IsFiniteSet(Routes) /\ MaxTorn \in Nat

VARIABLES
    text,         \* the lines
    there,        \* whether the file exists
    meant,        \* history: what each writer has put there last
    torn          \* history: writes that were cut off since the file was new

ccdVars == <<text, there, meant, torn>>

Disable     == [kind |-> "disable"]
Address(a)  == [kind |-> "address", is |-> a]
Opening(b)    == [kind |-> "begin", of |-> b]
Closing(b)      == [kind |-> "end", of |-> b]
Route(b, r) == [kind |-> "route", of |-> b, to |-> r]

Own(line) == line.kind \in {"disable", "address"}
BlockNames == Sites \cup {Mesh}
Lines == {Disable} \cup {Address(a) : a \in Addresses}
         \cup {Opening(b) : b \in BlockNames} \cup {Closing(b) : b \in BlockNames}
         \cup {Route(b, r) : b \in BlockNames, r \in Routes}

CcdInit ==
    /\ text = <<>> /\ there = FALSE /\ torn = 0
    /\ meant = [off |-> FALSE, at |-> {}, to |-> [b \in BlockNames |-> {}]]

(***************************************************************************)
(* What the writers make of the text                                       *)
(***************************************************************************)

\* The lines from a begin marker to its end marker, or to the end of the file.
Skipped(t, b) ==
    {i \in DOMAIN t :
        \E s \in 1 .. i : /\ t[s] = Opening(b)
                          /\ \A e \in s .. i - 1 : t[e] # Closing(b)}
    \cup {i \in DOMAIN t : t[i] = Closing(b)}

Without(t, b) == Subsequence(t, DOMAIN t \ Skipped(t, b))

\* The sorted networks in their markers; no networks, no block.
BlockOf(b, routes) ==
    IF routes = {} THEN <<>>
    ELSE <<Opening(b)>> \o SetToSeq({Route(b, r) : r \in routes}) \o <<Closing(b)>>

\* Mutant: a block that is there already is not taken out first.
MergedAgain(t, b, routes) == IF routes = {} THEN Without(t, b) ELSE t \o BlockOf(b, routes)

\* merge_peer_block_into_ccd: the block goes before the push routes, if there are any.
Merged(t, b, routes) ==
    LET base == Without(t, b)
        mesh == {i \in DOMAIN base : base[i] = Opening(Mesh)}
    IN  IF mesh = {} THEN base \o BlockOf(b, routes)
        ELSE LET m == CHOOSE i \in mesh : \A j \in mesh : i <= j
             IN  SubSeq(base, 1, m - 1) \o BlockOf(b, routes) \o SubSeq(base, m, Len(base))

\* merge_mesh_peer_push_routes_into_ccd: at the end.
Rewritten(t, routes) == Without(t, Mesh) \o BlockOf(Mesh, routes)

\* Mutant: the line is put at the end of the file.
LineSwitchedLast(t, off) ==
    Subsequence(t, {i \in DOMAIN t : t[i] # Disable}) \o (IF off THEN <<Disable>> ELSE <<>>)

\* _update_ccd_disable
LineSwitched(t, off) ==
    (IF off THEN <<Disable>> ELSE <<>>) \o Subsequence(t, {i \in DOMAIN t : t[i] # Disable})

\* _replace_ccd_ifconfig_push: the first address line is replaced, others are
\* dropped; without one, the new line goes to the front, behind disable.
Readdressed(t, a) ==
    LET old == {i \in DOMAIN t : t[i].kind = "address"}
        first == CHOOSE i \in old : \A j \in old : i <= j
    IN  IF old # {}
        THEN Subsequence([t EXCEPT ![first] = Address(a)], (DOMAIN t \ old) \cup {first})
        ELSE InsertAt(t, IF t # <<>> /\ t[1] = Disable THEN 2 ELSE 1, Address(a))

(***************************************************************************)
(* The writers                                                             *)
(***************************************************************************)

WriteText(new) ==
    /\ there' = TRUE
    /\ \/ text' = new /\ UNCHANGED torn
       \/ /\ torn < MaxTorn
          /\ \E n \in 0 .. Len(new) - 1 : text' = SubSeq(new, 1, n)
          /\ torn' = torn + 1

\* UserService._write_ccd, for a new user, over whatever is there.
Allot(a) ==
    /\ WriteText(<<Address(a)>>)
    /\ meant' = [off |-> FALSE, at |-> {a}, to |-> [b \in BlockNames |-> {}]]

SwitchLine(off) ==
    /\ there \/ off
    /\ WriteText(LineSwitched(text, off))
    /\ meant' = [meant EXCEPT !.off = off]

\* change_group makes the file if there is none.
MoveAddress(a) ==
    /\ WriteText(Readdressed(text, a))
    /\ meant' = [meant EXCEPT !.at = {a}]

MergeBlock(b, routes) ==
    /\ there
    /\ WriteText(Merged(text, b, routes))
    /\ meant' = [meant EXCEPT !.to[b] = routes]

\* A text that does not change is not written.
RewriteMesh(routes) ==
    /\ there /\ Rewritten(text, routes) # text
    /\ WriteText(Rewritten(text, routes))
    /\ meant' = [meant EXCEPT !.to[Mesh] = routes]

Unlink ==
    /\ there
    /\ text' = <<>> /\ there' = FALSE /\ torn' = 0
    /\ meant' = [off |-> FALSE, at |-> {}, to |-> [b \in BlockNames |-> {}]]

CcdNext ==
    \/ \E a \in Addresses : Allot(a) \/ MoveAddress(a)
    \/ \E off \in BOOLEAN : SwitchLine(off)
    \/ \E routes \in SUBSET Routes :
          RewriteMesh(routes) \/ \E b \in Sites : MergeBlock(b, routes)
    \/ Unlink

CcdSpec == CcdInit /\ [][CcdNext]_ccdVars

(***************************************************************************)
(* Properties                                                              *)
(***************************************************************************)

CcdTypeOK ==
    /\ text \in Seq(Lines) /\ there \in BOOLEAN /\ torn \in 0 .. MaxTorn
    /\ ~there => text = <<>>

\* Whatever writers have met in the file and wherever a write was cut off, no
\* later rewriting of a block takes the user's disable line or address with
\* it, although a block whose end marker is missing reaches to the end of the
\* file (peer_instance/ccd_merge.py, UserService._update_ccd_disable).
OwnLinesSafe ==
    \A b \in BlockNames : \A i \in Skipped(text, b) : ~Own(text[i])

\* As long as no write was cut off, every part is there, in one piece and once, as its
\* writer meant it, and nothing else: the user's own lines first, the push routes last.
OwnMeant == (IF meant.off THEN <<Disable>> ELSE <<>>) \o SetToSeq({Address(a) : a \in meant.at})
BlockMeant(b) == BlockOf(b, meant.to[b])

PartsAsMeant ==
    there /\ torn = 0 =>
        /\ \A i, j \in DOMAIN text : text[i] = text[j] => i = j
        /\ ToSet(text) = ToSet(OwnMeant) \cup UNION {ToSet(BlockMeant(b)) : b \in BlockNames}
        /\ IsPrefix(OwnMeant, text)
        /\ \A b \in BlockNames : \E i \in 0 .. Len(text) - Len(BlockMeant(b)) :
             /\ SubSeq(text, i + 1, i + Len(BlockMeant(b))) = BlockMeant(b)
             /\ b = Mesh => i = Len(text) - Len(BlockMeant(b))
=============================================================================
