------------------------- MODULE UserAccountsProofs -------------------------
(***************************************************************************)
(* User accounts, for any users, groups, subnets, callers and failures:    *)
(* type correctness, and that no address is given twice as long as no      *)
(* change of group overlaps another call.  As long as nothing overlaps but *)
(* creates and revocations: that CCD file, profile, certificates and       *)
(* user_count agree with the rows whenever no call is running.             *)
(***************************************************************************)
EXTENDS UserAccounts, SequenceTheorems, FiniteSetTheorems,
        WellFoundedInduction, TLAPS

USE AccountsAssumption

(***************************************************************************)
(* The smallest free address                                               *)
(***************************************************************************)

\* The initial segments 0 .. i of finite sets are well-founded by inclusion.
LEMMA LeastExists ==
  ASSUME NEW S \in SUBSET Nat, S # {}
  PROVE  \E x \in S : \A y \in S : x <= y
<1> DEFINE T == {0 .. i : i \in S}
           R == StrictSubsetOrdering(Nat)
           F == FiniteSubsetsOf(Nat)
<1>1. T \subseteq F
  <2>1. \A i \in S : IsFiniteSet(0 .. i) /\ 0 .. i \subseteq Nat
    BY FS_Interval
  <2> QED BY <2>1 DEF FiniteSubsetsOf
<1>2. \E x \in T : \A y \in T : <<y, x>> \notin R
  <2>1. IsWellFoundedOn(R, F)
    BY FS_StrictSubsetOrderingWellFounded
  <2>2. T # {}
    OBVIOUS
  <2> HIDE DEF T, R, F
  <2> QED BY <1>1, <2>1, <2>2, WFMin
<1>3. PICK i \in S : \A y \in T : <<y, 0 .. i>> \notin R
  BY <1>2
<1>4. ASSUME NEW j \in S, j < i PROVE FALSE
  <2>1. 0 .. j \subseteq 0 .. i /\ i \in 0 .. i /\ i \notin 0 .. j
    BY <1>4
  <2>2. <<0 .. j, 0 .. i>> \in R
    BY <2>1 DEF StrictSubsetOrdering
  <2> QED BY <2>2, <1>3
<1> QED BY <1>4

\* What _allocate_virtual_ip_for_group returns is an address of the subnet
\* that no CCD file has.
LEMMA LowestIsFree ==
  ASSUME NEW s \in Subnets, Free(s) # {}
  PROVE  /\ Lowest(Free(s)) \in Hosts[s] \ {0}
         /\ \A u \in Users : ccd[u].ip # Lowest(Free(s))
<1>1. Free(s) \in SUBSET Nat
  BY DEF Free
<1>2. Lowest(Free(s)) \in Free(s)
  BY <1>1, LeastExists DEF Lowest
<1> QED BY <1>2 DEF Free

(***************************************************************************)
(* Type correctness                                                        *)
(***************************************************************************)

\* What a call knows at each of its steps.
Knows(step, j) ==
    /\ step \notin {"idle", "group"} => j.user \in Users
    /\ step \in {"enter", "sign", "profile", "group"} => j.to \in Groups
    /\ step \in {"enter", "sign", "profile", "address", "newccd"} => j.op = "create"
    /\ step \in {"revoke", "crl"} => j.op \in {"delete", "revoke"}
    /\ step = "files" => j.op = "delete"
    /\ step = "move" => j.op = "change"
    /\ step = "serial" => j.op = "renew"
    /\ step = "reload" => j.op \in {"renew", "regenerate"}
    /\ step = "store" => j.op \in {"create", "delete", "change", "toggle", "renew",
                                   "regenerate"}
    /\ step = "counted" => j.due # <<>>
    /\ j.rec.status # "none" => j.rec.group \in Groups

CallTypes ==
    /\ pc \in [Callers -> Steps] /\ job \in [Callers -> Jobs]
    /\ lock \in Callers \cup {NoCaller}
    /\ \A c \in Callers : Knows(pc[c], job[c])

StoreTypes ==
    /\ record \in [Users -> Records]
    /\ group \in [Groups -> GroupRows]
    /\ ccd \in [Users -> Ccds] /\ ovpn \in [Users -> 0 .. MaxCerts]
    /\ index \in [Users -> Seq({"V", "R"})] /\ issued \subseteq Users
    /\ crl \subseteq Users \X (1 .. MaxCerts) /\ unrevoked \subseteq Users
    /\ unsettled \subseteq Users \cup Groups
    /\ \A u \in Users :
         /\ record[u].status # "none" => record[u].group \in Groups
         /\ Len(index[u]) <= MaxCerts
         /\ u \in issued => index[u] # <<>>

TypeInv == CallTypes /\ StoreTypes

\* The invariant proved implies the one stated.
LEMMA TypeInvIsStronger == TypeInv => TypeOK
  BY DEF TypeInv, CallTypes, StoreTypes, TypeOK

\* An idle caller's job.
LEMMA NoJobTypes == NoJob \in Jobs /\ Knows("idle", NoJob)
<1>1. NoRecord \in Records /\ NoRow \in GroupRows
  BY DEF NoRecord, Records, Live, NoRow, GroupRows
<1>2. NoJob \in Jobs
  BY <1>1, EmptySeq DEF NoJob, Jobs, Addresses
<1> QED BY <1>2 DEF Knows, NoJob, NoRecord

\* The first state.
LEMMA InitTypeInv == Init => TypeInv
<1> SUFFICES ASSUME Init PROVE TypeInv
  OBVIOUS
<1> USE DEF Init
<1>1. NoRecord \in Records /\ NoCcd \in Ccds
  BY DEF NoRecord, Records, Live, NoCcd, Ccds, Addresses
<1>2. CallTypes
  BY NoJobTypes DEF CallTypes, Steps
<1>3. group \in [Groups -> GroupRows]
  BY DEF GroupRows, NoRow
<1>4. record \in [Users -> Records] /\ ccd \in [Users -> Ccds]
  BY <1>1
<1>5. index \in [Users -> Seq({"V", "R"})] /\ ovpn \in [Users -> 0 .. MaxCerts]
  BY EmptySeq
<1>6. \A u \in Users : record[u].status = "none" /\ Len(index[u]) <= MaxCerts
  BY EmptySeq DEF NoRecord
<1>7. StoreTypes
  BY <1>3, <1>4, <1>5, <1>6 DEF StoreTypes
<1> QED BY <1>2, <1>7 DEF TypeInv

\* A step of one caller to another of its steps.
LEMMA Moves ==
  ASSUME CallTypes, NEW c \in Callers, NEW step \in Steps, NEW j \in Jobs,
         Knows(step, j),
         pc' = [pc EXCEPT ![c] = step], job' = [job EXCEPT ![c] = j],
         lock' \in Callers \cup {NoCaller}
  PROVE  CallTypes'
<1>1. pc' \in [Callers -> Steps] /\ job' \in [Callers -> Jobs]
  BY DEF CallTypes
<1>2. ASSUME NEW d \in Callers PROVE Knows(pc'[d], job'[d])
  <2>1. CASE d = c
    BY <2>1 DEF CallTypes
  <2>2. CASE d # c
    <3>1. pc'[d] = pc[d] /\ job'[d] = job[d]
      BY <2>2 DEF CallTypes
    <3> QED BY <3>1 DEF CallTypes
  <2> QED BY <2>1, <2>2
<1>3. \A d \in Callers : Knows(pc'[d], job'[d])
  BY <1>2
<1> QED BY <1>1, <1>3 DEF CallTypes, Knows

\* A call returns or raises.
LEMMA Leaves ==
  ASSUME CallTypes, NEW c \in Callers, Leave(c)
  PROVE  CallTypes'
<1>1. lock' \in Callers \cup {NoCaller}
  BY DEF CallTypes, Leave
<1>2. "idle" \in Steps
  BY DEF Steps
<1> QED BY <1>1, <1>2, NoJobTypes, Moves DEF Leave, Goto

\* A call begins.
LEMMA Begins ==
  ASSUME CallTypes, NEW c \in Callers, NEW step \in Steps, NEW j \in Jobs,
         Knows(step, j), Call(c, step, j), UNCHANGED lock
  PROVE  CallTypes'
<1>1. lock' \in Callers \cup {NoCaller}
  BY DEF CallTypes
<1> QED BY <1>1, Moves DEF Call, Goto

\* The address found is an address.
LEMMA LowestType ==
  ASSUME NEW s \in Subnets, Free(s) # {}
  PROVE  Lowest(Free(s)) \in Addresses
BY LowestIsFree DEF Addresses

\* Every way a call begins.
LEMMA StartTypeInv ==
  ASSUME TypeInv, NEW c \in Callers, Start(c)
  PROVE  TypeInv'
<1> USE DEF TypeInv
<1>u. ASSUME NEW g \in Groups, NEW s \in {"leave", "join"}
      PROVE  <<<<g, s>>>> \in Seq(Groups \X {"leave", "join"})
  OBVIOUS
<1>1. ASSUME NEW u \in Users, Delete(c, u) PROVE TypeInv'
  <2> DEFINE j == [NoJob EXCEPT !.op = "delete", !.user = u,
                              !.rec = [record[u] EXCEPT !.status = "deleted"],
                              !.due = <<<<record[u].group, "leave">>>>]
  <2>1. record[u] \in Records /\ record[u].group \in Groups
    BY <1>1 DEF Delete, StoreTypes, Live
  <2>2. [record[u] EXCEPT !.status = "deleted"] \in Records
    BY <2>1 DEF Records
  <2>3. <<<<record[u].group, "leave">>>> \in Seq(Groups \X {"leave", "join"})
    BY <2>1, <1>u
  <2>4. j \in Jobs
    BY <2>2, <2>3, NoJobTypes DEF Jobs, Calls
  <2>5. Knows("revoke", j)
    BY <2>1, NoJobTypes DEF Knows, NoJob, Records
  <2>6. CallTypes'
    BY <2>4, <2>5, <1>1, Begins DEF Delete, Steps
  <2>7. StoreTypes'
    BY <1>1 DEF Delete, StoreTypes, pki
  <2> QED BY <2>6, <2>7
<1>2. ASSUME NEW u \in Users, ToggleStatus(c, u) PROVE TypeInv'
  <2> DEFINE j == [NoJob EXCEPT !.op = "toggle", !.user = u,
                             !.rec = [record[u] EXCEPT !.status = Flip(@)]]
  <2>1. record[u] \in Records /\ record[u].group \in Groups
    BY <1>2 DEF ToggleStatus, StoreTypes, Live
  <2>2. [record[u] EXCEPT !.status = Flip(@)] \in Records
    BY <2>1 DEF Records, Flip, Live
  <2>4. j \in Jobs
    BY <2>2, NoJobTypes DEF Jobs, Calls
  <2>5. Knows("store", j)
    BY <2>1, NoJobTypes DEF Knows, NoJob, Records
  <2>6. CallTypes'
    BY <2>4, <2>5, <1>2, Begins DEF ToggleStatus, Steps
  <2>7. StoreTypes'
    BY <1>2 DEF ToggleStatus, StoreTypes, pki
  <2> QED BY <2>6, <2>7
<1>3. ASSUME NEW u \in Users, RegenerateOvpn(c, u) PROVE TypeInv'
  <2> DEFINE j == [NoJob EXCEPT !.op = "regenerate", !.user = u]
  <2>4. j \in Jobs
    BY NoJobTypes DEF Jobs, Calls
  <2>5. Knows("reload", j)
    BY NoJobTypes DEF Knows, NoJob, NoRecord
  <2>6. CallTypes'
    BY <2>4, <2>5, <1>3, Begins DEF RegenerateOvpn, Steps
  <2>7. StoreTypes'
    BY <1>3 DEF RegenerateOvpn, StoreTypes, pki
  <2> QED BY <2>6, <2>7
<1>4. ASSUME NEW u \in Users, RevokeCert(c, u) PROVE TypeInv'
  <2> DEFINE j == [NoJob EXCEPT !.op = "revoke", !.user = u]
  <2>4. j \in Jobs
    BY NoJobTypes DEF Jobs, Calls
  <2>5. Knows("revoke", j)
    BY NoJobTypes DEF Knows, NoJob, NoRecord
  <2>6. CallTypes'
    BY <2>4, <2>5, <1>4, Begins DEF RevokeCert, Steps
  <2>7. StoreTypes'
    BY <1>4 DEF RevokeCert, StoreTypes, pki
  <2> QED BY <2>6, <2>7
<1>5. ASSUME NEW u \in Users, Renew(c, u) PROVE TypeInv'
  <2> DEFINE j == [NoJob EXCEPT !.op = "renew", !.user = u]
  <2>4. j \in Jobs
    BY NoJobTypes DEF Jobs, Calls
  <2>5. Knows("serial", j)
    BY NoJobTypes DEF Knows, NoJob, NoRecord
  <2>6. CallTypes'
    BY <2>4, <2>5, <1>5, Begins DEF Renew, Steps
  <2>7. Append(index[u], "V") \in Seq({"V", "R"}) /\ Len(Append(index[u], "V")) <= MaxCerts
        /\ Append(index[u], "V") # <<>>
    BY <1>5, AppendProperties, LenProperties DEF Renew, StoreTypes, Latest
  <2>8. StoreTypes'
    BY <1>5, <2>7 DEF Renew, StoreTypes
  <2> QED BY <2>6, <2>8
<1>6. ASSUME NEW u \in Users, NEW g \in Groups, Create(c, u, g) PROVE TypeInv'
  <2> DEFINE j == [NoJob EXCEPT !.op = "create", !.user = u, !.to = g,
                             !.due = <<<<g, "join">>>>]
  <2>3. <<<<g, "join">>>> \in Seq(Groups \X {"leave", "join"})
    BY <1>u
  <2>4. j \in Jobs
    BY <2>3, NoJobTypes DEF Jobs, Calls
  <2>5. Knows("enter", j)
    BY NoJobTypes DEF Knows, NoJob, NoRecord
  <2>6. CallTypes'
    BY <2>4, <2>5, <1>6, Begins DEF Create, Steps
  <2>7. StoreTypes'
    BY <1>6 DEF Create, StoreTypes, pki
  <2> QED BY <2>6, <2>7
<1>7. ASSUME NEW u \in Users, NEW g \in Groups, ChangeGroup(c, u, g) PROVE TypeInv'
  <2> DEFINE j == [NoJob EXCEPT !.op = "change", !.user = u, !.to = g,
                            !.rec = [record[u] EXCEPT !.group = g],
                            !.ip = Lowest(Free(group[g].net)),
                            !.due = <<<<record[u].group, "leave">>, <<g, "join">>>>]
  <2>1. record[u] \in Records /\ record[u].group \in Groups
    BY <1>7 DEF ChangeGroup, StoreTypes, Live
  <2>2. [record[u] EXCEPT !.group = g] \in Records
    BY <2>1 DEF Records
  <2>3. <<<<record[u].group, "leave">>, <<g, "join">>>> \in Seq(Groups \X {"leave", "join"})
    BY <2>1
  <2>a. Lowest(Free(group[g].net)) \in Addresses
    <3>1. group[g].net \in Subnets
      BY DEF StoreTypes, GroupRows
    <3> QED BY <3>1, <1>7, LowestType DEF ChangeGroup
  <2>4. j \in Jobs
    BY <2>2, <2>3, <2>a, NoJobTypes DEF Jobs, Calls
  <2>5. Knows("move", j)
    BY <2>1, NoJobTypes DEF Knows, NoJob, Records
  <2>6. CallTypes'
    BY <2>4, <2>5, <1>7, Begins DEF ChangeGroup, Steps
  <2>7. StoreTypes'
    BY <1>7 DEF ChangeGroup, StoreTypes, pki
  <2> QED BY <2>6, <2>7
<1>8. ASSUME NEW g \in Groups, NEW row \in GroupRows, Group(c, g, row) PROVE TypeInv'
  <2> DEFINE j == [NoJob EXCEPT !.op = "group", !.to = g, !.row = row]
  <2>4. j \in Jobs
    BY NoJobTypes DEF Jobs, Calls
  <2>5. Knows("group", j)
    BY NoJobTypes DEF Knows, NoJob, NoRecord
  <2>6. CallTypes'
    BY <2>4, <2>5, <1>8, Begins DEF Group, Steps
  <2>7. StoreTypes'
    BY <1>8 DEF Group, StoreTypes, pki
  <2> QED BY <2>6, <2>7
<1>9. ASSUME NEW g \in Groups, SetStatus(c, g) \/ DeleteGroup(c, g) PROVE TypeInv'
  <2>1. [group[g] EXCEPT !.active = ~@] \in GroupRows /\ NoRow \in GroupRows
    BY ZenonT(30) DEF StoreTypes, GroupRows, NoRow
  <2> QED BY <2>1, <1>8, <1>9 DEF SetStatus, DeleteGroup
<1>10. ASSUME NEW g \in Groups, NEW s \in Subnets, CreateGroup(c, g, s) \/ UpdateSubnet(c, g, s)
       PROVE  TypeInv'
  <2>1. [exists |-> TRUE, active |-> TRUE, net |-> s, count |-> 0] \in GroupRows
    BY DEF GroupRows
  <2>2. [group[g] EXCEPT !.net = s] \in GroupRows
    <3>1. group[g] \in GroupRows
      BY DEF StoreTypes
    <3> QED BY <3>1 DEF GroupRows
  <2> QED BY <2>1, <2>2, <1>8, <1>10 DEF CreateGroup, UpdateSubnet
<1> QED BY <1>1, <1>2, <1>3, <1>4, <1>5, <1>6, <1>7, <1>9, <1>10 DEF Start

\* A caller goes on with the same arguments.
LEMMA Goes ==
  ASSUME CallTypes, NEW c \in Callers, NEW step \in Steps, Knows(step, job[c]),
         Goto(c, step), UNCHANGED job, lock' \in Callers \cup {NoCaller}
  PROVE  CallTypes'
<1>1. job[c] \in Jobs /\ job' = [job EXCEPT ![c] = job[c]]
  BY DEF CallTypes
<1> QED BY <1>1, Moves DEF Goto

\* What is left between two stores is a user or groups.
LEMMA TornTypes ==
  ASSUME TypeInv, NEW c \in Callers
  PROVE  Torn(c) \subseteq Users \cup Groups
<1> USE DEF TypeInv
<1>1. job[c].due \in Seq(Groups \X {"leave", "join"}) /\ Knows(pc[c], job[c])
  BY DEF CallTypes, Jobs
<1>2. \A i \in DOMAIN job[c].due : job[c].due[i][1] \in Groups
  BY <1>1, LenProperties, ElementOfSeq
<1>3. pc[c] \notin {"idle", "group"} => Me(c) \in Users
  BY <1>1 DEF Knows, Me
<1> QED BY <1>2, <1>3 DEF Torn

\* Certificates are numbered within the bound.
LEMMA SerialType ==
  ASSUME StoreTypes, NEW u \in Users
  PROVE  Serial(u) \in 0 .. MaxCerts /\ Latest(u) \in 0 .. MaxCerts
BY EmptySeq, LenProperties DEF StoreTypes, Serial, Latest

\* create, up to the record.
LEMMA CreateTypeInv ==
  ASSUME TypeInv, NEW c \in Callers,
         Enter(c) \/ Sign(c) \/ Profile(c) \/ Address(c) \/ WriteCcd(c)
  PROVE  TypeInv'
<1> USE DEF TypeInv
<1>j. job[c] \in Jobs /\ Knows(pc[c], job[c]) /\ lock \in Callers \cup {NoCaller}
  BY DEF CallTypes
<1>s. {"sign", "profile", "address", "newccd", "store"} \subseteq Steps
  BY DEF Steps
<1>m. pc[c] \notin {"idle", "group"} => Me(c) \in Users
  BY <1>j DEF Knows, Me
<1>1. CASE Enter(c)
  <2>1. StoreTypes'
    BY <1>1 DEF Enter, StoreTypes, pki
  <2>2. CASE Leave(c)
    BY <2>1, <2>2, Leaves
  <2>3. CASE ~Leave(c)
    <3> DEFINE j == [job[c] EXCEPT !.row = group[job[c].to]]
    <3>1. group[job[c].to] \in GroupRows
      BY <1>1, <1>j DEF Enter, Knows, StoreTypes
    <3>2. j \in Jobs
      BY <3>1, <1>j DEF Jobs
    <3>3. Knows("sign", j)
      BY <1>1, <1>j DEF Knows, Enter, Jobs
    <3>4. job' = [job EXCEPT ![c] = j] /\ pc' = [pc EXCEPT ![c] = "sign"] /\ lock' = c
      BY <1>1, <2>3 DEF Enter, Goto
    <3> QED BY <2>1, <3>2, <3>3, <3>4, <1>s, Moves
  <2> QED BY <2>2, <2>3
<1>2. CASE Sign(c)
  <2>1. CASE Leave(c) /\ UNCHANGED <<index, issued>>
    BY <1>2, <2>1, Leaves DEF Sign, StoreTypes
  <2>2. CASE ~(Leave(c) /\ UNCHANGED <<index, issued>>)
    <3>1. /\ pc[c] = "sign" /\ Latest(Me(c)) < MaxCerts
          /\ index' = [index EXCEPT ![Me(c)] = Append(@, "V")]
          /\ issued' = issued \cup {Me(c)}
          /\ Goto(c, "profile") /\ UNCHANGED <<job, lock>>
          /\ UNCHANGED <<record, group, ccd, ovpn, crl, unrevoked, unsettled>>
      BY <1>2, <2>2 DEF Sign
    <3>2. Knows("profile", job[c])
      BY <3>1, <1>j DEF Knows
    <3>3. CallTypes'
      BY <3>1, <3>2, <1>s, <1>j, Goes
    <3>4. Me(c) \in Users
      BY <3>1, <1>m
    <3>x. index[Me(c)] \in Seq({"V", "R"})
      BY <3>4 DEF StoreTypes
    <3>y. "V" \in {"V", "R"}
      OBVIOUS
    <3>z. /\ Append(index[Me(c)], "V") \in Seq({"V", "R"})
          /\ Append(index[Me(c)], "V") # <<>>
          /\ Len(Append(index[Me(c)], "V")) = Len(index[Me(c)]) + 1
      BY <3>x, <3>y, AppendProperties
    <3>5. /\ Append(index[Me(c)], "V") \in Seq({"V", "R"})
          /\ Append(index[Me(c)], "V") # <<>>
          /\ Len(Append(index[Me(c)], "V")) <= MaxCerts
      BY <3>1, <3>4, <3>x, <3>z, LenProperties DEF StoreTypes, Latest
    <3>6. StoreTypes'
      BY <3>1, <3>4, <3>5 DEF StoreTypes
    <3> QED BY <3>3, <3>6
  <2> QED BY <2>1, <2>2
<1>3. CASE Profile(c)
  <2>m. Me(c) \in Users
    BY <1>3, <1>m DEF Profile
  <2>1. CASE Leave(c)
    <3>1. StoreTypes'
      BY <1>3, <2>1, <2>m, SerialType, ZenonT(30) DEF Profile, StoreTypes, pki
    <3> QED BY <3>1, <2>1, Leaves
  <2>2. CASE ~Leave(c)
    <3> DEFINE r == [status |-> "active", group |-> job[c].to, serial |-> Serial(Me(c))]
               j == [job[c] EXCEPT !.rec = r]
    <3>1. job[c].to \in Groups
      BY <1>3, <1>j DEF Profile, Knows
    <3>2. r \in Records
      BY <3>1, <2>m, SerialType DEF Records, Live
    <3>3. j \in Jobs
      BY <3>2, <1>j DEF Jobs
    <3>4. Knows("address", j)
      BY <1>3, <3>1, <1>j DEF Knows, Profile, Jobs
    <3>5. job' = [job EXCEPT ![c] = j] /\ pc' = [pc EXCEPT ![c] = "address"] /\ lock' = lock
      BY <1>3, <2>2 DEF Profile, Goto
    <3>6. StoreTypes'
      BY <1>3, <2>2, <2>m, SerialType, ZenonT(30) DEF Profile, StoreTypes, pki
    <3> QED BY <3>3, <3>4, <3>5, <3>6, <1>s, <1>j, Moves
  <2> QED BY <2>1, <2>2
<1>4. CASE Address(c)
  <2>m. Me(c) \in Users
    BY <1>4, <1>m DEF Address
  <2>1. StoreTypes'
    BY <1>4, <2>m DEF Address, StoreTypes, pki
  <2>2. CASE Leave(c)
    BY <2>1, <2>2, Leaves
  <2>3. CASE ~Leave(c)
    <3> DEFINE j == [job[c] EXCEPT !.ip = Lowest(Free(job[c].row.net))]
    <3>1. job[c].row.net \in Subnets
      BY <1>j DEF Jobs, GroupRows
    <3>2. j \in Jobs
      BY <3>1, <1>4, <2>3, <1>j, LowestType DEF Jobs, Address
    <3>3. Knows("newccd", j)
      BY <1>4, <1>j DEF Knows, Address, Jobs
    <3>4. job' = [job EXCEPT ![c] = j] /\ pc' = [pc EXCEPT ![c] = "newccd"] /\ lock' = lock
      BY <1>4, <2>3 DEF Address, Goto
    <3> QED BY <2>1, <3>2, <3>3, <3>4, <1>s, <1>j, Moves
  <2> QED BY <2>2, <2>3
<1>5. CASE WriteCcd(c)
  <2>1. Knows("store", job[c])
    BY <1>5, <1>j DEF Knows, WriteCcd
  <2>2. CallTypes'
    BY <1>5, <2>1, <1>s, <1>j, Goes DEF WriteCcd
  <2>3. [exists |-> TRUE, ip |-> job[c].ip, off |-> FALSE] \in Ccds
    BY <1>j DEF Jobs, Ccds
  <2>4. StoreTypes'
    BY <1>5, <2>3 DEF WriteCcd, StoreTypes, pki
  <2> QED BY <2>2, <2>4
<1> QED BY <1>1, <1>2, <1>3, <1>4, <1>5

\* The row, and user_count.
LEMMA SharedTypeInv ==
  ASSUME TypeInv, NEW c \in Callers,
         Store(c) \/ ReadCount(c) \/ WriteCount(c) \/ Finish(c) \/ StoreFails(c)
  PROVE  TypeInv'
<1> USE DEF TypeInv
<1>j. job[c] \in Jobs /\ Knows(pc[c], job[c]) /\ lock \in Callers \cup {NoCaller}
  BY DEF CallTypes
<1>s. {"count", "counted", "switch", "reload"} \subseteq Steps
  BY DEF Steps
<1>m. pc[c] \notin {"idle", "group"} => Me(c) \in Users
  BY <1>j DEF Knows, Me
<1>d. ASSUME job[c].due # <<>>
      PROVE  /\ Head(job[c].due) \in Groups \X {"leave", "join"}
             /\ Tail(job[c].due) \in Seq(Groups \X {"leave", "join"})
  BY <1>d, <1>j, HeadTailProperties DEF Jobs
<1>1. CASE Store(c)
  <2>1. job[c].op \in {"create", "delete", "change", "toggle", "renew", "regenerate"}
    BY <1>1, <1>j DEF Store, Knows
  <2>2. job[c].rec \in Records /\ (job[c].rec.status # "none" => job[c].rec.group \in Groups)
    BY <1>j DEF Jobs, Knows
  <2>3. unsettled' \subseteq Users \cup Groups
    BY <1>1, <2>1 DEF Store, StoreTypes
  <2>4. StoreTypes'
    BY <1>1, <1>m, <2>2, <2>3 DEF Store, StoreTypes, pki
  <2>5. CASE job[c].op = "regenerate"
    BY <1>1, <2>4, <2>5, Leaves DEF Store
  <2>6. CASE job[c].op # "regenerate"
    <3>1. PICK step \in {"count", "switch", "reload"} :
             /\ Goto(c, step) /\ UNCHANGED <<job, lock>>
             /\ step = "reload" => job[c].op = "renew"
      BY <1>1, <2>1, <2>6 DEF Store
    <3>2. Knows(step, job[c])
      BY <1>1, <3>1, <1>j DEF Store, Knows
    <3> QED BY <2>4, <3>1, <3>2, <1>s, <1>j, Goes
  <2> QED BY <2>5, <2>6
<1>2. CASE ReadCount(c)
  <2>1. StoreTypes'
    BY <1>2 DEF ReadCount, StoreTypes, pki
  <2>2. Head(job[c].due)[1] \in Groups /\ Tail(job[c].due) \in Seq(Groups \X {"leave", "join"})
    BY <1>2, <1>d DEF ReadCount
  <2>3. CASE group[Head(job[c].due)[1]].exists
    <3> DEFINE j == [job[c] EXCEPT !.row = group[Head(job[c].due)[1]]]
    <3>1. group[Head(job[c].due)[1]] \in GroupRows
      BY <2>2 DEF StoreTypes
    <3>2. j \in Jobs
      BY <3>1, <1>j DEF Jobs
    <3>3. Knows("counted", j)
      BY <1>2, <1>j DEF Knows, ReadCount, Jobs
    <3>4. job' = [job EXCEPT ![c] = j] /\ pc' = [pc EXCEPT ![c] = "counted"] /\ lock' = lock
      BY <1>2, <2>3 DEF ReadCount, Goto
    <3> QED BY <2>1, <3>2, <3>3, <3>4, <1>s, <1>j, Moves
  <2>4. CASE ~group[Head(job[c].due)[1]].exists
    <3> DEFINE j == [job[c] EXCEPT !.due = Tail(job[c].due)]
    <3>1. j \in Jobs
      BY <2>2, <1>j DEF Jobs
    <3>2. Knows("count", j)
      BY <1>2, <1>j DEF Knows, ReadCount, Jobs
    <3>3. job' = [job EXCEPT ![c] = j] /\ pc' = [pc EXCEPT ![c] = "count"] /\ lock' = lock
      BY <1>2, <2>4 DEF ReadCount, CallTypes
    <3> QED BY <2>1, <3>1, <3>2, <3>3, <1>s, <1>j, Moves
  <2> QED BY <2>3, <2>4
<1>3. CASE WriteCount(c)
  <2>1. job[c].due # <<>>
    BY <1>3, <1>j DEF WriteCount, Knows
  <2>2. job[c].row \in GroupRows
    BY <1>j DEF Jobs
  <2>3. \A n \in Nat, change \in {"leave", "join"} : Counted(n, change) \in Nat
    BY DEF Counted
  <2>4. [job[c].row EXCEPT !.count = Counted(job[c].row.count, Head(job[c].due)[2])] \in GroupRows
    BY <1>d, <2>1, <2>2, <2>3 DEF GroupRows
  <2>5. StoreTypes'
    BY <1>3, <2>4 DEF WriteCount, StoreTypes, pki
  <2> DEFINE j == [job[c] EXCEPT !.due = Tail(job[c].due), !.row = NoRow]
  <2>6. j \in Jobs
    BY <1>d, <2>1, <1>j, NoJobTypes DEF Jobs, NoJob
  <2>7. Knows("count", j)
    BY <1>3, <1>j DEF Knows, WriteCount, Jobs
  <2>8. job' = [job EXCEPT ![c] = j] /\ pc' = [pc EXCEPT ![c] = "count"] /\ lock' = lock
    BY <1>3 DEF WriteCount, Goto
  <2> QED BY <2>5, <2>6, <2>7, <2>8, <1>s, <1>j, Moves
<1>4. CASE Finish(c)
  BY <1>4, Leaves DEF Finish, StoreTypes, pki
<1>5. CASE StoreFails(c)
  <2>1. StoreTypes'
    BY <1>5, TornTypes DEF StoreFails, StoreTypes, pki
  <2> QED BY <1>5, <2>1, Leaves DEF StoreFails
<1> QED BY <1>1, <1>2, <1>3, <1>4, <1>5

\* delete, and the revocation of a certificate.
LEMMA DeleteTypeInv ==
  ASSUME TypeInv, NEW c \in Callers, Revoke(c) \/ GenCrl(c) \/ RemoveFiles(c)
  PROVE  TypeInv'
<1> USE DEF TypeInv
<1>j. job[c] \in Jobs /\ Knows(pc[c], job[c]) /\ lock \in Callers \cup {NoCaller}
  BY DEF CallTypes
<1>s. {"crl", "files", "store"} \subseteq Steps
  BY DEF Steps
<1>m. pc[c] \notin {"idle", "group"} => Me(c) \in Users
  BY <1>j DEF Knows, Me
<1>1. CASE Revoke(c)
  <2>m. Me(c) \in Users
    BY <1>1, <1>m DEF Revoke
  <2>1. CASE Me(c) \in issued /\ index' # index
    <3>1. Latest(Me(c)) \in 1 .. Len(index[Me(c)])
      BY <2>1, <2>m, EmptySeq DEF StoreTypes, Latest
    <3> DEFINE line == [index[Me(c)] EXCEPT ![Latest(Me(c))] = "R"]
    <3>2. line \in Seq({"V", "R"}) /\ Len(line) = Len(index[Me(c)]) /\ line # <<>>
      <4>1. line \in Seq({"V", "R"}) /\ Len(line) = Len(index[Me(c)])
        BY <3>1, <2>m, ExceptSeq DEF StoreTypes
      <4>2. Len(line) # 0
        BY <4>1, <3>1
      <4> QED BY <4>1, <4>2, EmptySeq
    <3>3. /\ index' = [index EXCEPT ![Me(c)] = line] /\ issued' = issued \ {Me(c)}
          /\ Goto(c, "crl") /\ UNCHANGED <<job, lock, unrevoked>>
      BY <1>1, <2>1 DEF Revoke
    <3>4. StoreTypes'
      <4> HIDE DEF line
      <4> QED BY <1>1, <2>m, <3>2, <3>3 DEF Revoke, StoreTypes
    <3> QED BY <1>1, <3>3, <3>4, <1>j, <1>s, Goes DEF Revoke, Knows
  <2>2. CASE ~(Me(c) \in issued /\ index' # index)
    <3>1. UNCHANGED index /\ issued' \subseteq issued /\ unrevoked' \subseteq Users
      BY <1>1, <2>2, <2>m DEF Revoke, StoreTypes
    <3>2. StoreTypes'
      BY <1>1, <3>1 DEF Revoke, StoreTypes
    <3>3. CASE Goto(c, "crl") /\ UNCHANGED <<job, lock>>
      BY <1>1, <3>2, <3>3, <1>j, <1>s, Goes DEF Revoke, Knows
    <3>4. CASE Leave(c)
      BY <3>2, <3>4, Leaves
    <3> QED BY <1>1, <3>3, <3>4 DEF Revoke
  <2> QED BY <2>1, <2>2
<1>2. CASE GenCrl(c)
  <2>1. crl' \subseteq Users \X (1 .. MaxCerts) /\ unrevoked' \subseteq Users
    BY <1>2 DEF GenCrl, Revoked, StoreTypes
  <2>2. StoreTypes'
    BY <1>2, <2>1 DEF GenCrl, StoreTypes
  <2>3. CASE Leave(c)
    BY <2>2, <2>3, Leaves
  <2>4. CASE ~Leave(c)
    <3>1. Goto(c, "files") /\ UNCHANGED <<job, lock>> /\ job[c].op = "delete"
      BY <1>2, <2>4 DEF GenCrl
    <3>2. Knows("files", job[c])
      BY <1>2, <3>1, <1>j DEF GenCrl, Knows
    <3> QED BY <2>2, <3>1, <3>2, <1>j, <1>s, Goes
  <2> QED BY <2>3, <2>4
<1>3. CASE RemoveFiles(c)
  <2>m. Me(c) \in Users
    BY <1>3, <1>m DEF RemoveFiles
  <2>1. NoCcd \in Ccds
    BY DEF NoCcd, Ccds, Addresses
  <2>2. issued' \subseteq issued
    BY <1>3 DEF RemoveFiles
  <2>a. ccd' \in [Users -> Ccds] /\ ovpn' \in [Users -> 0 .. MaxCerts]
    <3>1. ccd' = [ccd EXCEPT ![Me(c)] = NoCcd] /\ ovpn' = [ovpn EXCEPT ![Me(c)] = 0]
      BY <1>3 DEF RemoveFiles
    <3>2. ccd \in [Users -> Ccds] /\ ovpn \in [Users -> 0 .. MaxCerts]
      BY DEF StoreTypes
    <3>3. 0 \in 0 .. MaxCerts
      OBVIOUS
    <3> QED BY <2>1, <3>1, <3>2, <3>3
  <2>b. UNCHANGED <<record, group, index, crl, unrevoked, unsettled>>
    BY <1>3 DEF RemoveFiles
  <2>3. StoreTypes'
    BY <2>2, <2>a, <2>b DEF StoreTypes
  <2>4. Knows("store", job[c])
    BY <1>3, <1>j DEF RemoveFiles, Knows
  <2> QED BY <1>3, <2>3, <2>4, <1>j, <1>s, Goes DEF RemoveFiles
<1> QED BY <1>1, <1>2, <1>3

\* The other calls.
LEMMA OtherTypeInv ==
  ASSUME TypeInv, NEW c \in Callers,
         SwitchCcd(c) \/ MoveCcd(c) \/ UpdateSerial(c) \/ Reload(c) \/ StoreGroup(c)
  PROVE  TypeInv'
<1> USE DEF TypeInv
<1>j. job[c] \in Jobs /\ Knows(pc[c], job[c]) /\ lock \in Callers \cup {NoCaller}
  BY DEF CallTypes
<1>s. {"store"} \subseteq Steps
  BY DEF Steps
<1>m. pc[c] \notin {"idle", "group"} => Me(c) \in Users
  BY <1>j DEF Knows, Me
<1>1. CASE SwitchCcd(c)
  <2>1. \A off \in BOOLEAN, f \in Ccds :
           [f EXCEPT !.off = off] \in Ccds /\ [f EXCEPT !.exists = off, !.off = off] \in Ccds
    BY DEF Ccds
  <2>2. ccd' \in [Users -> Ccds]
    BY <1>1, <2>1, <1>m DEF SwitchCcd, StoreTypes
  <2> QED BY <1>1, <2>2, Leaves DEF SwitchCcd, StoreTypes, pki
<1>2. CASE MoveCcd(c)
  <2>1. job[c].ip \in Addresses
    BY <1>j DEF Jobs
  <2>2. ccd' \in [Users -> Ccds]
    BY <1>2, <2>1, <1>m, ZenonT(30) DEF MoveCcd, StoreTypes, Ccds
  <2>3. StoreTypes'
    BY <1>2, <2>2 DEF MoveCcd, StoreTypes, pki
  <2>4. Knows("store", job[c])
    BY <1>2, <1>j DEF MoveCcd, Knows
  <2> QED BY <1>2, <2>3, <2>4, <1>j, <1>s, Goes DEF MoveCcd
<1>3. CASE UpdateSerial(c)
  <2>m. Me(c) \in Users
    BY <1>3, <1>m DEF UpdateSerial
  <2>1. StoreTypes'
    BY <1>3 DEF UpdateSerial, StoreTypes, pki
  <2>2. CASE record[Me(c)].status = "none"
    BY <1>3, <2>1, <2>2, Leaves DEF UpdateSerial
  <2>3. CASE record[Me(c)].status # "none"
    <3> DEFINE r == [record[Me(c)] EXCEPT !.serial = Serial(Me(c))]
               j == [job[c] EXCEPT !.rec = r]
    <3>1. r \in Records /\ r.group \in Groups
      <4>1. record[Me(c)] \in Records /\ record[Me(c)].group \in Groups
        BY <2>m, <2>3 DEF StoreTypes
      <4>2. Serial(Me(c)) \in 0 .. MaxCerts
        BY <2>m, SerialType
      <4> QED BY <4>1, <4>2 DEF Records
    <3>2. j \in Jobs
      BY <3>1, <1>j DEF Jobs
    <3>3. Knows("store", j)
      BY <1>3, <3>1, <1>j DEF Knows, UpdateSerial, Jobs
    <3>4. job' = [job EXCEPT ![c] = j] /\ pc' = [pc EXCEPT ![c] = "store"] /\ lock' = lock
      BY <1>3, <2>3 DEF UpdateSerial, Goto
    <3> QED BY <2>1, <3>2, <3>3, <3>4, <1>s, <1>j, Moves
  <2> QED BY <2>2, <2>3
<1>4. CASE Reload(c)
  <2>m. Me(c) \in Users
    BY <1>4, <1>m DEF Reload
  <2>1. StoreTypes'
    BY <1>4, <2>m, SerialType, ZenonT(30) DEF Reload, StoreTypes, pki
  <2>2. CASE Leave(c)
    BY <2>1, <2>2, Leaves
  <2>3. CASE ~Leave(c)
    <3> DEFINE j == [job[c] EXCEPT !.op = "regenerate", !.rec = record[Me(c)]]
    <3>1. record[Me(c)] \in Records /\ record[Me(c)].status \in Live
      BY <1>4, <2>3, <2>m DEF Reload, StoreTypes
    <3>2. record[Me(c)].group \in Groups
      BY <3>1, <2>m DEF StoreTypes, Live
    <3>3. j \in Jobs
      BY <3>1, <1>j DEF Jobs, Calls
    <3>4. Knows("store", j)
      BY <1>4, <3>2, <1>j DEF Knows, Reload, Jobs
    <3>5. job' = [job EXCEPT ![c] = j] /\ pc' = [pc EXCEPT ![c] = "store"] /\ lock' = lock
      BY <1>4, <2>3 DEF Reload, Goto
    <3> QED BY <2>1, <3>3, <3>4, <3>5, <1>s, <1>j, Moves
  <2> QED BY <2>2, <2>3
<1>5. CASE StoreGroup(c)
  <2>1. job[c].row \in GroupRows
    BY <1>j DEF Jobs
  <2> QED BY <1>5, <2>1, Leaves DEF StoreGroup, StoreTypes, pki
<1> QED BY <1>1, <1>2, <1>3, <1>4, <1>5

\* Every step, a crash included.
LEMMA NextTypeInv == TypeInv /\ [Next]_vars => TypeInv'
<1> SUFFICES ASSUME TypeInv, [Next]_vars PROVE TypeInv'
  OBVIOUS
<1>1. CASE UNCHANGED vars
  BY <1>1 DEF vars, pki, TypeInv, CallTypes, StoreTypes
<1>2. CASE Crash
  <2>1. CallTypes'
    BY <1>2, NoJobTypes DEF Crash, CallTypes, Steps
  <2>2. unsettled' \subseteq Users \cup Groups
    BY <1>2, TornTypes DEF Crash, TypeInv, StoreTypes
  <2>3. StoreTypes'
    BY <1>2, <2>2 DEF Crash, TypeInv, StoreTypes, pki
  <2> QED BY <2>1, <2>3 DEF TypeInv
<1>3. ASSUME NEW c \in Callers, Step(c) PROVE TypeInv'
  BY <1>3, CreateTypeInv, SharedTypeInv, DeleteTypeInv, OtherTypeInv DEF Step
<1> QED
  BY <1>1, <1>2, <1>3, StartTypeInv DEF Next

\* Every variable of UserAccounts stays in its range, for any instance.
THEOREM AccountsTyped == Spec => []TypeOK
<1>1. Spec => []TypeInv
  BY InitTypeInv, NextTypeInv, PTL DEF Spec
<1> QED BY <1>1, TypeInvIsStronger, PTL

(***************************************************************************)
(* Addresses                                                               *)
(***************************************************************************)

\* Between Enter and WriteCcd a create holds the lock.
Holds == \A c \in Callers : pc[c] \in {"sign", "profile", "address", "newccd"} => lock = c

\* The address a call is about to write is in no CCD file.
Fresh ==
    \A c \in Callers : pc[c] \in {"newccd", "move"} =>
        job[c].ip # 0 /\ \A u \in Users : ccd[u].ip # job[c].ip

\* A change of group runs alone.
Alone ==
    \A c \in Callers : pc[c] # "idle" /\ job[c].op = "change" =>
        \A d \in Callers \ {c} : pc[d] = "idle"

AddressInv == AddressesUnique /\ Holds /\ Fresh /\ Alone

\* At first no CCD file exists.
LEMMA InitAddressInv == Init => AddressInv
BY DEF Init, AddressInv, AddressesUnique, Holds, Fresh, Alone, NoCcd

\* How a call begins: no address is given or taken yet.
Begun(c, step, j) ==
    /\ Call(c, step, j) /\ UNCHANGED <<ccd, lock>>
    /\ step \notin {"sign", "profile", "address", "newccd"}
    /\ step = "move" => j.ip # 0 /\ \A u \in Users : ccd[u].ip # j.ip

\* Every call begins so; a change with an address LowestIsFree vouches for.
LEMMA StartBegins ==
  ASSUME TypeInv, NEW c \in Callers, Start(c)
  PROVE  \E step, j : Begun(c, step, j)
<1>1. ASSUME NEW u \in Users, Delete(c, u) PROVE \E step, j : Begun(c, step, j)
  <2> DEFINE j == [NoJob EXCEPT !.op = "delete", !.user = u,
                              !.rec = [record[u] EXCEPT !.status = "deleted"],
                              !.due = <<<<record[u].group, "leave">>>>]
  <2>1. Begun(c, "revoke", j)
    BY <1>1 DEF Delete, Begun
  <2> QED BY <2>1
<1>2. ASSUME NEW u \in Users, ToggleStatus(c, u) PROVE \E step, j : Begun(c, step, j)
  <2>1. Begun(c, "store", [NoJob EXCEPT !.op = "toggle", !.user = u,
                             !.rec = [record[u] EXCEPT !.status = Flip(@)]])
    BY <1>2 DEF ToggleStatus, Begun
  <2> QED BY <2>1
<1>3. ASSUME NEW u \in Users, RegenerateOvpn(c, u) PROVE \E step, j : Begun(c, step, j)
  <2>1. Begun(c, "reload", [NoJob EXCEPT !.op = "regenerate", !.user = u])
    BY <1>3 DEF RegenerateOvpn, Begun
  <2> QED BY <2>1
<1>4. ASSUME NEW u \in Users, RevokeCert(c, u) PROVE \E step, j : Begun(c, step, j)
  <2>1. Begun(c, "revoke", [NoJob EXCEPT !.op = "revoke", !.user = u])
    BY <1>4 DEF RevokeCert, Begun
  <2> QED BY <2>1
<1>5. ASSUME NEW u \in Users, Renew(c, u) PROVE \E step, j : Begun(c, step, j)
  <2>1. Begun(c, "serial", [NoJob EXCEPT !.op = "renew", !.user = u])
    BY <1>5 DEF Renew, Begun
  <2> QED BY <2>1
<1>6. ASSUME NEW u \in Users, NEW g \in Groups, Create(c, u, g)
      PROVE  \E step, j : Begun(c, step, j)
  <2>1. Begun(c, "enter", [NoJob EXCEPT !.op = "create", !.user = u, !.to = g,
                             !.due = <<<<g, "join">>>>])
    BY <1>6 DEF Create, Begun
  <2> QED BY <2>1
<1>7. ASSUME NEW u \in Users, NEW g \in Groups, ChangeGroup(c, u, g)
      PROVE  \E step, j : Begun(c, step, j)
  <2> DEFINE j == [NoJob EXCEPT !.op = "change", !.user = u, !.to = g,
                            !.rec = [record[u] EXCEPT !.group = g],
                            !.ip = Lowest(Free(group[g].net)),
                            !.due = <<<<record[u].group, "leave">>, <<g, "join">>>>]
  <2>1. group[g].net \in Subnets /\ Free(group[g].net) # {}
    BY <1>7 DEF ChangeGroup, TypeInv, StoreTypes, GroupRows
  <2>2. j.ip = Lowest(Free(group[g].net))
    BY DEF NoJob
  <2>3. j.ip # 0 /\ \A v \in Users : ccd[v].ip # j.ip
    BY <2>1, <2>2, LowestIsFree
  <2>4. Call(c, "move", j) /\ UNCHANGED <<ccd, lock>>
    BY <1>7 DEF ChangeGroup
  <2>5. Begun(c, "move", j)
    <3> HIDE DEF j
    <3> QED BY <2>3, <2>4 DEF Begun
  <2> QED BY <2>5
<1>8. ASSUME NEW g, NEW row, Group(c, g, row) PROVE \E step, j : Begun(c, step, j)
  <2>1. Begun(c, "group", [NoJob EXCEPT !.op = "group", !.to = g, !.row = row])
    BY <1>8 DEF Group, Begun
  <2> QED BY <2>1
<1>9. ASSUME NEW g \in Groups, SetStatus(c, g) \/ DeleteGroup(c, g)
      PROVE  \E step, j : Begun(c, step, j)
  BY <1>8, <1>9 DEF SetStatus, DeleteGroup
<1>10. ASSUME NEW g \in Groups, NEW s \in Subnets, CreateGroup(c, g, s) \/ UpdateSubnet(c, g, s)
       PROVE  \E step, j : Begun(c, step, j)
  BY <1>8, <1>10 DEF CreateGroup, UpdateSubnet
<1> QED BY <1>1, <1>2, <1>3, <1>4, <1>5, <1>6, <1>7, <1>9, <1>10 DEF Start

\* A call begins and gives no address twice: it does not run beside a change.
LEMMA StartAddressInv ==
  ASSUME "change" \notin Overlap, TypeInv, AddressInv, NEW c \in Callers, Start(c)
  PROVE  AddressInv'
<1> USE DEF AddressInv
<1>1. PICK step, j : Begun(c, step, j)
  BY StartBegins
<1>2. pc \in [Callers -> Steps] /\ job \in [Callers -> Jobs]
  BY DEF TypeInv, CallTypes
<1>3. \A d \in Callers \ {c} : pc'[d] = pc[d] /\ job'[d] = job[d]
  BY <1>1, <1>2 DEF Begun, Call, Goto
<1>4. pc[c] = "idle" /\ pc'[c] = step /\ job'[c] = j
  BY <1>1, <1>2 DEF Begun, Call, Goto
<1>5. UNCHANGED <<ccd, lock>>
  BY <1>1 DEF Begun
<1>6. AddressesUnique'
  BY <1>5 DEF AddressesUnique
<1>7. Holds'
  BY <1>1, <1>3, <1>4, <1>5 DEF Begun, Holds
<1>8. Fresh'
  BY <1>1, <1>3, <1>4, <1>5 DEF Begun, Fresh
<1>9. \A d \in Callers : pc[d] # "idle" => {j.op, job[d].op} \subseteq Overlap
  BY <1>1 DEF Begun, Call
<1>10. Alone'
  BY <1>3, <1>4, <1>9 DEF Alone
<1> QED BY <1>6, <1>7, <1>8, <1>10

\* What the other steps of a call do to the lock, to other calls and to the
\* addresses: only Address takes one, WriteCcd and MoveCcd give it.
StepEffect(c) ==
    /\ pc[c] # "idle"
    /\ \A d \in Callers \ {c} : pc'[d] = pc[d] /\ job'[d] = job[d]
    /\ job'[c].op = "change" => job[c].op = "change"
    /\ lock' = lock \/ lock \in {c, NoCaller}
    /\ pc'[c] \in {"sign", "profile", "address", "newccd"} => lock' = c
    /\ pc'[c] # "move"
    /\ pc'[c] = "newccd" =>
         job'[c].ip # 0 /\ \A u \in Users : ccd'[u].ip # job'[c].ip
    /\ \/ \A u \in Users : ccd'[u].ip \in {0, ccd[u].ip}
       \/ /\ pc[c] \in {"newccd", "move"} /\ pc'[c] = "store" /\ lock' = lock
          /\ \A u \in Users : ccd'[u].ip = IF u = Me(c) THEN job[c].ip ELSE ccd[u].ip

\* Every step does no more than StepEffect says.
LEMMA StepHasEffect ==
  ASSUME TypeInv, Holds, NEW c \in Callers, Step(c)
  PROVE  StepEffect(c)
<1>t. /\ pc \in [Callers -> Steps] /\ job \in [Callers -> Jobs]
      /\ ccd \in [Users -> Ccds] /\ lock \in Callers \cup {NoCaller}
      /\ Knows(pc[c], job[c])
  BY DEF TypeInv, CallTypes, StoreTypes
<1>0. ASSUME Leave(c), pc[c] # "idle", \A u \in Users : ccd'[u].ip \in {0, ccd[u].ip}
      PROVE  StepEffect(c)
  BY <1>0, <1>t DEF Leave, Goto, NoJob, StepEffect
<1>1. CASE Enter(c)
  <2>1. pc[c] # "idle" /\ UNCHANGED ccd
    BY <1>1 DEF Enter
  <2>2. CASE Leave(c)
    BY <1>0, <2>1, <2>2
  <2>3. CASE ~Leave(c)
    <3>1. /\ lock = NoCaller /\ lock' = c /\ pc' = [pc EXCEPT ![c] = "sign"]
          /\ job' = [job EXCEPT ![c].row = group[job[c].to]]
      BY <1>1, <2>3 DEF Enter, Goto
    <3>2. job'[c].op = job[c].op /\ \A d \in Callers \ {c} : job'[d] = job[d]
      BY <3>1, <1>t DEF Jobs
    <3> QED BY <2>1, <3>1, <3>2, <1>t DEF StepEffect
  <2> QED BY <2>2, <2>3
<1>2. CASE Sign(c)
  BY <1>0, <1>2, <1>t DEF Sign, Goto, Knows, Holds, StepEffect
<1>3. CASE Profile(c)
  <2>1. pc[c] = "profile" /\ UNCHANGED ccd
    BY <1>3 DEF Profile
  <2>2. CASE Leave(c)
    BY <1>0, <2>1, <2>2
  <2>3. CASE ~Leave(c)
    <3>1. /\ lock' = lock /\ pc' = [pc EXCEPT ![c] = "address"]
          /\ job' = [job EXCEPT ![c].rec = [status |-> "active", group |-> job[c].to,
                                            serial |-> Serial(Me(c))]]
      BY <1>3, <2>3 DEF Profile, Goto
    <3>2. job'[c].op = job[c].op /\ \A d \in Callers \ {c} : job'[d] = job[d]
      BY <3>1, <1>t DEF Jobs
    <3>3. lock = c
      BY <2>1 DEF Holds
    <3> QED BY <2>1, <3>1, <3>2, <3>3, <1>t DEF StepEffect
  <2> QED BY <2>2, <2>3
<1>4. CASE Address(c)
  <2>1. pc[c] = "address" /\ UNCHANGED ccd
    BY <1>4 DEF Address
  <2>2. CASE Leave(c)
    BY <1>0, <2>1, <2>2
  <2>3. CASE ~Leave(c)
    <3> DEFINE ip == Lowest(Free(job[c].row.net))
    <3>1. /\ Free(job[c].row.net) # {} /\ lock' = lock
          /\ pc' = [pc EXCEPT ![c] = "newccd"] /\ job' = [job EXCEPT ![c].ip = ip]
      BY <1>4, <2>3 DEF Address, Goto
    <3>2. job[c].row.net \in Subnets
      BY <1>t DEF Jobs, GroupRows
    <3>3. ip # 0 /\ \A u \in Users : ccd[u].ip # ip
      BY <3>1, <3>2, LowestIsFree
    <3> HIDE DEF ip
    <3>4. /\ job'[c].op = job[c].op /\ job'[c].ip = ip
          /\ \A d \in Callers \ {c} : job'[d] = job[d]
      BY <3>1, <1>t DEF Jobs
    <3>5. lock = c
      BY <2>1 DEF Holds
    <3> QED BY <2>1, <3>1, <3>3, <3>4, <3>5, <1>t DEF StepEffect
  <2> QED BY <2>2, <2>3
<1>5. CASE WriteCcd(c)
  BY <1>0, <1>5, <1>t DEF WriteCcd, Goto, Knows, Holds, StepEffect
<1>6. CASE Store(c)
  BY <1>0, <1>6, <1>t DEF Store, Goto, Knows, Holds, StepEffect
<1>7. CASE ReadCount(c)
  <2>1. /\ pc[c] = "count" /\ UNCHANGED <<ccd, lock>>
        /\ \E step \in {"count", "counted"} : pc' = [pc EXCEPT ![c] = step]
        /\ \/ job' = [job EXCEPT ![c].row = group[Head(job[c].due)[1]]]
           \/ job' = [job EXCEPT ![c].due = Tail(@)]
    BY <1>7, <1>t DEF ReadCount, Goto
  <2>2. job'[c].op = job[c].op /\ \A d \in Callers \ {c} : job'[d] = job[d]
    BY <2>1, <1>t DEF Jobs
  <2> QED BY <2>1, <2>2, <1>t DEF StepEffect
<1>8. CASE WriteCount(c)
  BY <1>0, <1>8, <1>t DEF WriteCount, Goto, Knows, Holds, StepEffect
<1>9. CASE Finish(c)
  BY <1>0, <1>9, <1>t DEF Finish, Goto, Knows, Holds, StepEffect
<1>10. CASE StoreFails(c)
  BY <1>0, <1>10, <1>t DEF StoreFails, Goto, Knows, Holds, StepEffect
<1>11. CASE Revoke(c)
  BY <1>0, <1>11, <1>t DEF Revoke, Goto, Knows, Holds, StepEffect
<1>12. CASE GenCrl(c)
  BY <1>0, <1>12, <1>t DEF GenCrl, Goto, Knows, Holds, StepEffect
<1>13. CASE RemoveFiles(c)
  <2>1. /\ pc[c] = "files" /\ pc' = [pc EXCEPT ![c] = "store"]
        /\ UNCHANGED <<lock, job>> /\ ccd' = [ccd EXCEPT ![Me(c)] = NoCcd]
    BY <1>13 DEF RemoveFiles, Goto
  <2>2. \A u \in Users : ccd'[u].ip \in {0, ccd[u].ip}
    BY <2>1, <1>t DEF NoCcd
  <2> QED BY <2>1, <2>2, <1>t DEF StepEffect
<1>14. CASE SwitchCcd(c)
  BY <1>0, <1>14, <1>t DEF SwitchCcd, Goto, Knows, Holds, StepEffect
<1>15. CASE MoveCcd(c)
  BY <1>0, <1>15, <1>t DEF MoveCcd, Goto, Knows, Holds, StepEffect
<1>16. CASE UpdateSerial(c)
  <2>1. pc[c] # "idle" /\ UNCHANGED ccd
    BY <1>16 DEF UpdateSerial
  <2>2. CASE Leave(c)
    BY <1>0, <2>1, <2>2
  <2>3. CASE ~Leave(c)
    <3>1. /\ lock' = lock /\ pc' = [pc EXCEPT ![c] = "store"]
          /\ job' = [job EXCEPT ![c].rec = [record[Me(c)] EXCEPT !.serial = Serial(Me(c))]]
      BY <1>16, <2>3 DEF UpdateSerial, Goto
    <3>2. job'[c].op = job[c].op /\ \A d \in Callers \ {c} : job'[d] = job[d]
      BY <3>1, <1>t DEF Jobs
    <3> QED BY <2>1, <3>1, <3>2, <1>t DEF StepEffect
  <2> QED BY <2>2, <2>3
<1>17. CASE Reload(c)
  <2>1. pc[c] # "idle" /\ UNCHANGED ccd
    BY <1>17 DEF Reload
  <2>2. CASE Leave(c)
    BY <1>0, <2>1, <2>2
  <2>3. CASE ~Leave(c)
    <3>1. /\ lock' = lock /\ pc' = [pc EXCEPT ![c] = "store"]
          /\ job' = [job EXCEPT ![c].op = "regenerate", ![c].rec = record[Me(c)]]
      BY <1>17, <2>3 DEF Reload, Goto
    <3>2. job'[c].op = "regenerate" /\ \A d \in Callers \ {c} : job'[d] = job[d]
      BY <3>1, <1>t DEF Jobs
    <3> QED BY <2>1, <3>1, <3>2, <1>t DEF StepEffect
  <2> QED BY <2>2, <2>3
<1>18. CASE StoreGroup(c)
  BY <1>0, <1>18, <1>t DEF StoreGroup, Goto, Knows, Holds, StepEffect
<1> QED
  BY <1>1, <1>2, <1>3, <1>4, <1>5, <1>6, <1>7, <1>8, <1>9, <1>10, <1>11, <1>12, <1>13,
     <1>14, <1>15, <1>16, <1>17, <1>18 DEF Step

\* A step of one call leaves the address of another fresh: creates take turns
\* by the lock, a change has no other call beside it.
LEMMA StepAddressInv ==
  ASSUME TypeInv, AddressInv, NEW c \in Callers, Step(c)
  PROVE  AddressInv'
<1> USE DEF AddressInv
<1>e. StepEffect(c)
  BY StepHasEffect
<1>t. /\ lock \in Callers \cup {NoCaller}
      /\ \A d \in Callers : Knows(pc[d], job[d])
  BY DEF TypeInv, CallTypes
<1>1. Holds'
  BY <1>e, <1>t DEF Holds, StepEffect
<1>2. Alone'
  BY <1>e DEF Alone, StepEffect
<1>3. CASE \A u \in Users : ccd'[u].ip \in {0, ccd[u].ip}
  <2>1. AddressesUnique'
    BY <1>3 DEF AddressesUnique
  <2>2. Fresh'
    BY <1>e, <1>3 DEF Fresh, StepEffect
  <2> QED BY <1>1, <1>2, <2>1, <2>2
<1>4. CASE /\ pc[c] \in {"newccd", "move"} /\ pc'[c] = "store" /\ lock' = lock
           /\ \A u \in Users : ccd'[u].ip = IF u = Me(c) THEN job[c].ip ELSE ccd[u].ip
  <2>1. AddressesUnique'
    BY <1>4 DEF AddressesUnique, Fresh
  <2>2. \A d \in Callers \ {c} : pc[d] \notin {"newccd", "move"}
    <3>1. CASE pc[c] = "newccd"
      BY <3>1, <1>t DEF Holds, Alone, Knows
    <3>2. CASE pc[c] = "move"
      BY <3>2, <1>t DEF Alone, Knows
    <3> QED BY <3>1, <3>2, <1>4
  <2>3. Fresh'
    BY <1>e, <1>4, <2>2 DEF Fresh, StepEffect
  <2> QED BY <1>1, <1>2, <2>1, <2>3
<1> QED BY <1>e, <1>3, <1>4 DEF StepEffect

\* Every step, a crash included.
LEMMA NextAddressInv ==
  ASSUME "change" \notin Overlap, TypeInv, AddressInv, [Next]_vars
  PROVE  AddressInv'
<1>1. CASE UNCHANGED vars
  BY <1>1 DEF vars, AddressInv, AddressesUnique, Holds, Fresh, Alone
<1>2. CASE Crash
  BY <1>2 DEF Crash, AddressInv, AddressesUnique, Holds, Fresh, Alone
<1> QED BY <1>1, <1>2, StartAddressInv, StepAddressInv DEF Next

\* As long as no change of group runs beside another call, no two CCD files
\* fix the same address, for any number of callers, users and overlapping
\* groups, any overlap of the other calls, and any failure or crash.
THEOREM AddressesStayUnique ==
  ASSUME "change" \notin Overlap
  PROVE  Spec => []AddressesUnique
<1>1. TypeInv /\ AddressInv /\ [Next]_vars => AddressInv'
  BY NextAddressInv
<1>2. Spec => [](TypeInv /\ AddressInv)
  BY <1>1, InitTypeInv, NextTypeInv, InitAddressInv, PTL DEF Spec
<1>3. AddressInv => AddressesUnique
  BY DEF AddressInv
<1> QED BY <1>2, <1>3, PTL

(***************************************************************************)
(* One call at a time, creates and revocations excepted                    *)
(***************************************************************************)

\* What a call has read of the stores, and only it may change them.
Busy(c) == pc[c] \notin {"idle", "enter"} /\ job[c].op # "revoke"

\* The calls that may be at a step.
OpAt(step, op) ==
    /\ step \in {"count", "counted"} => op \in {"create", "delete", "change"}
    /\ step = "switch" => op = "toggle"
    /\ step = "group" => op = "group"
    /\ op = "revoke" => step \in {"revoke", "crl"}

\* A create past the check of its arguments holds the lock, and every other
\* call but a revocation runs alone.
TurnInv ==
    /\ \A c \in Callers : pc[c] # "idle" => OpAt(pc[c], job[c].op)
    /\ \A c \in Callers : pc[c] # "idle" /\ job[c].op \notin {"create", "revoke"}
          => \A d \in Callers \ {c} : pc[d] = "idle"
    /\ \A c \in Callers : Busy(c) /\ job[c].op = "create" => lock = c

\* Only one call changes stores: a create holds the lock, the others run alone.
LEMMA OneBusy ==
  ASSUME TypeInv, TurnInv, NEW c \in Callers, NEW d \in Callers \ {c}, Busy(c)
  PROVE  ~Busy(d)
BY DEF TurnInv, Busy, TypeInv, CallTypes

\* What a call starts with: its arguments, what it has read, and for a renewal
\* the line easyrsa has added.
Opens(step, j) ==
    /\ UNCHANGED <<record, group, ccd, ovpn, issued, crl, unrevoked, lock, unsettled>>
    /\ \/ j.op # "renew" /\ UNCHANGED index
       \/ /\ j.op = "renew" /\ step = "serial" /\ j.user \in issued
          /\ index' = [index EXCEPT ![j.user] = Append(@, "V")]
    /\ \/ j.op = "create" /\ step = "enter" /\ j.due = <<<<j.to, "join">>>>
       \/ /\ j.op = "delete" /\ step = "revoke" /\ j.rec.status = "deleted"
          /\ j.rec.group = record[j.user].group
          /\ record[j.user].status \in Live \cup (IF Stale THEN {"deleted"} ELSE {})
          /\ j.due = <<<<record[j.user].group, "leave">>>>
       \/ /\ j.op = "toggle" /\ step = "store" /\ Has(j.user)
          /\ j.rec.status \in Live /\ j.rec.group = record[j.user].group
       \/ j.op = "regenerate" /\ step = "reload"
       \/ j.op = "revoke" /\ step = "revoke"
       \/ j.op = "renew" /\ step = "serial"
       \/ /\ j.op = "change" /\ step = "move" /\ Has(j.user)
          /\ j.rec.status = record[j.user].status
          /\ j.rec.group = j.to /\ j.to # record[j.user].group
          /\ group[j.to].exists
          /\ j.due = <<<<record[j.user].group, "leave">>, <<j.to, "join">>>>
       \/ /\ j.op = "group" /\ step = "group"
          /\ \/ j.row.count = group[j.to].count /\ j.row.exists = group[j.to].exists
             \/ /\ j.row.count = 0
                /\ group[j.to].count = 0 \/ ~group[j.to].exists

\* Every call opens so.
LEMMA StartOpens ==
  ASSUME TypeInv, NEW c \in Callers, Start(c)
  PROVE  \E step, j : Call(c, step, j) /\ Opens(step, j)
<1>1. ASSUME NEW u \in Users, Delete(c, u) PROVE \E step, j : Call(c, step, j) /\ Opens(step, j)
  <2> DEFINE j == [NoJob EXCEPT !.op = "delete", !.user = u,
                              !.rec = [record[u] EXCEPT !.status = "deleted"],
                              !.due = <<<<record[u].group, "leave">>>>]
  <2>1. record[u] \in Records
    BY DEF TypeInv, StoreTypes
  <2>2. /\ j.op = "delete" /\ j.user = u /\ j.rec = [record[u] EXCEPT !.status = "deleted"]
        /\ j.due = <<<<record[u].group, "leave">>>>
    BY DEF NoJob
  <2>3. j.rec.status = "deleted" /\ j.rec.group = record[u].group
    BY <2>1, <2>2 DEF Records
  <2>4. Call(c, "revoke", j)
    BY <1>1 DEF Delete
  <2> HIDE DEF j
  <2>5. Opens("revoke", j)
    BY <1>1, <2>2, <2>3 DEF Delete, Opens, pki
  <2> QED BY <2>4, <2>5
<1>2. ASSUME NEW u \in Users, ToggleStatus(c, u)
      PROVE  \E step, j : Call(c, step, j) /\ Opens(step, j)
  <2> DEFINE j == [NoJob EXCEPT !.op = "toggle", !.user = u,
                             !.rec = [record[u] EXCEPT !.status = Flip(@)]]
  <2>1. record[u] \in Records
    BY DEF TypeInv, StoreTypes
  <2>2. /\ j.op = "toggle" /\ j.user = u
        /\ j.rec = [record[u] EXCEPT !.status = Flip(record[u].status)]
    BY DEF NoJob
  <2>3. j.rec.status \in Live /\ j.rec.group = record[u].group
    BY <2>1, <2>2 DEF Records, Flip, Live
  <2>4. Call(c, "store", j)
    BY <1>2 DEF ToggleStatus
  <2> HIDE DEF j
  <2>5. Opens("store", j)
    BY <1>2, <2>2, <2>3 DEF ToggleStatus, Opens, pki, Has
  <2> QED BY <2>4, <2>5
<1>3. ASSUME NEW u \in Users, RegenerateOvpn(c, u)
      PROVE  \E step, j : Call(c, step, j) /\ Opens(step, j)
  <2>1. Opens("reload", [NoJob EXCEPT !.op = "regenerate", !.user = u])
    BY <1>3 DEF RegenerateOvpn, Opens, pki, NoJob
  <2> QED BY <1>3, <2>1 DEF RegenerateOvpn
<1>4. ASSUME NEW u \in Users, RevokeCert(c, u)
      PROVE  \E step, j : Call(c, step, j) /\ Opens(step, j)
  <2>1. Opens("revoke", [NoJob EXCEPT !.op = "revoke", !.user = u])
    BY <1>4 DEF RevokeCert, Opens, pki, NoJob
  <2> QED BY <1>4, <2>1 DEF RevokeCert
<1>5. ASSUME NEW u \in Users, Renew(c, u)
      PROVE  \E step, j : Call(c, step, j) /\ Opens(step, j)
  <2> DEFINE j == [NoJob EXCEPT !.op = "renew", !.user = u]
  <2>1. j.op = "renew" /\ j.user = u
    BY DEF NoJob
  <2>2. Call(c, "serial", j)
    BY <1>5 DEF Renew
  <2> HIDE DEF j
  <2>3. Opens("serial", j)
    BY <1>5, <2>1 DEF Renew, Opens
  <2> QED BY <2>2, <2>3
<1>6. ASSUME NEW u \in Users, NEW g \in Groups, Create(c, u, g)
      PROVE  \E step, j : Call(c, step, j) /\ Opens(step, j)
  <2> DEFINE j == [NoJob EXCEPT !.op = "create", !.user = u, !.to = g,
                             !.due = <<<<g, "join">>>>]
  <2>1. j.op = "create" /\ j.to = g /\ j.due = <<<<g, "join">>>>
    BY DEF NoJob
  <2>2. Call(c, "enter", j)
    BY <1>6 DEF Create
  <2> HIDE DEF j
  <2>3. Opens("enter", j)
    BY <1>6, <2>1 DEF Create, Opens, pki
  <2> QED BY <2>2, <2>3
<1>7. ASSUME NEW u \in Users, NEW g \in Groups, ChangeGroup(c, u, g)
      PROVE  \E step, j : Call(c, step, j) /\ Opens(step, j)
  <2> DEFINE j == [NoJob EXCEPT !.op = "change", !.user = u, !.to = g,
                            !.rec = [record[u] EXCEPT !.group = g],
                            !.ip = Lowest(Free(group[g].net)),
                            !.due = <<<<record[u].group, "leave">>, <<g, "join">>>>]
  <2>1. record[u] \in Records
    BY DEF TypeInv, StoreTypes
  <2>2. /\ j.op = "change" /\ j.user = u /\ j.to = g
        /\ j.rec = [record[u] EXCEPT !.group = g]
        /\ j.due = <<<<record[u].group, "leave">>, <<g, "join">>>>
    BY DEF NoJob
  <2>3. j.rec.status = record[u].status /\ j.rec.group = g
    BY <2>1, <2>2 DEF Records
  <2>4. Call(c, "move", j)
    BY <1>7 DEF ChangeGroup
  <2> HIDE DEF j
  <2>5. Opens("move", j)
    BY <1>7, <2>2, <2>3 DEF ChangeGroup, Opens, pki, Has
  <2> QED BY <2>4, <2>5
<1>8. ASSUME NEW g \in Groups, NEW row, Group(c, g, row),
             \/ row.count = group[g].count /\ row.exists = group[g].exists
             \/ row.count = 0 /\ (group[g].count = 0 \/ ~group[g].exists)
      PROVE  \E step, j : Call(c, step, j) /\ Opens(step, j)
  <2> DEFINE j == [NoJob EXCEPT !.op = "group", !.to = g, !.row = row]
  <2>1. j.op = "group" /\ j.to = g /\ j.row = row
    BY DEF NoJob
  <2>2. Call(c, "group", j)
    BY <1>8 DEF Group
  <2> HIDE DEF j
  <2>3. Opens("group", j)
    BY <1>8, <2>1 DEF Group, Opens, pki
  <2> QED BY <2>2, <2>3
<1>9. ASSUME NEW g \in Groups, SetStatus(c, g) \/ DeleteGroup(c, g)
      PROVE  \E step, j : Call(c, step, j) /\ Opens(step, j)
  <2>1. group[g] \in GroupRows
    BY DEF TypeInv, StoreTypes
  <2>2. /\ [group[g] EXCEPT !.active = ~@].count = group[g].count
        /\ [group[g] EXCEPT !.active = ~@].exists = group[g].exists
    BY <2>1 DEF GroupRows
  <2>3. NoRow.count = 0
    BY DEF NoRow
  <2> QED BY <2>2, <2>3, <1>8, <1>9 DEF SetStatus, DeleteGroup
<1>10. ASSUME NEW g \in Groups, NEW s \in Subnets, CreateGroup(c, g, s) \/ UpdateSubnet(c, g, s)
       PROVE  \E step, j : Call(c, step, j) /\ Opens(step, j)
  <2>1. group[g] \in GroupRows
    BY DEF TypeInv, StoreTypes
  <2>2. /\ [group[g] EXCEPT !.net = s].count = group[g].count
        /\ [group[g] EXCEPT !.net = s].exists = group[g].exists
    BY <2>1 DEF GroupRows
  <2> QED BY <2>2, <1>8, <1>10 DEF CreateGroup, UpdateSubnet
<1> QED BY <1>1, <1>2, <1>3, <1>4, <1>5, <1>6, <1>7, <1>9, <1>10 DEF Start

\* As a fact about the state a call leaves as it begins.
Begin(c) ==
    /\ pc[c] = "idle" /\ Opens(pc'[c], job'[c])
    /\ \A d \in Callers : pc[d] # "idle" => {job'[c].op, job[d].op} \subseteq Overlap
    /\ \A d \in Callers \ {c} : pc'[d] = pc[d] /\ job'[d] = job[d]

\* The same, as the later lemmas use it.
LEMMA StartBegin ==
  ASSUME TypeInv, NEW c \in Callers, Start(c)
  PROVE  Begin(c)
<1>1. PICK step, j : Call(c, step, j) /\ Opens(step, j)
  BY StartOpens
<1>2. /\ pc[c] = "idle" /\ pc' = [pc EXCEPT ![c] = step] /\ job' = [job EXCEPT ![c] = j]
      /\ \A d \in Callers : pc[d] # "idle" => {j.op, job[d].op} \subseteq Overlap
  BY <1>1 DEF Call, Goto
<1>3. pc'[c] = step /\ job'[c] = j
  BY <1>2 DEF TypeInv, CallTypes
<1> QED BY <1>1, <1>2, <1>3 DEF Begin

\* A step goes on with the same call, a renewal at its end as regenerate_ovpn.
Continues(c) ==
    /\ OpAt(pc'[c], job'[c].op)
    /\ \/ job'[c].op = job[c].op
       \/ pc[c] = "reload" /\ job'[c].op = "regenerate"
    /\ job'[c].user = job[c].user /\ job'[c].to = job[c].to
    /\ IF pc[c] = "enter" THEN lock' = c ELSE lock' = lock

\* Every step does so, unless it ends the call.
LEMMA StepContinues ==
  ASSUME TypeInv, NEW c \in Callers, Step(c), OpAt(pc[c], job[c].op)
  PROVE  pc'[c] = "idle" \/ Continues(c)
<1>t. /\ pc \in [Callers -> Steps] /\ job \in [Callers -> Jobs]
      /\ job[c] \in Jobs /\ Knows(pc[c], job[c])
  BY DEF TypeInv, CallTypes
<1>0. Leave(c) => pc'[c] = "idle"
  BY <1>t DEF Leave, Goto
<1>a. ASSUME NEW x, NEW f \in {"row", "rec", "ip", "due"},
             job' = [job EXCEPT ![c] = [job[c] EXCEPT ![f] = x]]
      PROVE  /\ job'[c].op = job[c].op /\ job'[c].user = job[c].user
             /\ job'[c].to = job[c].to
  BY <1>a, <1>t DEF Jobs
<1> USE DEF Goto, Knows, OpAt, Continues
<1>1. CASE Enter(c)      BY <1>0, <1>1, <1>t DEF Enter, Jobs
<1>2. CASE Sign(c)       BY <1>0, <1>2, <1>t DEF Sign
<1>3. CASE Profile(c)    BY <1>0, <1>3, <1>t DEF Profile, Jobs
<1>4. CASE Address(c)    BY <1>0, <1>4, <1>t DEF Address, Jobs
<1>5. CASE WriteCcd(c)   BY <1>0, <1>5, <1>t DEF WriteCcd
<1>6. CASE Store(c)      BY <1>0, <1>6, <1>t DEF Store
<1>7. CASE ReadCount(c)  BY <1>0, <1>7, <1>t DEF ReadCount, Jobs
<1>8. CASE WriteCount(c) BY <1>0, <1>8, <1>t DEF WriteCount, Jobs
<1>9. CASE Finish(c)     BY <1>0, <1>9, <1>t DEF Finish
<1>10. CASE StoreFails(c) BY <1>0, <1>10, <1>t DEF StoreFails
<1>11. CASE Revoke(c)     BY <1>0, <1>11, <1>t DEF Revoke
<1>12. CASE GenCrl(c)     BY <1>0, <1>12, <1>t DEF GenCrl
<1>13. CASE RemoveFiles(c) BY <1>0, <1>13, <1>t DEF RemoveFiles
<1>14. CASE SwitchCcd(c)  BY <1>0, <1>14, <1>t DEF SwitchCcd
<1>15. CASE MoveCcd(c)    BY <1>0, <1>15, <1>t DEF MoveCcd
<1>16. CASE UpdateSerial(c) BY <1>0, <1>16, <1>t DEF UpdateSerial, Jobs
<1>17. CASE Reload(c)     BY <1>0, <1>17, <1>t DEF Reload, Jobs
<1>18. CASE StoreGroup(c) BY <1>0, <1>18, <1>t DEF StoreGroup
<1> QED
  BY <1>1, <1>2, <1>3, <1>4, <1>5, <1>6, <1>7, <1>8, <1>9, <1>10, <1>11, <1>12, <1>13,
     <1>14, <1>15, <1>16, <1>17, <1>18 DEF Step

\* Which calls may overlap: creates, and revocations of the certificates page.
Turns == Overlap \subseteq {"create", "revoke"}

\* A call begins when its turn has come.
LEMMA StartTurn ==
  ASSUME Turns, TypeInv, TurnInv, NEW c \in Callers, Begin(c)
  PROVE  TurnInv'
<1>1. \A d \in Callers \ {c} : pc[d] # "idle" =>
         job'[c].op \in {"create", "revoke"} /\ job[d].op \in {"create", "revoke"}
  BY DEF Begin, Turns
<1>2. OpAt(pc'[c], job'[c].op) /\ (job'[c].op = "create" => pc'[c] = "enter")
  BY DEF Begin, Opens, OpAt
<1>3. lock' = lock
  BY DEF Begin, Opens
<1> QED
  BY <1>1, <1>2, <1>3 DEF TurnInv, Begin, Busy

\* The lock keeps creates apart; the other calls have nothing beside them.
LEMMA StepTurn ==
  ASSUME TypeInv, TurnInv, Holds, NEW c \in Callers, Step(c)
  PROVE  TurnInv'
<1>1. StepEffect(c)
  BY StepHasEffect
<1>2. pc[c] # "idle" /\ \A d \in Callers \ {c} : pc'[d] = pc[d] /\ job'[d] = job[d]
  BY <1>1 DEF StepEffect
<1>3. lock' = lock \/ lock \in {c, NoCaller}
  BY <1>1 DEF StepEffect
<1>4. pc'[c] = "idle" \/ Continues(c)
  BY <1>2, StepContinues DEF TurnInv
<1>5. pc[c] = "reload" => job[c].op \notin {"create", "revoke"}
  BY DEF TypeInv, CallTypes, Knows
<1>6. \A d \in Callers : pc'[d] # "idle" => OpAt(pc'[d], job'[d].op)
  BY <1>2, <1>4 DEF TurnInv, Continues
<1>7. ASSUME NEW d \in Callers, pc'[d] # "idle", job'[d].op \notin {"create", "revoke"},
             NEW e \in Callers \ {d}
      PROVE  pc'[e] = "idle"
  <2>1. CASE d = c
    BY <1>2, <1>4, <1>5, <1>7, <2>1 DEF TurnInv, Continues
  <2>2. CASE d # c
    BY <1>2, <1>7, <2>2 DEF TurnInv
  <2> QED BY <2>1, <2>2
<1>8. ASSUME NEW d \in Callers, Busy(d)', job'[d].op = "create" PROVE lock' = d
  <2>1. CASE d = c
    <3>1. Continues(c) /\ job'[c].op = "create"
      BY <1>4, <1>8, <2>1 DEF Busy
    <3>2. job[c].op = "create" /\ IF pc[c] = "enter" THEN lock' = c ELSE lock' = lock
      BY <3>1 DEF Continues
    <3>3. pc[c] # "enter" => lock = c
      BY <1>2, <3>2 DEF TurnInv, Busy
    <3> QED BY <2>1, <3>2, <3>3
  <2>2. CASE d # c
    <3>1. lock = d
      BY <1>2, <1>8, <2>2 DEF TurnInv, Busy
    <3> QED BY <1>3, <3>1, <2>2
  <2> QED BY <2>1, <2>2
<1> QED BY <1>6, <1>7, <1>8 DEF TurnInv

\* After a crash no call runs.
LEMMA CrashTurn == Crash => TurnInv'
BY DEF Crash, TurnInv, Busy

\* Nor at first.
LEMMA InitTurn == Init => TurnInv
BY DEF Init, TurnInv, Busy

(***************************************************************************)
(* The stores of one user                                                  *)
(***************************************************************************)

Ended(u) == index[u] # <<>> /\ index[u][Latest(u)] = "R"
Listed(u) == <<u, Latest(u)>> \in crl

\* What a call has read and done so far is still true.
Carries(c) ==
    LET op == job[c].op  u == Me(c)  rec == job[c].rec  to == job[c].to IN
    /\ op = "create" /\ pc[c] \in {"sign", "profile", "address", "newccd", "store"}
          => ~Has(u)
    /\ op = "create" /\ pc[c] \in {"profile", "address", "newccd", "store"}
          => index[u] # <<>>
    /\ op = "create" /\ pc[c] \in {"address", "newccd", "store"}
          => rec.status = "active" /\ rec.group = to /\ ovpn[u] = Latest(u)
    /\ op = "create" /\ pc[c] = "store" => ~ccd[u].off
    /\ op = "delete" /\ pc[c] \in {"revoke", "crl", "files", "store"}
          => /\ rec.status = "deleted" /\ record[u].status # "none"
             /\ rec.group = record[u].group
    /\ op = "delete" /\ pc[c] \in {"crl", "files", "store"}
          => u \in unrevoked \/ (u \notin issued /\ Ended(u))
    /\ op = "delete" /\ pc[c] \in {"files", "store"} => u \in unrevoked \/ Listed(u)
    /\ op = "toggle" /\ pc[c] = "store"
          => Has(u) /\ rec.status \in Live /\ rec.group = record[u].group
    /\ op = "toggle" /\ pc[c] = "switch" => rec.status = record[u].status
    /\ op = "change" /\ pc[c] \in {"move", "store"}
          => /\ Has(u) /\ rec.status = record[u].status
             /\ rec.group = to /\ to # record[u].group
    /\ op \in {"regenerate", "renew"} /\ pc[c] = "store"
          => rec.status = record[u].status /\ rec.group = record[u].group

\* The calls that have yet to bring the CCD file, the profile or the
\* certificate of a user into line with the row.
Switches(c, u) ==
    Me(c) = u /\ (pc[c] = "switch" \/ (pc[c] = "store" /\ job[c].op = "delete"))
Reissues(c, u) ==
    Me(c) = u /\ \/ pc[c] = "store" /\ job[c].op \in {"delete", "renew"}
                 \/ pc[c] = "serial"
                 \/ pc[c] = "reload" /\ job[c].op = "renew"
Creates(c, u) ==
    Me(c) = u /\ job[c].op = "create" /\ pc[c] \in {"profile", "address", "newccd", "store"}

IndexOk(u) ==
    /\ u \in issued => ~Ended(u)
    /\ u \notin issued /\ index[u] # <<>> => Ended(u) \/ u \in unrevoked
    /\ record[u].status # "none" => index[u] # <<>>

\* The stores agree about a user, but for what the calls in S have yet to do.
Agree(u, S) ==
    /\ Has(u) => \/ \E c \in S : Switches(c, u)
                 \/ ccd[u].off <=> record[u].status = "disabled"
    /\ Has(u) /\ u \in issued => (\E c \in S : Reissues(c, u)) \/ ovpn[u] = Latest(u)
    /\ record[u].status = "deleted" => \/ \E c \in S : Creates(c, u)
                                       \/ u \in unrevoked
                                       \/ Ended(u) /\ u \notin issued /\ Listed(u)

UserInv ==
    /\ \A c \in Callers : Busy(c) => Carries(c)
    /\ \A u \in Users : IndexOk(u)
    /\ \A u \in Users \ unsettled : Agree(u, Callers)

\* A certificate that was just issued is valid.
LEMMA NewestIsValid ==
  ASSUME NEW u, index[u] \in Seq({"V", "R"}), index'[u] = Append(index[u], "V")
  PROVE  index'[u] # <<>> /\ ~Ended(u)'
<1>1. /\ index'[u] # <<>> /\ Len(index'[u]) = Len(index[u]) + 1
      /\ index'[u][Len(index[u]) + 1] = "V"
  BY AppendProperties
<1> QED  BY <1>1 DEF Ended, Latest

\* At first no user exists.
LEMMA InitUserInv == Init => UserInv
<1> SUFFICES ASSUME Init PROVE UserInv
  OBVIOUS
<1>1. \A c \in Callers : ~Busy(c)
  BY DEF Init, Busy
<1>2. issued = {} /\ \A u \in Users : index[u] = <<>> /\ record[u].status = "none"
  BY DEF Init, NoRecord
<1>3. \A u \in Users : IndexOk(u)
  BY <1>2 DEF IndexOk
<1> QED BY <1>1, <1>2, <1>3 DEF UserInv, Agree, Has, Live

\* At rest nothing is left to do.
LEMMA UserInvAtRest ==
  UserInv => DisabledEnforced /\ RevokedWhenDeleted /\ ProfileCurrent
<1> SUFFICES ASSUME UserInv, AtRest
             PROVE  \A u \in Users \ unsettled :
                      /\ Has(u) => (ccd[u].off <=> record[u].status = "disabled")
                      /\ record[u].status = "deleted" /\ u \notin unrevoked =>
                            /\ index[u][Latest(u)] = "R" /\ u \notin issued
                            /\ <<u, Latest(u)>> \in crl
                      /\ Has(u) /\ u \in issued => ovpn[u] = Latest(u)
  BY DEF DisabledEnforced, RevokedWhenDeleted, ProfileCurrent
<1>1. \A c \in Callers, u \in Users :
         ~Switches(c, u) /\ ~Reissues(c, u) /\ ~Creates(c, u)
  BY DEF AtRest, Switches, Reissues, Creates
<1> QED BY <1>1 DEF UserInv, Agree, Ended, Listed

\* The other calls do not move.
Others(c) == \A d \in Callers \ {c} : pc'[d] = pc[d] /\ job'[d] = job[d]

\* What a step may do to a user whose stores it does not bring into or out of
\* line: revoke, publish revocations, leave the user unsettled.
Withdraws(v) ==
    /\ record'[v] = record[v] /\ ovpn'[v] = ovpn[v] /\ ccd'[v].off = ccd[v].off
    /\ Latest(v)' = Latest(v) /\ (index'[v] = <<>> <=> index[v] = <<>>)
    /\ v \in issued' => v \in issued /\ (Ended(v)' => Ended(v))
    /\ Ended(v) \/ v \in issued \ issued' => Ended(v)'
    /\ Ended(v) /\ Listed(v) => Listed(v)'
    /\ v \in unrevoked \ unrevoked' => Ended(v)' /\ v \notin issued' /\ Listed(v)'

Kept(c, v) ==
    /\ Withdraws(v)
    /\ v \in unsettled => v \in unsettled'
    /\ v \notin unsettled' =>
         /\ Switches(c, v) /\ Has(v) => Switches(c, v)'
         /\ Reissues(c, v) /\ Has(v) => Reissues(c, v)'
         /\ Creates(c, v) => Creates(c, v)'

\* The stores of such a user agree as before.
LEMMA KeptAgrees ==
  ASSUME NEW c \in Callers, Others(c), NEW v \in Users, Kept(c, v),
         IndexOk(v), v \notin unsettled => Agree(v, Callers)
  PROVE  IndexOk(v)' /\ (v \notin unsettled' => Agree(v, Callers)')
<1>1. \A d \in Callers \ {c} :
         /\ Switches(d, v) => Switches(d, v)'
         /\ Reissues(d, v) => Reissues(d, v)'
         /\ Creates(d, v) => Creates(d, v)'
  BY DEF Others, Switches, Reissues, Creates, Me
<1>2. /\ record'[v] = record[v] /\ ovpn'[v] = ovpn[v] /\ ccd'[v].off = ccd[v].off
      /\ Latest(v)' = Latest(v) /\ (index'[v] = <<>> <=> index[v] = <<>>)
      /\ v \in issued' => v \in issued /\ (Ended(v)' => Ended(v))
      /\ Ended(v) \/ v \in issued \ issued' => Ended(v)'
      /\ Ended(v) /\ Listed(v) => Listed(v)'
      /\ v \in unrevoked \ unrevoked' => Ended(v)' /\ v \notin issued' /\ Listed(v)'
  BY DEF Kept, Withdraws
<1>3. IndexOk(v)'
  BY <1>2 DEF IndexOk
<1>4. ASSUME v \notin unsettled' PROVE Agree(v, Callers)'
  <2>1. v \notin unsettled /\ Agree(v, Callers)
    BY <1>4 DEF Kept
  <2>2. Has(v)' <=> Has(v)
    BY <1>2 DEF Has
  <2>3. \A d \in Callers :
         /\ Switches(d, v) /\ Has(v) => Switches(d, v)'
         /\ Reissues(d, v) /\ Has(v) => Reissues(d, v)'
         /\ Creates(d, v) => Creates(d, v)'
    BY <1>1, <1>4 DEF Kept
  <2>4. Has(v)' => \/ \E d \in Callers : Switches(d, v)'
                   \/ ccd'[v].off <=> record'[v].status = "disabled"
    BY <1>2, <2>1, <2>2, <2>3 DEF Agree
  <2>5. Has(v)' /\ v \in issued' =>
           (\E d \in Callers : Reissues(d, v)') \/ ovpn'[v] = Latest(v)'
    BY <1>2, <2>1, <2>2, <2>3 DEF Agree
  <2>6. record'[v].status = "deleted" => \/ \E d \in Callers : Creates(d, v)'
                                         \/ v \in unrevoked'
                                         \/ Ended(v)' /\ v \notin issued' /\ Listed(v)'
    BY <1>2, <2>1, <2>3 DEF Agree
  <2> QED BY <2>4, <2>5, <2>6 DEF Agree
<1> QED BY <1>3, <1>4

\* What another call carries stays true.
LEMMA KeptCarries ==
  ASSUME NEW c \in Callers, Others(c), NEW d \in Callers \ {c},
         NEW v \in Users, Me(d) = v, Withdraws(v), Carries(d)
  PROVE  Carries(d)'
<1>1. pc'[d] = pc[d] /\ job'[d] = job[d] /\ Me(d)' = v
  BY DEF Others, Me
<1>2. /\ record'[v] = record[v] /\ ovpn'[v] = ovpn[v] /\ ccd'[v].off = ccd[v].off
      /\ Latest(v)' = Latest(v) /\ (index'[v] = <<>> <=> index[v] = <<>>)
      /\ v \in issued' => v \in issued
      /\ Ended(v) => Ended(v)'
      /\ Ended(v) /\ Listed(v) => Listed(v)'
      /\ v \in unrevoked \ unrevoked' => Ended(v)' /\ v \notin issued' /\ Listed(v)'
  BY DEF Withdraws
<1>3. (Has(v)' <=> Has(v))
  BY <1>2 DEF Has
<1> QED BY <1>1, <1>2, <1>3 DEF Carries

\* The user of a call in the middle of its steps.
LEMMA UserOf ==
  ASSUME TypeInv, NEW c \in Callers, pc[c] \notin {"idle", "group"}
  PROVE  Me(c) \in Users
BY DEF TypeInv, CallTypes, Knows, Me

\* A step that brings no store of any user into or out of line.
LEMMA AllKept ==
  ASSUME TypeInv, TurnInv, UserInv, NEW c \in Callers, Others(c),
         \A v \in Users : Kept(c, v), Busy(c)' => Carries(c)'
  PROVE  UserInv'
<1>1. ASSUME NEW d \in Callers \ {c}, Busy(d)' PROVE Carries(d)'
  <2>1. Busy(d) /\ Carries(d) /\ pc'[d] = pc[d] /\ job'[d] = job[d]
    BY <1>1 DEF Busy, Others, UserInv
  <2>2. CASE pc[d] = "group"
    <3>1. job'[d].op = "group" /\ pc'[d] = "group"
      BY <2>1, <2>2 DEF TurnInv, OpAt
    <3> QED BY <3>1 DEF Carries
  <2>3. CASE pc[d] # "group"
    <3>1. Me(d) \in Users
      BY <2>1, <2>3, UserOf DEF Busy
    <3>2. PICK v \in Users : Me(d) = v
      BY <3>1
    <3>3. Withdraws(v)
      BY DEF Kept
    <3> QED BY <2>1, <3>2, <3>3, KeptCarries
  <2> QED BY <2>2, <2>3
<1>2. \A v \in Users : IndexOk(v)' /\ (v \notin unsettled' => Agree(v, Callers)')
  BY KeptAgrees DEF UserInv
<1> QED BY <1>1, <1>2 DEF UserInv

\* A step of the only call that changes stores, and a user's: what it has to
\* show of its user.
LEMMA OneChanged ==
  ASSUME TypeInv, TurnInv, UserInv, NEW c \in Callers, Others(c),
         \A d \in Callers \ {c} : ~Busy(d), NEW u \in Users,
         \A v \in Users \ {u} : Kept(c, v),
         IndexOk(u)', u \notin unsettled' => Agree(u, {c})', Busy(c)' => Carries(c)'
  PROVE  UserInv'
<1>1. \A d \in Callers \ {c} : ~Busy(d)'
  BY DEF Busy, Others
<1>2. \A v \in Users \ {u} : IndexOk(v)' /\ (v \notin unsettled' => Agree(v, Callers)')
  BY KeptAgrees DEF UserInv
<1>3. u \notin unsettled' => Agree(u, Callers)'
  BY DEF Agree
<1> QED BY <1>1, <1>2, <1>3 DEF UserInv

\* What it knows of its user.
LEMMA OneKnows ==
  ASSUME TypeInv, TurnInv, UserInv, NEW c \in Callers, \A d \in Callers \ {c} : ~Busy(d),
         NEW u \in Users
  PROVE  IndexOk(u) /\ (u \notin unsettled => Agree(u, {c}))
<1>1. \A d \in Callers \ {c} : ~Switches(d, u) /\ ~Reissues(d, u) /\ ~Creates(d, u)
  BY DEF Switches, Reissues, Creates, Busy, TurnInv, OpAt, TypeInv, CallTypes, Knows
<1> QED BY <1>1 DEF UserInv, Agree

\* Rows, profiles and certificates stay as they are.
LEMMA SameStores ==
  ASSUME UNCHANGED <<record, ovpn, pki>>, NEW v \in Users, ccd'[v].off = ccd[v].off
  PROVE  Withdraws(v)
BY DEF pki, Withdraws, Latest, Ended, Listed

\* A call begins: only a renewal changes a store, and it has a profile to write.
LEMMA StartUser ==
  ASSUME Turns, TypeInv, TurnInv, UserInv, NEW c \in Callers, Begin(c)
  PROVE  UserInv'
<1>1. pc[c] = "idle" /\ Opens(pc'[c], job'[c]) /\ Others(c)
  BY DEF Begin, Others
<1>2. UNCHANGED <<record, group, ccd, ovpn, issued, crl, unrevoked, lock, unsettled>>
  BY <1>1 DEF Opens
<1>3. Busy(c)' => Carries(c)'
  BY <1>1, <1>2 DEF Opens, Busy, Carries, Has, Me, Live
<1>4. CASE UNCHANGED index
  <2>1. \A v \in Users : Withdraws(v)
    BY <1>2, <1>4, SameStores DEF pki
  <2>2. \A v \in Users : Kept(c, v)
    BY <1>1, <1>2, <2>1 DEF Kept, Switches, Reissues, Creates
  <2> QED BY <1>1, <1>3, <2>2, AllKept
<1>5. CASE ~UNCHANGED index
  <2>1. PICK u : u = job'[c].user
    OBVIOUS
  <2>2. /\ job'[c].op = "renew" /\ pc'[c] = "serial" /\ u \in issued
        /\ index' = [index EXCEPT ![u] = Append(@, "V")]
    BY <1>1, <1>5, <2>1 DEF Opens
  <2>3. u \in Users /\ issued \subseteq Users /\ index \in [Users -> Seq({"V", "R"})]
    BY <2>2 DEF TypeInv, StoreTypes
  <2>4. \A d \in Callers \ {c} : ~Busy(d)
    <3>1. \A d \in Callers : pc[d] = "idle"
      BY <2>2 DEF Begin, Turns
    <3> QED BY <3>1 DEF Busy
  <2>5. IndexOk(u) /\ (u \notin unsettled => Agree(u, {c}))
    BY <2>3, <2>4, OneKnows
  <2>6. index'[u] = Append(index[u], "V") /\ index'[u] # <<>> /\ ~Ended(u)'
    <3>1. index[u] \in Seq({"V", "R"}) /\ index'[u] = Append(index[u], "V")
      BY <2>2, <2>3
    <3> QED  BY <3>1, NewestIsValid
  <2>7. IndexOk(u)'
    BY <1>2, <2>2, <2>6 DEF IndexOk
  <2>8. u \notin unsettled' => Agree(u, {c})'
    BY <1>1, <1>2, <2>1, <2>2, <2>5 DEF Agree, Has, Live, Switches, Reissues, Creates, Me
  <2>9. \A v \in Users \ {u} : index'[v] = index[v]
    BY <2>2, <2>3
  <2>10. \A v \in Users \ {u} : Kept(c, v)
    BY <1>1, <1>2, <2>9 DEF Kept, Withdraws, Latest, Ended, Listed, Switches, Reissues, Creates
  <2> QED BY <1>1, <1>3, <2>3, <2>4, <2>7, <2>8, <2>10, OneChanged
<1> QED BY <1>4, <1>5

\* What the steps below share: a call that ends carries nothing on.
LEMMA CallEnds ==
  ASSUME TypeInv, NEW c \in Callers, Leave(c)
  PROVE  ~Busy(c)' /\ pc'[c] = "idle"
BY DEF Leave, Goto, TypeInv, CallTypes, Busy

\* The steps that bring no store of any user into or out of line.
LEMMA QuietUser ==
  ASSUME TypeInv, TurnInv, UserInv, NEW c \in Callers, Others(c),
         \/ Enter(c) \/ Address(c) \/ ReadCount(c) \/ WriteCount(c) \/ Finish(c)
         \/ StoreFails(c) \/ MoveCcd(c) \/ UpdateSerial(c) \/ StoreGroup(c)
         \/ Sign(c) /\ UNCHANGED index
         \/ (Profile(c) \/ Reload(c)) /\ Leave(c)
  PROVE  UserInv'
<1>t. /\ pc \in [Callers -> Steps] /\ job \in [Callers -> Jobs] /\ job[c] \in Jobs
      /\ Knows(pc[c], job[c]) /\ ccd \in [Users -> Ccds] /\ record \in [Users -> Records]
      /\ index \in [Users -> Seq({"V", "R"})]
  BY DEF TypeInv, CallTypes, StoreTypes
<1>c. Busy(c) => Carries(c)
  BY DEF UserInv
<1>o. pc[c] # "idle" => OpAt(pc[c], job[c].op)
  BY DEF TurnInv
<1>e. Leave(c) => ~Busy(c)' /\ pc'[c] = "idle"
  BY CallEnds
<1> USE DEF Kept, Switches, Reissues, Creates, Me
<1>1. CASE Enter(c)
  <2>1. pc[c] = "enter" /\ UNCHANGED <<record, ovpn, pki, ccd, unsettled>>
    BY <1>1 DEF Enter, pki
  <2>2. \A v \in Users : Kept(c, v)
    BY <2>1, SameStores
  <2>3. CASE Leave(c)
    BY <1>e, <2>2, <2>3, AllKept
  <2>4. CASE ~Leave(c)
    <3>1. /\ record[Me(c)].status \notin Live
          /\ pc' = [pc EXCEPT ![c] = "sign"]
          /\ job' = [job EXCEPT ![c] = [job[c] EXCEPT !.row = group[job[c].to]]]
      BY <1>1, <2>4 DEF Enter, Goto
    <3>2. /\ pc'[c] = "sign" /\ job'[c].op = "create" /\ job'[c].user = job[c].user
      BY <3>1, <1>t, <2>1 DEF Jobs, Knows
    <3>3. Carries(c)'
      BY <2>1, <3>1, <3>2 DEF Carries, Has
    <3> QED BY <2>2, <3>3, AllKept
  <2> QED BY <2>3, <2>4
<1>2. CASE Address(c)
  <2>1. pc[c] = "address" /\ UNCHANGED <<record, ovpn, pki, ccd>> /\ job[c].op = "create"
    BY <1>2, <1>t DEF Address, Knows
  <2>2. CASE Leave(c) /\ unsettled' = unsettled \cup {Me(c)}
    <3>1. \A v \in Users : Kept(c, v)
      BY <2>1, <2>2, SameStores
    <3> QED BY <1>e, <2>2, <3>1, AllKept
  <2>3. CASE ~(Leave(c) /\ unsettled' = unsettled \cup {Me(c)})
    <3>1. /\ unsettled' = unsettled /\ pc' = [pc EXCEPT ![c] = "newccd"]
          /\ job' = [job EXCEPT ![c] = [job[c] EXCEPT !.ip = Lowest(Free(job[c].row.net))]]
      BY <1>2, <2>3 DEF Address, Goto
    <3>2. /\ pc'[c] = "newccd" /\ job'[c].op = "create" /\ job'[c].user = job[c].user
          /\ job'[c].to = job[c].to /\ job'[c].rec = job[c].rec
      BY <3>1, <1>t, <2>1 DEF Jobs
    <3>3. \A v \in Users : Kept(c, v)
      BY <2>1, <3>1, <3>2, SameStores
    <3>4. Carries(c)'
      BY <1>c, <2>1, <3>1, <3>2 DEF Carries, Has, Latest, Busy, pki
    <3> QED BY <3>3, <3>4, AllKept
  <2> QED BY <2>2, <2>3
<1>3. CASE ReadCount(c) \/ WriteCount(c)
  <2>1. /\ pc[c] \in {"count", "counted"} /\ UNCHANGED <<record, ovpn, pki, ccd, unsettled>>
        /\ \E step \in {"count", "counted"} : pc' = [pc EXCEPT ![c] = step]
    BY <1>3, <1>t DEF ReadCount, WriteCount, Goto
  <2>2. \A v \in Users : Kept(c, v)
    BY <2>1, SameStores
  <2>3. Carries(c)'
    BY <1>t, <2>1 DEF Carries
  <2> QED BY <2>2, <2>3, AllKept
<1>4. CASE Finish(c)
  <2>1. pc[c] = "count" /\ UNCHANGED <<record, ovpn, pki, ccd, unsettled>> /\ Leave(c)
    BY <1>4 DEF Finish
  <2>2. \A v \in Users : Kept(c, v)
    BY <2>1, SameStores
  <2> QED BY <1>e, <2>1, <2>2, AllKept
<1>5. CASE StoreFails(c)
  <2>1. /\ pc[c] \in {"store", "count", "counted"} /\ UNCHANGED <<record, ovpn, pki, ccd>>
        /\ Leave(c) /\ unsettled' = unsettled \cup Torn(c)
    BY <1>5 DEF StoreFails
  <2>2. \A v \in Users : Switches(c, v) \/ Reissues(c, v) \/ Creates(c, v) => v \in unsettled'
    BY <2>1 DEF Torn
  <2>3. \A v \in Users : Kept(c, v)
    BY <2>1, <2>2, SameStores
  <2> QED BY <1>e, <2>1, <2>3, AllKept
<1>6. CASE MoveCcd(c)
  <2>1. /\ pc[c] = "move" /\ UNCHANGED <<record, ovpn, pki, job, unsettled>>
        /\ pc' = [pc EXCEPT ![c] = "store"] /\ job[c].op = "change"
        /\ ccd' = [ccd EXCEPT ![Me(c)] = [ccd[Me(c)] EXCEPT !.exists = TRUE, !.ip = job[c].ip]]
    BY <1>6, <1>t DEF MoveCcd, Goto, Knows
  <2>2. \A v \in Users : ccd'[v].off = ccd[v].off
    BY <2>1, <1>t DEF Ccds
  <2>3. \A v \in Users : Withdraws(v)
    BY <2>1, <2>2, SameStores
  <2>4. \A v \in Users : Kept(c, v)
    BY <2>1, <2>3
  <2>5. Carries(c)'
    BY <1>c, <1>t, <2>1 DEF Carries, Has, Busy
  <2> QED BY <2>4, <2>5, AllKept
<1>7. CASE UpdateSerial(c)
  <2>1. /\ pc[c] = "serial" /\ UNCHANGED <<record, ovpn, pki, ccd, unsettled>>
        /\ job[c].op = "renew"
    BY <1>7, <1>t DEF UpdateSerial, Knows, pki
  <2>2. CASE record[Me(c)].status = "none"
    <3>1. Leave(c)
      BY <1>7, <2>2 DEF UpdateSerial
    <3>2. \A v \in Users : Kept(c, v)
      BY <2>1, <2>2, SameStores DEF Has, Live
    <3> QED BY <1>e, <3>1, <3>2, AllKept
  <2>3. CASE record[Me(c)].status # "none"
    <3> DEFINE r == [record[Me(c)] EXCEPT !.serial = Serial(Me(c))]
    <3>1. /\ pc' = [pc EXCEPT ![c] = "store"]
          /\ job' = [job EXCEPT ![c] = [job[c] EXCEPT !.rec = r]]
      BY <1>7, <2>3 DEF UpdateSerial, Goto
    <3>2. r.status = record[Me(c)].status /\ r.group = record[Me(c)].group
      <4>1. record[Me(c)] \in Records
        BY <1>t, <2>1, UserOf
      <4> QED BY <4>1 DEF Records
    <3> HIDE DEF r
    <3>3. /\ pc'[c] = "store" /\ job'[c].op = "renew" /\ job'[c].user = job[c].user
          /\ job'[c].rec = r
      BY <3>1, <1>t, <2>1 DEF Jobs
    <3>4. \A v \in Users : Kept(c, v)
      BY <2>1, <3>3, SameStores
    <3>5. Carries(c)'
      BY <2>1, <3>2, <3>3 DEF Carries
    <3> QED BY <3>4, <3>5, AllKept
  <2> QED BY <2>2, <2>3
<1>8. CASE StoreGroup(c)
  <2>1. pc[c] = "group" /\ UNCHANGED <<record, ovpn, pki, ccd, unsettled>> /\ Leave(c)
    BY <1>8 DEF StoreGroup
  <2>2. \A v \in Users : Kept(c, v)
    BY <2>1, SameStores
  <2> QED BY <1>e, <2>1, <2>2, AllKept
<1>9. CASE Sign(c) /\ UNCHANGED index
  <2>1. pc[c] = "sign" /\ UNCHANGED <<record, ovpn, ccd, unsettled>> /\ Leave(c)
        /\ UNCHANGED pki
    <3>1. CASE Leave(c) /\ UNCHANGED <<index, issued>>
      BY <1>9, <3>1 DEF Sign, pki
    <3>2. CASE ~(Leave(c) /\ UNCHANGED <<index, issued>>)
      <4>1. pc[c] = "sign" /\ index' = [index EXCEPT ![Me(c)] = Append(@, "V")]
        BY <1>9, <3>2 DEF Sign
      <4>2. Me(c) \in Users
        BY <4>1, UserOf
      <4>3. index'[Me(c)] = Append(index[Me(c)], "V") /\ index'[Me(c)] = index[Me(c)]
        BY <4>1, <4>2, <1>t, <1>9
      <4>4. Len(Append(index[Me(c)], "V")) = Len(index[Me(c)]) + 1
            /\ Len(index[Me(c)]) \in Nat
        BY <4>2, <1>t, AppendProperties, LenProperties
      <4> QED BY <4>3, <4>4
    <3> QED BY <3>1, <3>2
  <2>2. \A v \in Users : Kept(c, v)
    BY <2>1, SameStores
  <2> QED BY <1>e, <2>1, <2>2, AllKept
<1>10. CASE (Profile(c) \/ Reload(c)) /\ Leave(c)
  <2>1. /\ pc[c] \in {"profile", "reload"} /\ UNCHANGED <<record, ccd, pki>> /\ Leave(c)
        /\ pc'[c] = "idle"
    BY <1>10, <1>e DEF Profile, Reload
  <2>2. /\ UNCHANGED ovpn
        /\ unsettled' = IF pc[c] = "profile" \/ job[c].op = "renew"
                        THEN unsettled \cup {Me(c)} ELSE unsettled
    BY <1>10, <2>1, <1>t DEF Profile, Reload, Goto
  <2>3. \A v \in Users : Kept(c, v)
    BY <2>1, <2>2, SameStores
  <2> QED BY <1>e, <2>1, <2>3, AllKept
<1> QED BY <1>1, <1>2, <1>3, <1>4, <1>5, <1>6, <1>7, <1>8, <1>9, <1>10

\* A revocation, of a deletion or of the certificates page.
LEMMA RevokeUser ==
  ASSUME TypeInv, TurnInv, UserInv, NEW c \in Callers, Others(c), Revoke(c) \/ GenCrl(c)
  PROVE  UserInv'
<1>t. /\ pc \in [Callers -> Steps] /\ job \in [Callers -> Jobs]
      /\ Knows(pc[c], job[c]) /\ index \in [Users -> Seq({"V", "R"})]
      /\ issued \subseteq Users
      /\ \A v \in Users : Len(index[v]) <= MaxCerts /\ (v \in issued => index[v] # <<>>)
  BY DEF TypeInv, CallTypes, StoreTypes
<1>c. Busy(c) => Carries(c)
  BY DEF UserInv
<1>e. Leave(c) => ~Busy(c)' /\ pc'[c] = "idle"
  BY CallEnds
<1>m. \A v \in Users : Len(index[v]) \in Nat /\ (index[v] # <<>> => Latest(v) \in 1 .. MaxCerts)
  BY <1>t, LenProperties, EmptySeq DEF Latest
<1> USE DEF Kept, Switches, Reissues, Creates, Me
<1>1. CASE Revoke(c)
  <2>1. /\ pc[c] = "revoke" /\ UNCHANGED <<record, ovpn, ccd, crl, unsettled>>
        /\ unrevoked \subseteq unrevoked'
    BY <1>1 DEF Revoke
  <2>2. PICK u \in Users : u = Me(c)
    BY <2>1, UserOf
  <2>3. \A v \in Users \ {u} : index'[v] = index[v] /\ (v \in issued' <=> v \in issued)
    BY <1>1, <1>t, <2>2 DEF Revoke
  <2>4. /\ Latest(u)' = Latest(u) /\ (index'[u] = <<>> <=> index[u] = <<>>)
        /\ \/ u \in issued /\ u \notin issued' /\ Ended(u)'
           \/ UNCHANGED <<index, issued>>
    <3>1. CASE u \in issued /\ index' # index
      <4> DEFINE line == [index[u] EXCEPT ![Latest(u)] = "R"]
      <4>1. Latest(u) \in 1 .. Len(index[u])
        BY <3>1, <1>t, EmptySeq DEF Latest
      <4>2. /\ line \in Seq({"V", "R"}) /\ Len(line) = Len(index[u])
            /\ line[Latest(u)] = "R"
        BY <4>1, <1>t, ExceptSeq, LenProperties
      <4>3. index'[u] = line /\ u \notin issued'
        BY <1>1, <1>t, <2>2, <3>1 DEF Revoke
      <4> HIDE DEF line
      <4>4. Latest(u)' = Latest(u) /\ index[u] # <<>> /\ Latest(u) # 0
        BY <4>1, <4>2, <4>3, <3>1, <1>t DEF Latest
      <4>5. index'[u] # <<>>
        BY <4>2, <4>3, <4>4, EmptySeq DEF Latest
      <4> QED BY <4>2, <4>3, <4>4, <4>5, <3>1 DEF Ended
    <3>2. CASE UNCHANGED <<index, issued>>
      BY <3>2 DEF Latest
    <3>3. CASE u \in issued /\ issued' = issued \ {u} /\ index' = index
      <4>1. index' = [index EXCEPT ![u] = [index[u] EXCEPT ![Latest(u)] = "R"]]
        BY <1>1, <2>2, <3>3 DEF Revoke
      <4>2. index[u] = [index[u] EXCEPT ![Latest(u)] = "R"]
        BY <4>1, <1>t, <3>3
      <4>3. Latest(u) \in 1 .. Len(index[u])
        BY <3>3, <1>t, EmptySeq DEF Latest
      <4>4. index[u][Latest(u)] = "R" /\ index[u] # <<>>
        BY <4>2, <4>3, <1>t, <3>3, ExceptSeq, LenProperties
      <4> QED BY <4>4, <3>3 DEF Ended, Latest
    <3> QED BY <1>1, <2>2, <3>1, <3>2, <3>3 DEF Revoke
  <2>5. Listed(u) => Listed(u)'
    BY <2>1, <2>4 DEF Listed
  <2>6. Withdraws(u)
    BY <2>1, <2>4, <2>5 DEF Withdraws, Ended, Latest
  <2>7. \A v \in Users \ {u} : Withdraws(v)
    BY <2>1, <2>3 DEF Withdraws, Latest, Ended, Listed
  <2>8. \A v \in Users : Kept(c, v)
    BY <2>1, <2>6, <2>7
  <2>9. CASE Leave(c)
    BY <1>e, <2>8, <2>9, AllKept
  <2>10. CASE ~Leave(c)
    <3>1. /\ pc' = [pc EXCEPT ![c] = "crl"] /\ UNCHANGED job
          /\ \/ u \in issued /\ u \notin issued' /\ Ended(u)'
             \/ UNCHANGED <<index, issued>> /\ unrevoked' = unrevoked \cup ({u} \cap issued)
      BY <1>1, <2>2, <2>4, <2>10 DEF Revoke, Goto
    <3>2. ASSUME job[c].op = "delete" PROVE Carries(c)'
      <4>1. Carries(c) /\ IndexOk(u)
        BY <1>c, <2>1, <2>2, <3>2 DEF Busy, UserInv
      <4>2. u \in unrevoked' \/ (u \notin issued' /\ Ended(u)')
        BY <4>1, <2>1, <2>2, <3>1, <3>2 DEF Carries, IndexOk, Ended, Latest
      <4> QED BY <4>1, <4>2, <1>t, <2>1, <2>2, <3>1, <3>2 DEF Carries
    <3>3. Busy(c)' => Carries(c)'
      BY <1>t, <2>1, <3>1, <3>2 DEF Busy, Knows
    <3> QED BY <2>8, <3>3, AllKept
  <2> QED BY <2>9, <2>10
<1>2. CASE GenCrl(c)
  <2>1. pc[c] = "crl" /\ UNCHANGED <<record, ovpn, ccd, index, issued, unsettled>>
    BY <1>2 DEF GenCrl
  <2>2. \A v \in Users : Ended(v) => \/ crl' = Revoked /\ Listed(v)'
                                     \/ crl' = crl /\ Leave(c)
    <3>1. CASE crl' = Revoked
      <4>1. ASSUME NEW v \in Users, Ended(v) PROVE Listed(v)'
        <5>1. <<v, Latest(v)>> \in Users \X (1 .. MaxCerts)
          BY <4>1, <1>m DEF Ended
        <5>2. <<v, Latest(v)>> \in Revoked
          BY <5>1, <4>1, <1>m DEF Revoked, Ended
        <5> QED BY <3>1, <5>2, <2>1 DEF Listed, Latest
      <4> QED BY <3>1, <4>1
    <3>2. CASE crl' # Revoked
      BY <1>2, <3>2 DEF GenCrl
    <3> QED BY <3>1, <3>2
  <2>u. ASSUME NEW v \in Users, v \in unrevoked \ unrevoked'
        PROVE  Ended(v)' /\ v \notin issued' /\ Listed(v)'
    <3>1. crl' = Revoked /\ <<v, Latest(v)>> \in Revoked
      BY <1>2, <2>u DEF GenCrl
    <3>2. index[v][Latest(v)] = "R" /\ Latest(v) \in 1 .. MaxCerts
      BY <3>1 DEF Revoked
    <3>3. index[v] # <<>>
      BY <3>2, <1>t, EmptySeq DEF Latest
    <3> QED BY <2>1, <3>1, <3>2, <3>3 DEF UserInv, IndexOk, Ended, Listed, Latest
  <2>3. \A v \in Users : Withdraws(v)
    BY <2>1, <2>2, <2>u DEF Withdraws, Latest, Ended, Listed
  <2>4. \A v \in Users : Kept(c, v)
    BY <2>1, <2>3
  <2>5. CASE Leave(c)
    BY <1>e, <2>4, <2>5, AllKept
  <2>6. CASE ~Leave(c)
    <3>1. /\ pc' = [pc EXCEPT ![c] = "files"] /\ UNCHANGED job /\ job[c].op = "delete"
      BY <1>2, <2>6 DEF GenCrl, Goto
    <3>2. Carries(c)
      BY <1>c, <2>1, <3>1 DEF Busy
    <3>3. PICK u \in Users : u = Me(c)
      BY <2>1, UserOf
    <3>4. u \in unrevoked \/ (u \notin issued /\ Ended(u))
      BY <2>1, <3>1, <3>2, <3>3 DEF Carries
    <3>5. \/ u \in unrevoked'
          \/ u \notin issued' /\ Ended(u)' /\ Listed(u)'
      BY <2>1, <2>2, <2>u, <2>6, <3>3, <3>4 DEF Ended, Latest
    <3>6. Carries(c)'
      BY <1>t, <2>1, <3>1, <3>2, <3>3, <3>5 DEF Carries
    <3> QED BY <2>4, <3>6, AllKept
  <2> QED BY <2>5, <2>6
<1> QED BY <1>1, <1>2

\* The steps that change a store of the call's user.
LEMMA ChangeUser ==
  ASSUME TypeInv, TurnInv, UserInv, NEW c \in Callers, Others(c),
         \/ Sign(c) /\ index' # index
         \/ (Profile(c) \/ Reload(c)) /\ ~Leave(c)
         \/ WriteCcd(c) \/ Store(c) \/ RemoveFiles(c) \/ SwitchCcd(c)
  PROVE  UserInv'
<1>t. /\ pc \in [Callers -> Steps] /\ job \in [Callers -> Jobs] /\ job[c] \in Jobs
      /\ Knows(pc[c], job[c]) /\ ccd \in [Users -> Ccds] /\ record \in [Users -> Records]
      /\ ovpn \in [Users -> 0 .. MaxCerts] /\ index \in [Users -> Seq({"V", "R"})]
      /\ \A v \in Users : v \in issued => index[v] # <<>>
  BY DEF TypeInv, CallTypes, StoreTypes
<1>b. Busy(c) /\ pc[c] \notin {"idle", "group"}
  BY <1>t DEF Sign, Profile, Reload, WriteCcd, Store, RemoveFiles, SwitchCcd, Busy, Knows,
              TurnInv, OpAt
<1>u. PICK u \in Users : u = Me(c)
  BY <1>b, UserOf
<1>o. \A d \in Callers \ {c} : ~Busy(d)
  BY <1>b, OneBusy
<1>k. /\ Carries(c) /\ IndexOk(u) /\ (u \notin unsettled => Agree(u, {c}))
      /\ OpAt(pc[c], job[c].op)
  BY <1>b, <1>o, OneKnows DEF UserInv, TurnInv
<1>e. Leave(c) => ~Busy(c)' /\ pc'[c] = "idle"
  BY CallEnds
<1> SUFFICES /\ \A v \in Users \ {u} : Kept(c, v)
             /\ IndexOk(u)' /\ (u \notin unsettled' => Agree(u, {c})')
             /\ Busy(c)' => Carries(c)'
  BY <1>o, OneChanged
<1> USE DEF Switches, Reissues, Creates, Me
<1>1. CASE Sign(c) /\ index' # index
  <2>1. /\ pc[c] = "sign" /\ pc'[c] = "profile" /\ job' = job /\ job[c].op = "create"
        /\ index' = [index EXCEPT ![u] = Append(@, "V")] /\ issued' = issued \cup {u}
        /\ UNCHANGED <<record, ovpn, ccd, crl, unrevoked, unsettled>>
    BY <1>1, <1>t, <1>u DEF Sign, Goto, Knows
  <2>2. index'[u] # <<>> /\ ~Ended(u)' /\ \A v \in Users \ {u} : index'[v] = index[v]
    <3>1. index \in [Users -> Seq({"V", "R"})]
      BY <1>t
    <3>2. index[u] \in Seq({"V", "R"}) /\ index'[u] = Append(index[u], "V")
      BY <2>1, <3>1
    <3>3. index'[u] # <<>> /\ ~Ended(u)'
      BY <3>2, NewestIsValid
    <3> QED BY <2>1, <3>1, <3>3
  <2>3. \A v \in Users \ {u} : Kept(c, v)
    BY <2>1, <2>2, <1>u DEF Kept, Withdraws, Latest, Ended, Listed
  <2>4. IndexOk(u)' /\ (u \notin unsettled' => Agree(u, {c})') /\ Carries(c)'
    BY <2>1, <2>2, <1>k, <1>u DEF IndexOk, Agree, Carries, Has, Live
  <2> QED BY <2>3, <2>4
<1>2. CASE Profile(c) /\ ~Leave(c)
  <2> DEFINE r == [status |-> "active", group |-> job[c].to, serial |-> Serial(Me(c))]
  <2>1. /\ pc[c] = "profile" /\ pc' = [pc EXCEPT ![c] = "address"]
        /\ ovpn' = [ovpn EXCEPT ![u] = Latest(u)]
        /\ job' = [job EXCEPT ![c] = [job[c] EXCEPT !.rec = r]]
        /\ UNCHANGED <<record, pki, ccd, unsettled>> /\ job[c].op = "create"
    BY <1>2, <1>t, <1>u DEF Profile, Goto, Knows
  <2>2. r.status = "active" /\ r.group = job[c].to
    OBVIOUS
  <2> HIDE DEF r
  <2>3. /\ pc'[c] = "address" /\ job'[c].op = "create" /\ job'[c].user = u
        /\ job'[c].to = job[c].to /\ job'[c].rec = r
    BY <2>1, <1>t, <1>u DEF Jobs
  <2>4. ovpn'[u] = Latest(u) /\ \A v \in Users \ {u} : ovpn'[v] = ovpn[v]
    BY <2>1, <1>t
  <2>5. \A v \in Users \ {u} : Kept(c, v)
    BY <2>1, <2>4, <1>u DEF Kept, Withdraws, Latest, Ended, Listed, pki
  <2>6. IndexOk(u)' /\ (u \notin unsettled' => Agree(u, {c})')
    BY <2>1, <2>3, <2>4, <1>k, <1>u
       DEF IndexOk, Agree, Carries, Has, Live, Latest, Ended, Listed, pki
  <2>7. Carries(c)'
    BY <2>1, <2>2, <2>3, <2>4, <1>k, <1>u DEF Carries, Has, Latest, pki
  <2> QED BY <2>5, <2>6, <2>7
<1>3. CASE Reload(c) /\ ~Leave(c)
  <2>1. /\ pc[c] = "reload" /\ pc' = [pc EXCEPT ![c] = "store"]
        /\ ovpn' = [ovpn EXCEPT ![u] = Latest(u)] /\ Has(u)
        /\ job' = [job EXCEPT ![c] = [job[c] EXCEPT !.op = "regenerate", !.rec = record[u]]]
        /\ UNCHANGED <<record, pki, ccd, unsettled>>
    BY <1>3, <1>t, <1>u DEF Reload, Goto, Has
  <2>3. /\ pc'[c] = "store" /\ job'[c].op = "regenerate" /\ job'[c].user = u
        /\ job'[c].rec = record[u]
    BY <2>1, <1>t, <1>u DEF Jobs
  <2>4. ovpn'[u] = Latest(u) /\ \A v \in Users \ {u} : ovpn'[v] = ovpn[v]
    BY <2>1, <1>t
  <2>5. \A v \in Users \ {u} : Kept(c, v)
    BY <2>1, <2>4, <1>u DEF Kept, Withdraws, Latest, Ended, Listed, pki
  <2>6. IndexOk(u)' /\ (u \notin unsettled' => Agree(u, {c})')
    BY <2>1, <2>3, <2>4, <1>k, <1>u
       DEF IndexOk, Agree, Has, Live, Latest, Ended, Listed, pki
  <2>7. Carries(c)'
    BY <2>1, <2>3, <1>u DEF Carries
  <2> QED BY <2>5, <2>6, <2>7
<1>4. CASE WriteCcd(c)
  <2>1. /\ pc[c] = "newccd" /\ pc' = [pc EXCEPT ![c] = "store"]
        /\ ccd' = [ccd EXCEPT ![u] = [exists |-> TRUE, ip |-> job[c].ip, off |-> FALSE]]
        /\ UNCHANGED <<record, pki, ovpn, job, unsettled>> /\ job[c].op = "create"
    BY <1>4, <1>t, <1>u DEF WriteCcd, Goto, Knows
  <2>2. pc'[c] = "store" /\ ~ccd'[u].off /\ \A v \in Users \ {u} : ccd'[v] = ccd[v]
    BY <2>1, <1>t
  <2>5. \A v \in Users \ {u} : Kept(c, v)
    BY <2>1, <2>2, <1>u DEF Kept, Withdraws, Latest, Ended, Listed, pki
  <2>6. IndexOk(u)' /\ (u \notin unsettled' => Agree(u, {c})')
    BY <2>1, <2>2, <1>k, <1>u
       DEF IndexOk, Agree, Carries, Has, Live, Latest, Ended, Listed, pki
  <2>7. Carries(c)'
    BY <2>1, <2>2, <1>k, <1>u DEF Carries, Has, Latest, pki
  <2> QED BY <2>5, <2>6, <2>7
<1>5. CASE Store(c)
  <2>1. /\ pc[c] = "store" /\ record' = [record EXCEPT ![u] = job[c].rec]
        /\ UNCHANGED <<pki, ovpn, ccd>> /\ unsettled \ {u} \subseteq unsettled'
    BY <1>5, <1>t, <1>u DEF Store, Knows
  <2>2. record'[u] = job[c].rec /\ \A v \in Users \ {u} : record'[v] = record[v]
    BY <2>1, <1>t
  <2>3. job[c].op # "delete" => unsettled' = unsettled
    BY <1>5, <2>1, <1>t DEF Store, Knows
  <2>4. \/ job[c].op \in {"create", "delete", "change"} /\ pc'[c] = "count" /\ job' = job
        \/ job[c].op = "toggle" /\ pc'[c] = "switch" /\ job' = job
        \/ job[c].op = "renew" /\ pc'[c] = "reload" /\ job' = job
        \/ job[c].op = "regenerate" /\ pc'[c] = "idle"
    BY <1>5, <1>e, <2>1, <1>t DEF Store, Knows, Goto
  <2>5. \A v \in Users \ {u} : Kept(c, v)
    BY <2>1, <2>2, <1>u DEF Kept, Withdraws, Latest, Ended, Listed, pki
  <2>6. IndexOk(u)'
    BY <2>1, <2>2, <2>4, <1>k, <1>u DEF IndexOk, Ended, Latest, pki, Carries, Has, Live
  <2>7. ASSUME u \notin unsettled' PROVE Agree(u, {c})'
    <3>1. CASE job[c].op = "delete"
      BY <2>1, <2>2, <3>1, <1>k, <1>u
         DEF Agree, Carries, Has, Live, Latest, Ended, Listed, pki
    <3>2. CASE job[c].op = "create"
      BY <2>1, <2>2, <3>2, <1>k, <1>u
         DEF Agree, Carries, Has, Live, Latest, Ended, Listed, pki
    <3>3. CASE job[c].op \notin {"create", "delete"}
      <4>1. Agree(u, {c})
        BY <2>3, <2>7, <3>3, <1>k
      <4> QED
        BY <2>1, <2>2, <2>4, <3>3, <4>1, <1>k, <1>u
           DEF Agree, Carries, Has, Live, Latest, Ended, Listed, pki
    <3> QED BY <3>1, <3>2, <3>3
  <2>8. Busy(c)' => Carries(c)'
    BY <2>1, <2>2, <2>4, <1>k, <1>u DEF Carries, Busy
  <2> QED BY <2>5, <2>6, <2>7, <2>8
<1>6. CASE RemoveFiles(c)
  <2>1. /\ pc[c] = "files" /\ pc' = [pc EXCEPT ![c] = "store"] /\ job[c].op = "delete"
        /\ ovpn' = [ovpn EXCEPT ![u] = 0] /\ ccd' = [ccd EXCEPT ![u] = NoCcd]
        /\ issued' \in {issued, issued \ {u}}
        /\ UNCHANGED <<record, index, crl, unrevoked, job, unsettled>>
    BY <1>6, <1>t, <1>u DEF RemoveFiles, Goto, Knows
  <2>2. /\ pc'[c] = "store"
        /\ \A v \in Users \ {u} : ovpn'[v] = ovpn[v] /\ ccd'[v] = ccd[v]
    BY <2>1, <1>t
  <2>3. /\ issued' \subseteq issued /\ \A v \in Users \ {u} : v \in issued' <=> v \in issued
        /\ u \in unrevoked \/ issued' = issued
    BY <2>1, <1>k, <1>u DEF Carries
  <2>5. \A v \in Users \ {u} : Kept(c, v)
    BY <2>1, <2>2, <2>3, <1>u DEF Kept, Withdraws, Latest, Ended, Listed
  <2>6. IndexOk(u)' /\ (u \notin unsettled' => Agree(u, {c})')
    BY <2>1, <2>2, <2>3, <1>k, <1>u
       DEF IndexOk, Agree, Carries, Has, Latest, Ended, Listed
  <2>7. Carries(c)'
    BY <2>1, <2>2, <2>3, <1>k, <1>u DEF Carries, Latest, Ended, Listed
  <2> QED BY <2>5, <2>6, <2>7
<1>7. CASE SwitchCcd(c)
  <2>1. /\ pc[c] = "switch" /\ Leave(c) /\ UNCHANGED <<record, pki, ovpn, unsettled>>
        /\ job[c].op = "toggle"
    BY <1>7, <1>k DEF SwitchCcd, OpAt
  <2>2. /\ ccd'[u].off <=> job[c].rec.status = "disabled"
        /\ \A v \in Users \ {u} : ccd'[v] = ccd[v]
    <3> DEFINE off == job[c].rec.status = "disabled"
    <3>1. ccd' = [ccd EXCEPT ![u] = IF @.exists THEN [@ EXCEPT !.off = off]
                                    ELSE [@ EXCEPT !.exists = off, !.off = off]]
      BY <1>7, <1>u DEF SwitchCcd
    <3> HIDE DEF off
    <3>2. \A f \in Ccds : /\ [f EXCEPT !.off = off].off = off
                          /\ [f EXCEPT !.exists = off, !.off = off].off = off
      BY DEF Ccds
    <3>3. ccd'[u].off = off /\ \A v \in Users \ {u} : ccd'[v] = ccd[v]
      BY <3>1, <3>2, <1>t
    <3> QED BY <3>3 DEF off
  <2>5. \A v \in Users \ {u} : Kept(c, v)
    BY <2>1, <2>2, <1>u DEF Kept, Withdraws, Latest, Ended, Listed, pki
  <2>6. IndexOk(u)' /\ (u \notin unsettled' => Agree(u, {c})')
    BY <2>1, <2>2, <1>e, <1>k, <1>u
       DEF IndexOk, Agree, Carries, Has, Latest, Ended, Listed, pki
  <2> QED BY <2>5, <2>6, <2>1, <1>e
<1> QED BY <1>1, <1>2, <1>3, <1>4, <1>5, <1>6, <1>7

\* A crash leaves unsettled what the calls had yet to do.
LEMMA CrashUser ==
  ASSUME UserInv, Crash
  PROVE  UserInv'
<1>1. /\ UNCHANGED <<record, ovpn, ccd, pki>>
      /\ unsettled' = unsettled \cup UNION {Torn(c) : c \in Callers}
      /\ \A c \in Callers : ~Busy(c)'
  BY DEF Crash, Busy
<1>2. \A c \in Callers, u \in Users :
         Switches(c, u) \/ Reissues(c, u) \/ Creates(c, u) => u \in Torn(c)
  BY DEF Switches, Reissues, Creates, Torn, Me
<1>3. ASSUME NEW u \in Users \ unsettled' PROVE Agree(u, Callers)'
  <2>1. /\ u \notin unsettled
        /\ \A c \in Callers : ~Switches(c, u) /\ ~Reissues(c, u) /\ ~Creates(c, u)
    BY <1>1, <1>2
  <2> QED BY <1>1, <2>1 DEF UserInv, Agree, Has, Ended, Listed, Latest, pki
<1>4. \A u \in Users : IndexOk(u)'
  BY <1>1 DEF UserInv, IndexOk, Ended, Latest, pki
<1> QED BY <1>1, <1>3, <1>4 DEF UserInv

\* Every step, a crash included.
LEMMA NextUserInv ==
  ASSUME Turns, TypeInv, AddressInv, TurnInv, UserInv, [Next]_vars
  PROVE  TurnInv' /\ UserInv'
<1>1. CASE UNCHANGED vars
  BY <1>1 DEF vars, pki, TurnInv, Busy, UserInv, Carries, IndexOk, Agree, Switches,
              Reissues, Creates, Ended, Listed, Latest, Has, Me
<1>2. CASE Crash
  BY <1>2, CrashTurn, CrashUser
<1>3. ASSUME NEW c \in Callers, Start(c) PROVE TurnInv' /\ UserInv'
  BY <1>3, StartBegin, StartTurn, StartUser
<1>4. ASSUME NEW c \in Callers, Step(c) PROVE TurnInv' /\ UserInv'
  <2>1. Others(c)
    BY <1>4, StepHasEffect DEF AddressInv, StepEffect, Others
  <2>2. TurnInv'
    BY <1>4, StepTurn DEF AddressInv
  <2>3. UserInv'
    BY <1>4, <2>1, QuietUser, RevokeUser, ChangeUser DEF Step
  <2> QED BY <2>2, <2>3
<1> QED BY <1>1, <1>2, <1>3, <1>4 DEF Next

(***************************************************************************)
(* user_count                                                              *)
(***************************************************************************)

Members(g) == {u \in Users : Has(u) /\ record[u].group = g}

\* A change of g's user_count is among those a call has still to make.
Due(due, g, way) == \E i \in DOMAIN due : due[i] = <<g, way>>

Owes(c, g, way) == pc[c] \in {"count", "counted"} /\ Due(job[c].due, g, way)

Owed(g, way, S) == IF \E c \in S : Owes(c, g, way) THEN 1 ELSE 0

\* user_count is the number of users, but for what the calls in S have to do.
Balance(g, S) ==
    group[g].count + Owed(g, "join", S) = Cardinality(Members(g)) + Owed(g, "leave", S)

\* What is left of the changes a call began with.
Rest(due, op, to) ==
    \/ due = <<>>
    \/ \E g \in Groups : due = <<<<g, "leave">>>>
    \/ due = <<<<to, "join">>>> /\ op \in {"create", "change"}
    \/ /\ \E g \in Groups \ {to} : due = <<<<g, "leave">>, <<to, "join">>>>
       /\ op \in {"create", "change"}

\* What a call has to count, and for which row.
Dues(c) ==
    LET op == job[c].op  u == Me(c)  due == job[c].due  to == job[c].to IN
    /\ op \in {"create", "change"} /\ pc[c] # "enter" => to \in Groups /\ group[to].exists
    /\ op = "create" /\ pc[c] \in {"enter", "sign", "profile", "address", "newccd", "store"}
         => due = <<<<to, "join">>>>
    /\ op = "delete" /\ pc[c] \in {"revoke", "crl", "files", "store"}
         => Has(u) /\ due = <<<<record[u].group, "leave">>>>
    /\ op = "change" /\ pc[c] \in {"move", "store"}
         => due = <<<<record[u].group, "leave">>, <<to, "join">>>>
    /\ pc[c] \in {"count", "counted"} => Rest(due, op, to)
    /\ pc[c] = "counted" => job[c].row = group[Head(due)[1]] /\ job[c].row.exists
    /\ op = "group" => /\ to \in Groups /\ job[c].row.count = group[to].count
                       /\ ~job[c].row.exists => job[c].row.count = 0

CountInv ==
    /\ \A c \in Callers : pc[c] # "idle" => Dues(c)
    /\ \A g \in Groups : (~group[g].exists => group[g].count = 0) /\ IsFiniteSet(Members(g))
    /\ \A g \in Groups \ unsettled : Balance(g, Callers)

\* The changes a call has to make, one after the other.
LEMMA DueLists ==
  ASSUME NEW g, NEW way, NEW h, NEW other
  PROVE  /\ Head(<<<<g, way>>>>) = <<g, way>> /\ Tail(<<<<g, way>>>>) = <<>>
         /\ Head(<<<<g, way>>, <<h, other>>>>) = <<g, way>>
         /\ Tail(<<<<g, way>>, <<h, other>>>>) = <<<<h, other>>>>
         /\ \A i, w : ~Due(<<>>, i, w)
         /\ \A i, w : Due(<<<<g, way>>>>, i, w) <=> i = g /\ w = way
         /\ \A i, w : Due(<<<<g, way>>, <<h, other>>>>, i, w) <=>
                         (i = g /\ w = way) \/ (i = h /\ w = other)
<1>1. Head(<<<<g, way>>>>) = <<g, way>> /\ Tail(<<<<g, way>>>>) = <<>>
  OBVIOUS
<1>2. Head(<<<<g, way>>, <<h, other>>>>) = <<g, way>>
  OBVIOUS
<1>3. Tail(<<<<g, way>>, <<h, other>>>>) = <<<<h, other>>>>
  OBVIOUS
<1>4. \A i, w : ~Due(<<>>, i, w)
  BY DEF Due
<1>5. \A i, w : Due(<<<<g, way>>>>, i, w) <=> i = g /\ w = way
  BY DEF Due
<1>6. \A i, w : Due(<<<<g, way>>, <<h, other>>>>, i, w) <=>
                         (i = g /\ w = way) \/ (i = h /\ w = other)
  BY DEF Due
<1> QED BY <1>1, <1>2, <1>3, <1>4, <1>5, <1>6

\* One change to make.
LEMMA DueOne ==
  ASSUME NEW due, NEW g, NEW way, due = <<<<g, way>>>>
  PROVE  \A i, w : Due(due, i, w) <=> i = g /\ w = way
BY DEF Due

\* Two changes to make.
LEMMA DueTwo ==
  ASSUME NEW due, NEW g, NEW h, due = <<<<g, "leave">>, <<h, "join">>>>
  PROVE  \A i, w : Due(due, i, w) <=> (i = g /\ w = "leave") \/ (i = h /\ w = "join")
BY DEF Due

\* A set with one member more or less.
LEMMA OneMore ==
  ASSUME NEW S, IsFiniteSet(S), NEW x
  PROVE  /\ IsFiniteSet(S \cup {x}) /\ IsFiniteSet(S \ {x})
         /\ Cardinality(S) \in Nat
         /\ x \notin S => Cardinality(S \cup {x}) = Cardinality(S) + 1
         /\ x \in S => S \cup {x} = S /\ Cardinality(S \ {x}) = Cardinality(S) - 1
         /\ x \notin S => S \ {x} = S
<1>1. /\ IsFiniteSet(S \cup {x})
      /\ Cardinality(S \cup {x}) = IF x \in S THEN Cardinality(S) ELSE Cardinality(S) + 1
  BY FS_AddElement
<1>2. /\ IsFiniteSet(S \ {x})
      /\ Cardinality(S \ {x}) = IF x \in S THEN Cardinality(S) - 1 ELSE Cardinality(S)
  BY FS_RemoveElement
<1>3. Cardinality(S) \in Nat
  BY FS_CardinalityType
<1>4. (x \in S => S \cup {x} = S) /\ (x \notin S => S \ {x} = S)
  OBVIOUS
<1> QED BY <1>1, <1>2, <1>3, <1>4

\* At first no group has a user.
LEMMA InitCountInv == Init => CountInv
<1> SUFFICES ASSUME Init PROVE CountInv
  OBVIOUS
<1>1. \A g \in Groups : Members(g) = {} /\ group[g].count = 0
  BY DEF Init, NoRecord, NoRow, Members, Has, Live
<1>2. \A g \in Groups : IsFiniteSet(Members(g)) /\ Cardinality(Members(g)) = 0
  BY <1>1, FS_EmptySet
<1>3. \A c \in Callers, g \in Groups, way \in {"leave", "join"} : ~Owes(c, g, way)
  BY DEF Init, Owes
<1>4. \A g \in Groups : Balance(g, Callers)
  BY <1>1, <1>2, <1>3 DEF Balance, Owed
<1>5. \A c \in Callers : pc[c] = "idle"
  BY DEF Init
<1> QED BY <1>1, <1>2, <1>4, <1>5 DEF CountInv

\* At rest no change is left to make.
LEMMA CountInvAtRest == TypeInv /\ CountInv => CountsMatch
<1> SUFFICES ASSUME TypeInv, CountInv, AtRest, NEW g \in Groups \ unsettled
             PROVE  group[g].count = Cardinality(Members(g))
  BY DEF CountsMatch, Members
<1>1. Balance(g, Callers) /\ IsFiniteSet(Members(g)) /\ group[g].count \in Nat
  BY DEF CountInv, TypeInv, StoreTypes, GroupRows
<1>2. \A way \in {"leave", "join"} : Owed(g, way, Callers) = 0
  BY DEF Owed, Owes, AtRest
<1> QED BY <1>1, <1>2, FS_CardinalityType DEF Balance

\* A step that changes neither membership nor user_count.
LEMMA QuietCounts ==
  ASSUME TypeInv, CountInv, NEW c \in Callers, Others(c), group' = group,
         \A v \in Users : (Has(v)' <=> Has(v)) /\ record'[v].group = record[v].group,
         \A g \in Groups : g \in unsettled => g \in unsettled',
         \A g \in Groups \ unsettled' :
            \A way \in {"leave", "join"} : Owes(c, g, way)' <=> Owes(c, g, way),
         pc'[c] # "idle" => Dues(c)'
  PROVE  CountInv'
<1>1. ASSUME NEW d \in Callers \ {c}, pc'[d] # "idle" PROVE Dues(d)'
  <2>1. Dues(d) /\ pc'[d] = pc[d] /\ job'[d] = job[d]
    BY <1>1 DEF CountInv, Others
  <2>2. CASE pc[d] = "group"
    <3>1. job'[d].user = job[d].user
      BY <2>1
    <3> QED BY <2>1, <2>2 DEF Dues
  <2>3. CASE pc[d] # "group"
    <3>1. PICK v \in Users : Me(d) = v
      BY <1>1, <2>1, <2>3, UserOf
    <3>2. Me(d)' = v
      BY <2>1, <3>1 DEF Me
    <3> QED BY <2>1, <3>1, <3>2 DEF Dues
  <2> QED BY <2>2, <2>3
<1>2. \A g \in Groups : Members(g)' = Members(g)
  BY DEF Members
<1>3. ASSUME NEW g \in Groups \ unsettled' PROVE Balance(g, Callers)'
  <2>1. Balance(g, Callers)
    BY <1>3 DEF CountInv
  <2>2. \A d \in Callers, way \in {"leave", "join"} : Owes(d, g, way)' <=> Owes(d, g, way)
    BY <1>3 DEF Owes, Others
  <2>3. \A way \in {"leave", "join"} : Owed(g, way, Callers)' = Owed(g, way, Callers)
    BY <2>2 DEF Owed
  <2> QED BY <1>2, <2>1, <2>3 DEF Balance
<1> QED BY <1>1, <1>2, <1>3 DEF CountInv

\* A step of the only call that changes stores: what it has to show.
LEMMA CountsChange ==
  ASSUME TypeInv, TurnInv, CountInv, NEW c \in Callers, Others(c), Busy(c),
         pc'[c] # "idle" => Dues(c)',
         \A g \in Groups : (~group'[g].exists => group'[g].count = 0) /\ IsFiniteSet(Members(g))',
         \A g \in Groups \ unsettled' : Balance(g, {c})'
  PROVE  CountInv'
<1>1. \A d \in Callers \ {c} : ~Busy(d) /\ pc'[d] = pc[d] /\ job'[d] = job[d]
  BY OneBusy DEF Others
<1>2. ASSUME NEW d \in Callers \ {c}, pc'[d] # "idle" PROVE Dues(d)'
  <2>1. Dues(d) /\ pc[d] # "idle" /\ OpAt(pc[d], job[d].op)
        /\ (pc[d] = "enter" => job[d].op = "create")
    BY <1>1, <1>2 DEF CountInv, TurnInv, TypeInv, CallTypes, Knows
  <2>2. CASE pc[d] = "enter"
    BY <1>1, <2>1, <2>2 DEF Dues
  <2>3. CASE job[d].op = "revoke"
    BY <1>1, <2>1, <2>3 DEF Dues, OpAt
  <2> QED BY <1>1, <2>1, <2>2, <2>3 DEF Busy
<1>3. ASSUME NEW g \in Groups \ unsettled' PROVE Balance(g, Callers)'
  <2>1. \A d \in Callers \ {c}, way \in {"leave", "join"} : ~Owes(d, g, way)'
    <3>1. \A d \in Callers \ {c} : pc[d] \notin {"count", "counted"}
      BY <1>1 DEF Busy, TurnInv, OpAt
    <3> QED BY <1>1, <3>1 DEF Owes
  <2>2. \A way \in {"leave", "join"} : Owed(g, way, Callers)' = Owed(g, way, {c})'
    BY <2>1 DEF Owed
  <2> QED BY <1>3, <2>2 DEF Balance
<1> QED BY <1>2, <1>3 DEF CountInv

\* What the call knows of a group.
LEMMA CountKnows ==
  ASSUME TypeInv, TurnInv, CountInv, NEW c \in Callers, Busy(c), NEW g \in Groups
  PROVE  /\ g \notin unsettled => Balance(g, {c})
         /\ IsFiniteSet(Members(g)) /\ Cardinality(Members(g)) \in Nat
         /\ group[g] \in GroupRows /\ group[g].count \in Nat
         /\ ~group[g].exists => group[g].count = 0
<1>1. \A d \in Callers \ {c}, way \in {"leave", "join"} : ~Owes(d, g, way)
  BY OneBusy DEF Owes, Busy, TurnInv, OpAt
<1>2. \A way \in {"leave", "join"} : Owed(g, way, Callers) = Owed(g, way, {c})
  BY <1>1 DEF Owed
<1>3. g \notin unsettled => Balance(g, {c})
  BY <1>2 DEF CountInv, Balance
<1>4. IsFiniteSet(Members(g)) /\ (~group[g].exists => group[g].count = 0)
  BY DEF CountInv
<1>5. group[g] \in GroupRows /\ group[g].count \in Nat
  BY DEF TypeInv, StoreTypes, GroupRows
<1> QED BY <1>3, <1>4, <1>5, FS_CardinalityType

\* A call begins; a user it deletes is a member.
LEMMA StartCounts ==
  ASSUME Turns, ~Stale, TypeInv, TypeInv', CountInv, NEW c \in Callers, Begin(c)
  PROVE  CountInv'
<1>1. /\ pc[c] = "idle" /\ Opens(pc'[c], job'[c]) /\ Others(c)
      /\ UNCHANGED <<record, group, unsettled>>
  BY DEF Begin, Others, Opens
<1>2. pc'[c] \notin {"count", "counted"}
  BY <1>1 DEF Opens
<1>3. Knows(pc'[c], job'[c])
  BY DEF TypeInv, CallTypes
<1>4. Dues(c)'
  <2>1. CASE job'[c].op \in {"create", "toggle", "regenerate", "revoke", "renew"}
    BY <1>1, <1>2, <2>1 DEF Opens, Dues
  <2>2. CASE job'[c].op = "delete"
    BY <1>1, <1>2, <2>2 DEF Opens, Dues, Has, Me
  <2>3. CASE job'[c].op = "change"
    BY <1>1, <1>2, <1>3, <2>3 DEF Opens, Dues, Has, Live, Me, Knows
  <2>4. CASE job'[c].op = "group"
    BY <1>1, <1>2, <1>3, <2>4 DEF Opens, Dues, Knows, CountInv
  <2> QED BY <1>1, <2>1, <2>2, <2>3, <2>4 DEF Opens
<1>5. \A g \in Groups, way \in {"leave", "join"} : Owes(c, g, way)' <=> Owes(c, g, way)
  BY <1>1, <1>2 DEF Owes
<1>6. \A v \in Users : (Has(v)' <=> Has(v)) /\ record'[v].group = record[v].group
  BY <1>1 DEF Has
<1> QED BY <1>1, <1>4, <1>5, <1>6, QuietCounts

\* The steps that change neither membership nor user_count.
LEMMA QuietStepCounts ==
  ASSUME TypeInv, TurnInv, UserInv, CountInv, NEW c \in Callers, Others(c), Step(c),
         ~ReadCount(c), ~WriteCount(c), ~StoreGroup(c),
         Store(c) => job[c].op \notin {"create", "delete", "change"}
  PROVE  CountInv'
<1>t. /\ pc \in [Callers -> Steps] /\ job \in [Callers -> Jobs] /\ job[c] \in Jobs
      /\ Knows(pc[c], job[c]) /\ record \in [Users -> Records] /\ group \in [Groups -> GroupRows]
  BY DEF TypeInv, CallTypes, StoreTypes
<1>i. pc[c] # "idle"
  BY DEF Step, Enter, Sign, Profile, Address, WriteCcd, Store, ReadCount, WriteCount, Finish,
         StoreFails, Revoke, GenCrl, RemoveFiles, SwitchCcd, MoveCcd, UpdateSerial, Reload,
         StoreGroup
<1>d. Dues(c)
  BY <1>i DEF CountInv
<1>o. OpAt(pc[c], job[c].op) /\ (Busy(c) => Carries(c))
  BY <1>i DEF TurnInv, UserInv
<1>e. Leave(c) => pc'[c] = "idle"
  BY CallEnds
<1>m. pc[c] # "group" => Me(c) \in Users
  BY <1>i, UserOf
<1>1. /\ group' = group /\ unsettled \subseteq unsettled'
      /\ \A v \in Users : (Has(v)' <=> Has(v)) /\ record'[v].group = record[v].group
  <2>1. CASE Store(c)
    <3>1. PICK u \in Users : u = Me(c)
      BY <1>m, <2>1 DEF Store
    <3>2. /\ pc[c] = "store" /\ record' = [record EXCEPT ![u] = job[c].rec]
          /\ UNCHANGED <<group, unsettled>>
      BY <1>t, <2>1, <3>1 DEF Store, Knows
    <3>3. job[c].op \in {"toggle", "renew", "regenerate"} /\ Carries(c)
      BY <1>o, <1>t, <2>1, <3>2 DEF Knows, Busy
    <3>4. /\ (job[c].rec.status \in Live <=> Has(u)) /\ job[c].rec.group = record[u].group
      BY <3>1, <3>2, <3>3 DEF Carries, Has
    <3>5. record'[u] = job[c].rec /\ \A v \in Users \ {u} : record'[v] = record[v]
      BY <3>2, <1>t
    <3> QED BY <3>2, <3>4, <3>5 DEF Has
  <2>2. CASE ~Store(c)
    <3>1. record' = record /\ group' = group /\ unsettled \subseteq unsettled'
      BY <2>2 DEF Step, Enter, Sign, Profile, Address, WriteCcd, Finish, StoreFails, Revoke,
         GenCrl, RemoveFiles, SwitchCcd, MoveCcd, UpdateSerial, Reload
    <3> QED BY <3>1 DEF Has
  <2> QED BY <2>1, <2>2
<1>2. ASSUME pc'[c] # "idle"
      PROVE  /\ pc[c] \notin {"count", "counted"} /\ pc'[c] \notin {"count", "counted"}
             /\ Dues(c)'
  <2>1. Continues(c)
    BY <1>2, <1>o, StepContinues
  <2>2. job'[c].due = job[c].due
    <3>1. ASSUME NEW x, job' = [job EXCEPT ![c] = [job[c] EXCEPT !.row = x]]
          PROVE  job'[c].due = job[c].due
      BY <3>1, <1>t DEF Jobs
    <3>2. ASSUME NEW x, job' = [job EXCEPT ![c] = [job[c] EXCEPT !.rec = x]]
          PROVE  job'[c].due = job[c].due
      BY <3>2, <1>t DEF Jobs
    <3>3. ASSUME NEW x, job' = [job EXCEPT ![c] = [job[c] EXCEPT !.ip = x]]
          PROVE  job'[c].due = job[c].due
      BY <3>3, <1>t DEF Jobs
    <3>4. CASE Enter(c)
      BY <1>2, <1>e, <3>1, <3>4 DEF Enter
    <3>5. CASE Profile(c)
      BY <1>2, <1>e, <3>2, <3>5 DEF Profile
    <3>6. CASE Address(c)
      BY <1>2, <1>e, <3>3, <3>6 DEF Address
    <3>7. CASE UpdateSerial(c)
      BY <1>2, <1>e, <3>2, <3>7 DEF UpdateSerial
    <3>8. CASE Reload(c)
      <4>1. job' = [job EXCEPT ![c] = [job[c] EXCEPT !.op = "regenerate", !.rec = record[Me(c)]]]
        BY <1>2, <1>e, <3>8 DEF Reload
      <4> QED BY <4>1, <1>t DEF Jobs
    <3>9. CASE ~(Enter(c) \/ Address(c) \/ UpdateSerial(c) \/ Profile(c) \/ Reload(c))
      <4>1. job' = job
        BY <1>2, <1>e, <1>t, <3>9 DEF Step, Sign, WriteCcd, Store, Finish, StoreFails, Revoke,
           GenCrl, RemoveFiles, SwitchCcd, MoveCcd, Knows
      <4> QED BY <4>1
    <3> QED BY <3>4, <3>5, <3>6, <3>7, <3>8, <3>9
  <2>3. \/ pc[c] = "enter" /\ pc'[c] = "sign" /\ group[job[c].to].exists
        \/ pc[c] = "sign" /\ pc'[c] = "profile"
        \/ pc[c] = "profile" /\ pc'[c] = "address"
        \/ pc[c] = "address" /\ pc'[c] = "newccd"
        \/ pc[c] = "newccd" /\ pc'[c] = "store"
        \/ pc[c] = "store" /\ pc'[c] \in {"switch", "reload"}
        \/ pc[c] = "revoke" /\ pc'[c] = "crl"
        \/ pc[c] = "crl" /\ pc'[c] = "files"
        \/ pc[c] = "files" /\ pc'[c] = "store"
        \/ pc[c] = "move" /\ pc'[c] = "store"
        \/ pc[c] = "serial" /\ pc'[c] = "store"
        \/ pc[c] = "reload" /\ pc'[c] = "store"
    <3>1. CASE Store(c)
      BY <1>2, <1>e, <1>t, <3>1 DEF Store, Goto, Knows
    <3>2. CASE ~Store(c)
      <4>1. pc[c] # "idle" /\ pc \in [Callers -> Steps]
        BY <1>i, <1>t
      <4> QED BY <1>2, <1>e, <4>1, <3>2
         DEF Step, Enter, Sign, Profile, Address, WriteCcd, Finish, StoreFails, Revoke,
             GenCrl, RemoveFiles, SwitchCcd, MoveCcd, UpdateSerial, Reload, Goto
    <3> QED BY <3>1, <3>2
  <2>4. PICK u \in Users : u = Me(c)
    BY <1>m, <2>3
  <2>5. Me(c)' = u /\ job'[c].to = job[c].to
        /\ (job'[c].op = job[c].op \/ (pc[c] = "reload" /\ job'[c].op = "regenerate"))
    BY <2>1, <2>4 DEF Continues, Me
  <2>6. (Has(u)' <=> Has(u)) /\ record'[u].group = record[u].group
    BY <1>1
  <2>7. pc[c] = "enter" => job[c].to \in Groups /\ job[c].op = "create"
    BY <1>t DEF Knows
  <2>8. Dues(c)'
    BY <1>1, <1>d, <1>o, <1>t, <2>2, <2>3, <2>4, <2>5, <2>6, <2>7 DEF Dues, Knows, OpAt
  <2> QED BY <2>3, <2>8
<1>3. ASSUME NEW g \in Groups \ unsettled', NEW way \in {"leave", "join"}
      PROVE  Owes(c, g, way)' <=> Owes(c, g, way)
  <2>1. CASE pc'[c] # "idle"
    BY <1>2, <2>1 DEF Owes
  <2>2. CASE pc'[c] = "idle"
    <3>1. ~Owes(c, g, way)
      <4>1. CASE Finish(c)
        BY <4>1 DEF Finish, Owes, Due
      <4>2. CASE StoreFails(c)
        <5>1. unsettled' = unsettled \cup Torn(c)
          BY <4>2 DEF StoreFails
        <5>2. pc[c] \in {"count", "counted"} =>
                 Torn(c) = {job[c].due[i][1] : i \in DOMAIN job[c].due}
          BY DEF Torn
        <5> QED BY <5>1, <5>2 DEF Owes, Due
      <4>3. CASE pc[c] \notin {"count", "counted"}
        BY <4>3 DEF Owes
      <4>4. Finish(c) \/ StoreFails(c) \/ pc[c] \notin {"count", "counted"}
        BY DEF Step, Enter, Sign, Profile, Address, WriteCcd, Store, Revoke,
           GenCrl, RemoveFiles, SwitchCcd, MoveCcd, UpdateSerial, Reload
      <4> QED BY <4>1, <4>2, <4>3, <4>4
    <3>2. ~Owes(c, g, way)'
      BY <2>2 DEF Owes
    <3> QED BY <3>1, <3>2
  <2> QED BY <2>1, <2>2
<1> QED BY <1>1, <1>2, <1>3, QuietCounts

\* The balance, for one call.
LEMMA OneOwes ==
  ASSUME NEW c, NEW g
  PROVE  /\ Balance(g, {c}) <=>
              group[g].count + (IF Owes(c, g, "join") THEN 1 ELSE 0)
                = Cardinality(Members(g)) + (IF Owes(c, g, "leave") THEN 1 ELSE 0)
         /\ Balance(g, {c})' <=>
              group'[g].count + (IF Owes(c, g, "join")' THEN 1 ELSE 0)
                = Cardinality(Members(g))' + (IF Owes(c, g, "leave")' THEN 1 ELSE 0)
BY DEF Balance, Owed

\* The row of a user is stored as a member, no more a member, or of another
\* group.
LEMMA StoreCounts ==
  ASSUME TypeInv, TurnInv, UserInv, CountInv, NEW c \in Callers, Others(c), Store(c),
         job[c].op \in {"create", "delete", "change"}
  PROVE  CountInv'
<1>t. /\ pc \in [Callers -> Steps] /\ job \in [Callers -> Jobs] /\ job[c] \in Jobs
      /\ Knows(pc[c], job[c]) /\ record \in [Users -> Records]
  BY DEF TypeInv, CallTypes, StoreTypes
<1>1. pc[c] = "store" /\ Busy(c)
  BY DEF Store, Busy
<1>u. PICK u \in Users : u = Me(c)
  BY <1>1, UserOf
<1>2. /\ pc' = [pc EXCEPT ![c] = "count"] /\ job' = job /\ group' = group
      /\ record' = [record EXCEPT ![u] = job[c].rec] /\ unsettled \ {u} \subseteq unsettled'
  BY <1>u DEF Store, Goto
<1>3. /\ pc'[c] = "count" /\ record'[u] = job[c].rec
      /\ \A v \in Users \ {u} : record'[v] = record[v]
  BY <1>2, <1>t
<1>k. Carries(c) /\ Dues(c)
  BY <1>1 DEF UserInv, CountInv
<1>g. \A g \in Groups \ unsettled' : g \notin unsettled
  BY <1>2, NamesAssumption
<1>m. \A g \in Groups :
         /\ \A v \in Users \ {u} : v \in Members(g)' <=> v \in Members(g)
         /\ u \in Members(g)' <=> job[c].rec.status \in Live /\ job[c].rec.group = g
         /\ u \in Members(g) <=> Has(u) /\ record[u].group = g
         /\ Members(g) \subseteq Users /\ Members(g)' \subseteq Users
  BY <1>3 DEF Members, Has
<1>n. \A g \in Groups :
         Members(g)' = IF job[c].rec.status \in Live /\ job[c].rec.group = g
                       THEN Members(g) \cup {u} ELSE Members(g) \ {u}
  BY <1>m
<1>f. \A g \in Groups : IsFiniteSet(Members(g)) /\ Cardinality(Members(g)) \in Nat
                        /\ group[g].count \in Nat /\ (~group[g].exists => group[g].count = 0)
  BY <1>1, CountKnows
<1>4. \A g \in Groups : (~group'[g].exists => group'[g].count = 0) /\ IsFiniteSet(Members(g))'
  <2> SUFFICES ASSUME NEW g \in Groups PROVE IsFiniteSet(Members(g)')
    BY <1>2, <1>f
  <2>1. PICK M : M = Members(g)
    OBVIOUS
  <2>2. IsFiniteSet(M \cup {u}) /\ IsFiniteSet(M \ {u})
    BY <2>1, <1>f, OneMore
  <2>3. Members(g)' \in {M \cup {u}, M \ {u}}
    BY <2>1, <1>n
  <2> QED BY <2>2, <2>3
<1>5. \A g \in Groups : ~Owes(c, g, "join") /\ ~Owes(c, g, "leave")
  BY <1>1 DEF Owes
<1>6. ASSUME NEW g \in Groups, g \notin unsettled PROVE group[g].count = Cardinality(Members(g))
  <2>1. Balance(g, {c})
    BY <1>1, <1>6, CountKnows
  <2>2. group[g].count + 0 = Cardinality(Members(g)) + 0
    BY <2>1, <1>5, OneOwes
  <2> QED BY <2>2, <1>f
<1>7. \A g \in Groups, way \in {"leave", "join"} :
         Owes(c, g, way)' <=> Due(job[c].due, g, way)
  BY <1>2, <1>3 DEF Owes
<1>j. ASSUME NEW g \in Groups \ unsettled', u \notin Members(g), u \in Members(g)',
             Owes(c, g, "join")', ~Owes(c, g, "leave")'
      PROVE  Balance(g, {c})'
  <2>1. Cardinality(Members(g))' = Cardinality(Members(g)) + 1
    BY <1>j, <1>n, <1>m, <1>f, OneMore
  <2>2. group'[g].count = Cardinality(Members(g)) /\ Cardinality(Members(g)) \in Nat
    BY <1>2, <1>6, <1>g, <1>f
  <2>3. group'[g].count + 1 = Cardinality(Members(g))' + 0
    BY <2>1, <2>2
  <2> QED BY <1>j, <2>3, OneOwes
<1>l. ASSUME NEW g \in Groups \ unsettled', u \in Members(g), u \notin Members(g)',
             Owes(c, g, "leave")', ~Owes(c, g, "join")'
      PROVE  Balance(g, {c})'
  <2>1. Cardinality(Members(g))' = Cardinality(Members(g)) - 1
    BY <1>l, <1>n, <1>m, <1>f, OneMore
  <2>2. group'[g].count = Cardinality(Members(g)) /\ Cardinality(Members(g)) \in Nat
    BY <1>2, <1>6, <1>g, <1>f
  <2>3. group'[g].count + 0 = Cardinality(Members(g))' + 1
    BY <2>1, <2>2
  <2> QED BY <1>l, <2>3, OneOwes
<1>s. ASSUME NEW g \in Groups \ unsettled', u \in Members(g) <=> u \in Members(g)',
             ~Owes(c, g, "leave")', ~Owes(c, g, "join")'
      PROVE  Balance(g, {c})'
  <2>1. Members(g)' = Members(g)
    <3>1. PICK M, N : M = Members(g) /\ N = Members(g)'
      OBVIOUS
    <3>2. N \in {M \cup {u}, M \ {u}} /\ (u \in M <=> u \in N)
      BY <3>1, <1>n, <1>s
    <3>3. M = N
      BY <3>2
    <3> QED BY <3>1, <3>3
  <2>2. group'[g].count + 0 = Cardinality(Members(g)) + 0
    BY <1>2, <1>6, <1>g, <1>f
  <2>3. group'[g].count + 0 = Cardinality(Members(g))' + 0
    BY <2>1, <2>2
  <2> QED BY <1>s, <2>3, OneOwes
<1>8. CASE job[c].op = "create"
  <2>1. /\ job[c].due = <<<<job[c].to, "join">>>> /\ ~Has(u) /\ job[c].to \in Groups
        /\ job[c].rec.status \in Live /\ job[c].rec.group = job[c].to
    BY <1>1, <1>k, <1>u, <1>8 DEF Dues, Carries, Live
  <2>2. \A g \in Groups : /\ ~Owes(c, g, "leave")'
                          /\ Owes(c, g, "join")' <=> g = job[c].to
    BY <1>7, <2>1, DueOne
  <2>3. \A g \in Groups \ unsettled' : Balance(g, {c})'
    BY <2>1, <2>2, <1>m, <1>j, <1>s
  <2>4. Dues(c)'
    BY <1>2, <1>3, <1>8, <1>k, <1>1, <2>1 DEF Dues, Rest
  <2> QED BY <1>1, <1>4, <2>3, <2>4, CountsChange
<1>9. CASE job[c].op = "delete"
  <2>1. /\ job[c].due = <<<<record[u].group, "leave">>>> /\ Has(u)
        /\ job[c].rec.status \notin Live /\ record[u].group \in Groups
    BY <1>1, <1>k, <1>u, <1>9 DEF Dues, Carries, Live, Has, TypeInv, StoreTypes
  <2>2. \A g \in Groups : /\ ~Owes(c, g, "join")'
                          /\ Owes(c, g, "leave")' <=> g = record[u].group
    BY <1>7, <2>1, DueOne
  <2>3. \A g \in Groups \ unsettled' : Balance(g, {c})'
    BY <2>1, <2>2, <1>m, <1>l, <1>s
  <2>4. Dues(c)'
    BY <1>2, <1>3, <1>9, <1>k, <1>1, <2>1 DEF Dues, Rest
  <2> QED BY <1>1, <1>4, <2>3, <2>4, CountsChange
<1>10. CASE job[c].op = "change"
  <2>1. /\ job[c].due = <<<<record[u].group, "leave">>, <<job[c].to, "join">>>> /\ Has(u)
        /\ job[c].rec.status \in Live /\ record[u].group \in Groups
        /\ job[c].rec.group = job[c].to /\ job[c].to # record[u].group
    BY <1>1, <1>k, <1>u, <1>10 DEF Dues, Carries, Live, Has, TypeInv, StoreTypes
  <2>2. \A g \in Groups : /\ Owes(c, g, "join")' <=> g = job[c].to
                          /\ Owes(c, g, "leave")' <=> g = record[u].group
    BY <1>7, <2>1, DueTwo
  <2>3. \A g \in Groups \ unsettled' : Balance(g, {c})'
    BY <2>1, <2>2, <1>m, <1>j, <1>l, <1>s
  <2>4. Dues(c)'
    <3>1. \E g \in Groups \ {job[c].to} : job[c].due = <<<<g, "leave">>, <<job[c].to, "join">>>>
      BY <2>1
    <3>2. Rest(job[c].due, job[c].op, job[c].to)
      BY <3>1, <1>10 DEF Rest
    <3> QED BY <1>2, <1>3, <1>10, <1>k, <1>1, <3>2 DEF Dues
  <2> QED BY <1>1, <1>4, <2>3, <2>4, CountsChange
<1> QED BY <1>8, <1>9, <1>10

\* The next change a call makes, and those that are left after it.
LEMMA NextDue ==
  ASSUME TypeInv, CountInv, NEW c \in Callers, pc[c] \in {"count", "counted"},
         OpAt(pc[c], job[c].op), job[c].due # <<>>
  PROVE  \E g \in Groups, way \in {"leave", "join"} :
           /\ Head(job[c].due) = <<g, way>>
           /\ Owes(c, g, way)
           /\ way = "leave" => ~Owes(c, g, "join")
           /\ way = "join" => ~Owes(c, g, "leave") /\ group[g].exists
           /\ ~Due(Tail(job[c].due), g, "leave") /\ ~Due(Tail(job[c].due), g, "join")
           /\ \A h \in Groups \ {g}, w \in {"leave", "join"} :
                 Due(Tail(job[c].due), h, w) <=> Owes(c, h, w)
           /\ Rest(Tail(job[c].due), job[c].op, job[c].to)
<1>1. Rest(job[c].due, job[c].op, job[c].to) /\ Dues(c)
  BY DEF CountInv, Dues
<1>2. \A h, w : Owes(c, h, w) <=> Due(job[c].due, h, w)
  BY DEF Owes
<1>3. ASSUME NEW g \in Groups, job[c].due = <<<<g, "leave">>>>
      PROVE  /\ Head(job[c].due) = <<g, "leave">> /\ Tail(job[c].due) = <<>>
             /\ \A h, w : Owes(c, h, w) <=> h = g /\ w = "leave"
  BY <1>2, <1>3, DueOne
<1>4. ASSUME job[c].due = <<<<job[c].to, "join">>>>
      PROVE  /\ Head(job[c].due) = <<job[c].to, "join">> /\ Tail(job[c].due) = <<>>
             /\ \A h, w : Owes(c, h, w) <=> h = job[c].to /\ w = "join"
  BY <1>2, <1>4, DueOne
<1>5. ASSUME NEW g \in Groups, job[c].due = <<<<g, "leave">>, <<job[c].to, "join">>>>
      PROVE  /\ Head(job[c].due) = <<g, "leave">> /\ Tail(job[c].due) = <<<<job[c].to, "join">>>>
             /\ \A h, w : Owes(c, h, w) <=>
                             (h = g /\ w = "leave") \/ (h = job[c].to /\ w = "join")
             /\ \A h, w : Due(Tail(job[c].due), h, w) <=> h = job[c].to /\ w = "join"
  <2>1. Tail(job[c].due) = <<<<job[c].to, "join">>>>
    BY <1>5
  <2>2. \A h, w : Due(Tail(job[c].due), h, w) <=> h = job[c].to /\ w = "join"
    <3>1. PICK rest, to : rest = Tail(job[c].due) /\ to = job[c].to
      OBVIOUS
    <3>2. rest = <<<<to, "join">>>>
      BY <2>1, <3>1
    <3>3. \A h, w : Due(rest, h, w) <=> h = to /\ w = "join"
      BY <3>2 DEF Due
    <3> QED BY <3>1, <3>3
  <2>3. \A h, w : Owes(c, h, w) <=>
                             (h = g /\ w = "leave") \/ (h = job[c].to /\ w = "join")
    BY <1>2, <1>5, DueTwo
  <2> QED BY <1>5, <2>1, <2>2, <2>3
<1>6. Rest(<<>>, job[c].op, job[c].to) /\ \A h, w : ~Due(<<>>, h, w)
  BY DEF Rest, Due
<1>7. CASE \E g \in Groups : job[c].due = <<<<g, "leave">>>>
  BY <1>3, <1>6, <1>7
<1>8. CASE /\ job[c].due = <<<<job[c].to, "join">>>> /\ job[c].op \in {"create", "change"}
  BY <1>1, <1>4, <1>6, <1>8 DEF Dues
<1>9. CASE /\ \E g \in Groups \ {job[c].to} :
                 job[c].due = <<<<g, "leave">>, <<job[c].to, "join">>>>
           /\ job[c].op \in {"create", "change"}
  <2>1. PICK g \in Groups \ {job[c].to} : job[c].due = <<<<g, "leave">>, <<job[c].to, "join">>>>
    BY <1>9
  <2>2. Rest(Tail(job[c].due), job[c].op, job[c].to)
    BY <2>1, <1>5, <1>9 DEF Rest
  <2> QED BY <2>1, <2>2, <1>5
<1> QED BY <1>1, <1>7, <1>8, <1>9 DEF Rest

\* The group's row is read; a group that does not exist was unsettled before.
LEMMA ReadCounts ==
  ASSUME TypeInv, TurnInv, CountInv, NEW c \in Callers, Others(c), ReadCount(c)
  PROVE  CountInv'
<1>t. /\ pc \in [Callers -> Steps] /\ job \in [Callers -> Jobs] /\ job[c] \in Jobs
  BY DEF TypeInv, CallTypes
<1>1. /\ pc[c] = "count" /\ job[c].due # <<>> /\ Busy(c) /\ Dues(c) /\ OpAt(pc[c], job[c].op)
      /\ UNCHANGED <<record, group, unsettled>>
  BY DEF ReadCount, Busy, TurnInv, OpAt, CountInv
<1>2. PICK g \in Groups, way \in {"leave", "join"} :
           /\ Head(job[c].due) = <<g, way>>
           /\ Owes(c, g, way)
           /\ way = "leave" => ~Owes(c, g, "join")
           /\ way = "join" => ~Owes(c, g, "leave") /\ group[g].exists
           /\ ~Due(Tail(job[c].due), g, "leave") /\ ~Due(Tail(job[c].due), g, "join")
           /\ \A h \in Groups \ {g}, w \in {"leave", "join"} :
                 Due(Tail(job[c].due), h, w) <=> Owes(c, h, w)
           /\ Rest(Tail(job[c].due), job[c].op, job[c].to)
  BY <1>1, NextDue
<1>3. Head(job[c].due)[1] = g
  BY <1>2
<1>4. \A v \in Users : (Has(v)' <=> Has(v)) /\ record'[v].group = record[v].group
  BY <1>1 DEF Has
<1>5. CASE group[g].exists
  <2>1. /\ job' = [job EXCEPT ![c] = [job[c] EXCEPT !.row = group[g]]]
        /\ pc' = [pc EXCEPT ![c] = "counted"]
    BY <1>3, <1>5 DEF ReadCount, Goto
  <2>2. /\ pc'[c] = "counted" /\ job'[c].row = group[g] /\ job'[c].due = job[c].due
        /\ job'[c].op = job[c].op /\ job'[c].to = job[c].to
    BY <2>1, <1>t DEF Jobs
  <2>3. Dues(c)'
    BY <1>1, <1>3, <1>5, <2>2 DEF Dues, OpAt
  <2>4. \A h \in Groups, w \in {"leave", "join"} : Owes(c, h, w)' <=> Owes(c, h, w)
    BY <1>1, <2>2 DEF Owes
  <2> QED BY <1>1, <1>4, <2>3, <2>4, QuietCounts
<1>6. CASE ~group[g].exists
  <2>1. /\ job' = [job EXCEPT ![c] = [job[c] EXCEPT !.due = Tail(job[c].due)]] /\ pc' = pc
    BY <1>3, <1>6 DEF ReadCount
  <2>2. /\ pc'[c] = "count" /\ job'[c].due = Tail(job[c].due)
        /\ job'[c].op = job[c].op /\ job'[c].to = job[c].to
    BY <1>1, <2>1, <1>t DEF Jobs
  <2>3. Dues(c)'
    BY <1>1, <1>2, <2>2 DEF Dues, OpAt
  <2>4. g \in unsettled
    <3> SUFFICES ASSUME g \notin unsettled PROVE FALSE
      OBVIOUS
    <3>1. /\ Balance(g, {c}) /\ Cardinality(Members(g)) \in Nat /\ group[g].count = 0
      BY <1>1, <1>6, CountKnows
    <3>2. way = "leave"
      BY <1>2, <1>6
    <3>3. 0 + 0 = Cardinality(Members(g)) + 1
      BY <1>2, <3>1, <3>2, OneOwes
    <3> QED BY <3>1, <3>3
  <2>5. \A h \in Groups \ unsettled', w \in {"leave", "join"} : Owes(c, h, w)' <=> Owes(c, h, w)
    BY <1>1, <1>2, <2>2, <2>4 DEF Owes
  <2> QED BY <1>1, <1>4, <2>3, <2>5, QuietCounts
<1> QED BY <1>5, <1>6

\* The row is written as it was read, with the user counted.
LEMMA WriteCounts ==
  ASSUME TypeInv, TurnInv, CountInv, NEW c \in Callers, Others(c), WriteCount(c)
  PROVE  CountInv'
<1>t. /\ pc \in [Callers -> Steps] /\ job \in [Callers -> Jobs] /\ job[c] \in Jobs
      /\ group \in [Groups -> GroupRows] /\ Knows(pc[c], job[c])
  BY DEF TypeInv, CallTypes, StoreTypes
<1>1. /\ pc[c] = "counted" /\ job[c].due # <<>> /\ Busy(c) /\ Dues(c) /\ OpAt(pc[c], job[c].op)
      /\ UNCHANGED <<record, unsettled>>
  BY <1>t DEF WriteCount, Busy, TurnInv, OpAt, CountInv, Knows
<1>2. PICK g \in Groups, way \in {"leave", "join"} :
           /\ Head(job[c].due) = <<g, way>>
           /\ Owes(c, g, way)
           /\ way = "leave" => ~Owes(c, g, "join")
           /\ way = "join" => ~Owes(c, g, "leave") /\ group[g].exists
           /\ ~Due(Tail(job[c].due), g, "leave") /\ ~Due(Tail(job[c].due), g, "join")
           /\ \A h \in Groups \ {g}, w \in {"leave", "join"} :
                 Due(Tail(job[c].due), h, w) <=> Owes(c, h, w)
           /\ Rest(Tail(job[c].due), job[c].op, job[c].to)
  BY <1>1, NextDue
<1>3. Head(job[c].due)[1] = g /\ Head(job[c].due)[2] = way
  BY <1>2
<1>4. /\ job[c].row = group[g] /\ group[g].exists
  BY <1>1, <1>3 DEF Dues
<1>5. /\ group' = [group EXCEPT ![g] = [group[g] EXCEPT !.count = Counted(group[g].count, way)]]
      /\ job' = [job EXCEPT ![c] = [job[c] EXCEPT !.due = Tail(job[c].due), !.row = NoRow]]
      /\ pc' = [pc EXCEPT ![c] = "count"]
  BY <1>3, <1>4 DEF WriteCount, Goto
<1>6. /\ pc'[c] = "count" /\ job'[c].due = Tail(job[c].due)
      /\ job'[c].op = job[c].op /\ job'[c].to = job[c].to
  BY <1>5, <1>t DEF Jobs
<1>7. /\ group'[g].count = Counted(group[g].count, way) /\ group'[g].exists
      /\ \A h \in Groups \ {g} : group'[h] = group[h]
  BY <1>4, <1>5, <1>t DEF GroupRows
<1>8. \A h \in Groups : Members(h)' = Members(h)
  BY <1>1 DEF Members, Has
<1>9. \A h \in Groups : (~group'[h].exists => group'[h].count = 0) /\ IsFiniteSet(Members(h))'
  <2> SUFFICES ASSUME NEW h \in Groups
               PROVE  (~group'[h].exists => group'[h].count = 0) /\ IsFiniteSet(Members(h)')
    OBVIOUS
  <2>1. IsFiniteSet(Members(h)) /\ (~group[h].exists => group[h].count = 0)
    BY DEF CountInv
  <2>2. IsFiniteSet(Members(h)')
    BY <2>1, <1>8
  <2> QED BY <1>7, <2>1, <2>2
<1>10. Dues(c)'
  <2>1. job[c].op \in {"create", "change"} => group'[job[c].to].exists /\ job[c].to \in Groups
    BY <1>1, <1>7 DEF Dues
  <2> QED BY <1>1, <1>2, <1>6, <2>1 DEF Dues, OpAt
<1>11. \A h \in Groups, w \in {"leave", "join"} :
          Owes(c, h, w)' <=> Due(Tail(job[c].due), h, w)
  BY <1>6 DEF Owes
<1>12. ASSUME NEW h \in Groups \ unsettled' PROVE Balance(h, {c})'
  <2>1. /\ Balance(h, {c}) /\ Cardinality(Members(h)) \in Nat /\ group[h].count \in Nat
    BY <1>1, <1>12, CountKnows
  <2>2. Cardinality(Members(h))' = Cardinality(Members(h))
    BY <1>8
  <2>3. CASE h = g /\ way = "leave"
    <3>1. group[h].count + 0 = Cardinality(Members(h)) + 1
      BY <1>2, <2>1, <2>3, OneOwes
    <3>2. group'[h].count = Cardinality(Members(h))
      BY <1>7, <2>1, <2>3, <3>1 DEF Counted
    <3>3. group'[h].count + 0 = Cardinality(Members(h))' + 0
      BY <2>2, <3>2
    <3>4. ~Owes(c, h, "leave")' /\ ~Owes(c, h, "join")'
      BY <1>2, <1>11, <2>3
    <3> QED BY <3>3, <3>4, OneOwes
  <2>4. CASE h = g /\ way = "join"
    <3>1. group[h].count + 1 = Cardinality(Members(h)) + 0
      BY <1>2, <2>1, <2>4, OneOwes
    <3>2. group'[h].count = Cardinality(Members(h))
      BY <1>7, <2>1, <2>4, <3>1 DEF Counted
    <3>3. group'[h].count + 0 = Cardinality(Members(h))' + 0
      BY <2>2, <3>2
    <3>4. ~Owes(c, h, "leave")' /\ ~Owes(c, h, "join")'
      BY <1>2, <1>11, <2>4
    <3> QED BY <3>3, <3>4, OneOwes
  <2>5. CASE h # g
    <3>1. /\ Owes(c, h, "leave")' <=> Owes(c, h, "leave")
          /\ Owes(c, h, "join")' <=> Owes(c, h, "join")
      BY <1>2, <1>11, <2>5
    <3>2. group'[h].count = group[h].count
      BY <1>7, <2>5
    <3> QED BY <2>1, <2>2, <3>1, <3>2, OneOwes
  <2> QED BY <2>3, <2>4, <2>5
<1> QED BY <1>1, <1>9, <1>10, <1>12, CountsChange

\* GroupService keeps user_count.
LEMMA GroupCounts ==
  ASSUME TypeInv, TurnInv, CountInv, NEW c \in Callers, Others(c), StoreGroup(c)
  PROVE  CountInv'
<1>t. /\ pc \in [Callers -> Steps] /\ job \in [Callers -> Jobs] /\ job[c] \in Jobs
      /\ group \in [Groups -> GroupRows]
  BY DEF TypeInv, CallTypes, StoreTypes
<1>1. /\ pc[c] = "group" /\ Busy(c) /\ Dues(c) /\ job[c].op = "group" /\ Leave(c)
      /\ UNCHANGED <<record, unsettled>>
      /\ group' = [group EXCEPT ![job[c].to] = job[c].row]
  BY DEF StoreGroup, Busy, TurnInv, OpAt, CountInv
<1>2. PICK g \in Groups : g = job[c].to
  BY <1>1 DEF Dues
<1>3. /\ group'[g].count = group[g].count /\ (~group'[g].exists => group'[g].count = 0)
      /\ \A h \in Groups \ {g} : group'[h] = group[h]
  BY <1>1, <1>2, <1>t DEF Dues
<1>4. \A h \in Groups : Members(h)' = Members(h)
  BY <1>1 DEF Members, Has
<1>5. \A h \in Groups : (~group'[h].exists => group'[h].count = 0) /\ IsFiniteSet(Members(h))'
  <2> SUFFICES ASSUME NEW h \in Groups
               PROVE  (~group'[h].exists => group'[h].count = 0) /\ IsFiniteSet(Members(h)')
    OBVIOUS
  <2>1. IsFiniteSet(Members(h)) /\ (~group[h].exists => group[h].count = 0)
    BY DEF CountInv
  <2>2. IsFiniteSet(Members(h)')
    BY <2>1, <1>4
  <2> QED BY <1>3, <2>1, <2>2
<1>6. pc'[c] = "idle"
  BY <1>1, CallEnds
<1>7. ASSUME NEW h \in Groups \ unsettled' PROVE Balance(h, {c})'
  <2>1. Balance(h, {c})
    BY <1>1, <1>7, CountKnows
  <2>2. /\ ~Owes(c, h, "leave")' /\ ~Owes(c, h, "join")'
        /\ ~Owes(c, h, "leave") /\ ~Owes(c, h, "join")
    BY <1>1, <1>6 DEF Owes
  <2>3. Cardinality(Members(h))' = Cardinality(Members(h)) /\ group'[h].count = group[h].count
    BY <1>3, <1>4
  <2> QED BY <2>1, <2>2, <2>3, OneOwes
<1> QED BY <1>1, <1>5, <1>6, <1>7, CountsChange

\* A crash leaves unsettled the groups a call had yet to count.
LEMMA CrashCounts ==
  ASSUME TypeInv, CountInv, Crash
  PROVE  CountInv'
<1>1. /\ UNCHANGED <<record, group>>
      /\ unsettled' = unsettled \cup UNION {Torn(c) : c \in Callers}
      /\ \A c \in Callers : pc'[c] = "idle"
  BY DEF Crash
<1>2. \A g \in Groups : Members(g)' = Members(g)
  BY <1>1 DEF Members, Has
<1>3. ASSUME NEW g \in Groups \ unsettled' PROVE Balance(g, Callers)'
  <2>1. Balance(g, Callers)
    BY <1>1, <1>3 DEF CountInv
  <2>2. \A c \in Callers, way \in {"leave", "join"} : ~Owes(c, g, way)
    <3>1. \A c \in Callers : pc[c] \in {"count", "counted"} =>
                 Torn(c) = {job[c].due[i][1] : i \in DOMAIN job[c].due}
      BY DEF Torn
    <3> QED BY <1>1, <1>3, <3>1 DEF Owes, Due
  <2>3. \A c \in Callers, way \in {"leave", "join"} : ~Owes(c, g, way)'
    BY <1>1 DEF Owes
  <2>4. \A way \in {"leave", "join"} : Owed(g, way, Callers)' = Owed(g, way, Callers)
    BY <2>2, <2>3 DEF Owed
  <2> QED BY <1>1, <1>2, <2>1, <2>4 DEF Balance
<1> QED BY <1>1, <1>2, <1>3 DEF CountInv

\* Every step, a crash included.
LEMMA NextCountInv ==
  ASSUME Turns, ~Stale, TypeInv, TypeInv', AddressInv, TurnInv, UserInv, CountInv, [Next]_vars
  PROVE  CountInv'
<1>1. CASE UNCHANGED vars
  <2>1. UNCHANGED <<record, group, pc, job, unsettled>>
    BY <1>1 DEF vars
  <2>2. /\ \A g \in Groups : Members(g)' = Members(g)
        /\ \A c, g, way : Owes(c, g, way)' <=> Owes(c, g, way)
    BY <2>1 DEF Members, Has, Owes
  <2>3. \A g \in Groups : Balance(g, Callers)' <=> Balance(g, Callers)
    BY <2>1, <2>2 DEF Balance, Owed
  <2>4. \A c \in Callers : Dues(c)' <=> Dues(c)
    BY <2>1 DEF Dues, Has, Me
  <2> QED BY <2>1, <2>2, <2>3, <2>4 DEF CountInv
<1>2. CASE Crash
  BY <1>2, CrashCounts
<1>3. ASSUME NEW c \in Callers, Start(c) PROVE CountInv'
  BY <1>3, StartBegin, StartCounts
<1>4. ASSUME NEW c \in Callers, Step(c) PROVE CountInv'
  <2>1. Others(c)
    BY <1>4, StepHasEffect DEF AddressInv, StepEffect, Others
  <2> QED
    BY <1>4, <2>1, QuietStepCounts, StoreCounts, ReadCounts, WriteCounts, GroupCounts
<1> QED BY <1>1, <1>2, <1>3, <1>4 DEF Next

(***************************************************************************)
(* The theorems                                                            *)
(***************************************************************************)

\* The invariant of the stores, as long as no calls overlap but creates and
\* revocations.
LEMMA StoresHold ==
  ASSUME Turns
  PROVE  Spec => [](TypeInv /\ AddressInv /\ TurnInv /\ UserInv)
<1>1. "change" \notin Overlap
  BY DEF Turns
<1>2. TypeInv /\ AddressInv /\ [Next]_vars => AddressInv'
  BY <1>1, NextAddressInv
<1>3. TypeInv /\ AddressInv /\ TurnInv /\ UserInv /\ [Next]_vars => TurnInv' /\ UserInv'
  BY NextUserInv
<1> QED
  BY <1>2, <1>3, InitTypeInv, NextTypeInv, InitAddressInv, InitTurn, InitUserInv, PTL DEF Spec

\* At rest the CCD file refuses exactly the disabled users, whatever calls,
\* failures and crashes came before.
THEOREM DisabledStayOut == ASSUME Turns PROVE Spec => []DisabledEnforced
<1>1. UserInv => DisabledEnforced
  BY UserInvAtRest
<1> QED BY <1>1, StoresHold, PTL

\* The newest certificate of a deleted user is revoked and in crl.pem.
THEOREM DeletedAreRevoked == ASSUME Turns PROVE Spec => []RevokedWhenDeleted
<1>1. UserInv => RevokedWhenDeleted
  BY UserInvAtRest
<1> QED BY <1>1, StoresHold, PTL

\* The profile holds the newest certificate of the name.
THEOREM ProfilesAreCurrent == ASSUME Turns PROVE Spec => []ProfileCurrent
<1>1. UserInv => ProfileCurrent
  BY UserInvAtRest
<1> QED BY <1>1, StoresHold, PTL

\* user_count is the number of users, if no user is deleted a second time.
THEOREM CountsAgree == ASSUME Turns, ~Stale PROVE Spec => []CountsMatch
<1>1. TypeInv /\ AddressInv /\ TurnInv /\ UserInv /\ CountInv /\ [Next]_vars /\ TypeInv'
         => CountInv'
  BY NextCountInv
<1>2. TypeInv /\ CountInv => CountsMatch
  BY CountInvAtRest
<1> QED BY <1>1, <1>2, StoresHold, InitCountInv, PTL DEF Spec
=============================================================================
