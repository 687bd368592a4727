---------------------------- MODULE CcdFileProofs ----------------------------
(***************************************************************************)
(* Proofs about CcdFile: the user's own lines stay out of every block,     *)
(* wherever writes are cut off; and while none is, every part of the file  *)
(* is there once, whole and in its place, as its writer meant it. For any  *)
(* peers, addresses, routes and number of writes that are cut off.         *)
(***************************************************************************)
EXTENDS CcdFile, SubsequencesProofs, WellFoundedInduction

(***************************************************************************)
(* CcdFile: lines and blocks                                               *)
(***************************************************************************)

LEMMA LineFacts ==
  /\ Disable \in Lines /\ Own(Disable)
  /\ \A a \in Addresses : Address(a) \in Lines /\ Own(Address(a)) /\ Address(a) # Disable
  /\ \A b \in BlockNames : /\ Opening(b) \in Lines /\ ~Own(Opening(b)) /\ Opening(b).of = b
                           /\ Closing(b) \in Lines /\ ~Own(Closing(b)) /\ Closing(b).of = b
                           /\ Opening(b) # Closing(b)
  /\ \A b \in BlockNames, r \in Routes :
       /\ Route(b, r) \in Lines /\ ~Own(Route(b, r)) /\ Route(b, r).of = b
       /\ Route(b, r) # Opening(b) /\ Route(b, r) # Closing(b)
  /\ \A l \in Lines : l.kind = "address" => \E a \in Addresses : l = Address(a)
  /\ \A l \in Lines : Own(l) => l = Disable \/ l.kind = "address"
<1>1. Disable \in Lines /\ Own(Disable)
  BY DEF Lines, Disable, Own
<1>2. \A a \in Addresses : Address(a) \in Lines /\ Own(Address(a)) /\ Address(a) # Disable
  <2>1. \A a \in Addresses : Address(a) \in Lines
    BY DEF Lines
  <2>2. \A a \in Addresses : Own(Address(a)) /\ Address(a).kind = "address"
    BY DEF Address, Own
  <2>3. Disable.kind = "disable"
    BY DEF Disable
  <2> QED  BY <2>1, <2>2, <2>3
<1>3. \A b \in BlockNames : Opening(b) \in Lines /\ Closing(b) \in Lines
  BY DEF Lines
<1>4. \A b \in BlockNames : /\ ~Own(Opening(b)) /\ Opening(b).of = b
                            /\ ~Own(Closing(b)) /\ Closing(b).of = b
                            /\ Opening(b) # Closing(b)
  BY DEF Opening, Closing, Own
<1>5. \A b \in BlockNames, r \in Routes : Route(b, r) \in Lines
  BY DEF Lines
<1>6. \A b \in BlockNames, r \in Routes :
        /\ ~Own(Route(b, r)) /\ Route(b, r).of = b
        /\ Route(b, r) # Opening(b) /\ Route(b, r) # Closing(b)
  BY DEF Route, Opening, Closing, Own
<1>7. ASSUME NEW l \in Lines
      PROVE  /\ l.kind = "address" => \E a \in Addresses : l = Address(a)
             /\ Own(l) => l = Disable \/ l.kind = "address"
  <2>1. \/ l = Disable \/ \E a \in Addresses : l = Address(a)
        \/ \E b \in BlockNames : l = Opening(b) \/ l = Closing(b)
        \/ \E b \in BlockNames, r \in Routes : l = Route(b, r)
    BY DEF Lines
  <2>2. CASE l = Disable
    BY <2>2 DEF Disable
  <2>3. CASE \E a \in Addresses : l = Address(a)
    BY <2>3 DEF Address
  <2>4. CASE \E b \in BlockNames : l = Opening(b) \/ l = Closing(b)
    BY <2>4 DEF Opening, Closing, Own
  <2>5. CASE \E b \in BlockNames, r \in Routes : l = Route(b, r)
    BY <2>5 DEF Route, Own
  <2> QED  BY <2>1, <2>2, <2>3, <2>4, <2>5
<1> QED  BY <1>1, <1>2, <1>3, <1>4, <1>5, <1>6, <1>7

\* A finite set as a list: every element once.
LEMMA Listed ==
  ASSUME NEW S, IsFiniteSet(S)
  PROVE  /\ SetToSeq(S) \in Seq(S) /\ Len(SetToSeq(S)) = Cardinality(S)
         /\ Cardinality(S) \in Nat
         /\ \A i, j \in 1 .. Cardinality(S) : SetToSeq(S)[i] = SetToSeq(S)[j] => i = j
         /\ \A x \in S : \E i \in 1 .. Cardinality(S) : SetToSeq(S)[i] = x
<1> DEFINE n == Cardinality(S)
           l == SetToSeq(S)
<1>1. n \in Nat /\ ExistsBijection(1 .. n, S)
  BY FS_CardinalityType
<1>2. PICK f : f \in Bijection(1 .. n, S)
  BY <1>1 DEF ExistsBijection
<1>3. f \in [1 .. n -> S] /\ IsInjective(f)
  BY <1>2 DEF Bijection, Injection
<1>4. l \in [1 .. n -> S] /\ IsInjective(l)
  <2>1. l = CHOOSE g \in [1 .. n -> S] : IsInjective(g)
    BY DEF SetToSeq
  <2> HIDE DEF l, n
  <2> QED  BY <1>3, <2>1
<1> HIDE DEF l
<1>5. \A i, j \in 1 .. n : l[i] = l[j] => i = j
  BY <1>4 DEF IsInjective
<1>6. \A x \in S : \E i \in 1 .. n : l[i] = x
  <2>1. l \in Injection(1 .. n, S)
    BY <1>4 DEF Injection
  <2>2. IsFiniteSet(1 .. n) /\ Cardinality(1 .. n) = n
    BY <1>1, FS_Interval
  <2>3. l \in Surjection(1 .. n, S)
    BY <2>1, <2>2, FS_Injection
  <2> QED  BY <2>3 DEF Surjection
<1>7. l \in Seq(S) /\ Len(l) = n
  BY <1>1, <1>4
<1> QED  BY <1>1, <1>5, <1>6, <1>7 DEF l

\* A block begins and ends with its markers; all of its lines are its own, and differ.
LEMMA BlockFacts ==
  ASSUME NEW b \in BlockNames, NEW routes \in SUBSET Routes, routes # {}
  PROVE  LET B == BlockOf(b, routes)
         IN  /\ B \in Seq(Lines) /\ Len(B) \in Nat /\ Len(B) >= 2
             /\ B[1] = Opening(b) /\ B[Len(B)] = Closing(b)
             /\ \A m, n \in 1 .. Len(B) : B[m] = B[n] => m = n
             /\ \A n \in 1 .. Len(B) : ~Own(B[n]) /\ B[n].of = b
<1> DEFINE S == {Route(b, r) : r \in routes}
           l == SetToSeq(S)
           B == BlockOf(b, routes)
<1>1. IsFiniteSet(S)
  <2>1. IsFiniteSet(routes)
    BY CcdAssumption, FS_Subset
  <2> DEFINE f == [r \in routes |-> Route(b, r)]
  <2>2. f \in Surjection(routes, S)
    BY DEF Surjection
  <2> QED  BY <2>1, <2>2, FS_Surjection
<1>2. \A x \in S : x \in Lines /\ ~Own(x) /\ x.of = b /\ x # Opening(b) /\ x # Closing(b)
  BY LineFacts
<1> HIDE DEF S
<1>3. /\ l \in Seq(S) /\ Len(l) \in Nat
      /\ \A i, j \in 1 .. Len(l) : l[i] = l[j] => i = j
  BY <1>1, Listed
<1>4. B = <<Opening(b)>> \o l \o <<Closing(b)>>
  BY DEF BlockOf, S
<1> HIDE DEF l, B
<1>5. /\ Opening(b) \in Lines /\ ~Own(Opening(b)) /\ Opening(b).of = b
      /\ Closing(b) \in Lines /\ ~Own(Closing(b)) /\ Closing(b).of = b /\ Opening(b) # Closing(b)
  BY LineFacts
<1>6. l \in Seq(Lines) /\ \A i \in 1 .. Len(l) : l[i] \in S
  BY <1>2, <1>3
<1>7. /\ B \in Seq(Lines) /\ Len(B) = Len(l) + 2
      /\ B[1] = Opening(b) /\ B[Len(l) + 2] = Closing(b)
      /\ \A n \in 1 .. Len(l) : B[n + 1] = l[n]
  BY <1>4, <1>5, <1>6
<1>8. ASSUME NEW n \in 1 .. Len(B), n # 1, n # Len(B)
      PROVE  n - 1 \in 1 .. Len(l) /\ B[n] = l[n - 1]
  BY <1>3, <1>7, <1>8
<1>9. ASSUME NEW n \in 1 .. Len(B) PROVE ~Own(B[n]) /\ B[n].of = b
  <2>1. CASE n = 1 \/ n = Len(B)
    BY <1>5, <1>7, <2>1
  <2>2. CASE n # 1 /\ n # Len(B)
    BY <1>2, <1>6, <1>8, <2>2
  <2> QED  BY <2>1, <2>2
<1>10. ASSUME NEW m \in 1 .. Len(B), NEW n \in 1 .. Len(B), B[m] = B[n] PROVE m = n
  <2>1. \A k \in 1 .. Len(B) : k # 1 /\ k # Len(B) => B[k] # Opening(b) /\ B[k] # Closing(b)
    BY <1>2, <1>6, <1>8
  <2>2. CASE m = 1 \/ m = Len(B) \/ n = 1 \/ n = Len(B)
    BY <1>5, <1>7, <1>10, <2>1, <2>2
  <2>3. CASE m # 1 /\ m # Len(B) /\ n # 1 /\ n # Len(B)
    <3>1. m - 1 = n - 1
      BY <1>3, <1>8, <1>10, <2>3
    <3> QED  BY <3>1
  <2> QED  BY <2>2, <2>3
<1> QED  BY <1>3, <1>7, <1>9, <1>10 DEF B

LEMMA NoBlock == \A b \in BlockNames : BlockOf(b, {}) = <<>>
  BY DEF BlockOf

(***************************************************************************)
(* CcdFile: a file in which every part is as meant                         *)
(***************************************************************************)
InBlock(line, b, routes) ==
    routes # {} /\ \E n \in 1 .. Len(BlockOf(b, routes)) : line = BlockOf(b, routes)[n]

Meaning(off, ats, nets) ==
    /\ off \in BOOLEAN /\ ats \in SUBSET Addresses /\ nets \in [BlockNames -> SUBSET Routes]
    /\ \A a, c \in ats : a = c

Meant(line, off, ats, nets) ==
    \/ off /\ line = Disable
    \/ \E a \in ats : line = Address(a)
    \/ \E b \in BlockNames : InBlock(line, b, nets[b])

Distinct(t) == \A i, j \in 1 .. Len(t) : t[i] = t[j] => i = j

\* The user's own lines come before all blocks, and disable before the address.
OwnFirst(t) == \A i, j \in 1 .. Len(t) : i < j /\ Own(t[j]) => Own(t[i])

DisableFirst(t) == \A i \in 1 .. Len(t) : t[i] = Disable => i = 1

\* Behind each line of a block, except the last, comes the next one.
Unbroken(t, nets) ==
    \A b \in BlockNames : nets[b] # {} =>
        \A i \in 1 .. Len(t), n \in 1 .. Len(BlockOf(b, nets[b])) - 1 :
            t[i] = BlockOf(b, nets[b])[n] => i < Len(t) /\ t[i + 1] = BlockOf(b, nets[b])[n + 1]

MeshLast(t, nets) == nets[Mesh] # {} => Len(t) > 0 /\ t[Len(t)] = Closing(Mesh)

Exactly(t, off, ats, nets) ==
    /\ \A i \in 1 .. Len(t) : Meant(t[i], off, ats, nets)
    /\ \A line \in Lines : Meant(line, off, ats, nets) => \E i \in 1 .. Len(t) : t[i] = line

Whole(t, off, ats, nets) ==
    /\ Distinct(t) /\ Exactly(t, off, ats, nets)
    /\ OwnFirst(t) /\ DisableFirst(t) /\ Unbroken(t, nets) /\ MeshLast(t, nets)

LEMMA InBlockFacts ==
  ASSUME NEW b \in BlockNames, NEW routes \in SUBSET Routes, NEW line, InBlock(line, b, routes)
  PROVE  line \in Lines /\ ~Own(line) /\ line.of = b
<1> DEFINE B == BlockOf(b, routes)
<1>1. routes # {} /\ \E n \in 1 .. Len(B) : line = B[n]
  BY DEF InBlock
<1>2. B \in Seq(Lines) /\ \A n \in 1 .. Len(B) : ~Own(B[n]) /\ B[n].of = b
  BY <1>1, BlockFacts
<1> HIDE DEF B
<1> QED  BY <1>1, <1>2

LEMMA MeantFacts ==
  ASSUME NEW off, NEW ats, NEW nets, Meaning(off, ats, nets), NEW line,
         Meant(line, off, ats, nets)
  PROVE  /\ line \in Lines
         /\ Own(line) => (off /\ line = Disable) \/ \E a \in ats : line = Address(a)
         /\ ~Own(line) => line.of \in BlockNames /\ InBlock(line, line.of, nets[line.of])
<1>1. CASE off /\ line = Disable
  BY <1>1, LineFacts
<1>2. CASE \E a \in ats : line = Address(a)
  BY <1>2, LineFacts DEF Meaning
<1>3. CASE \E b \in BlockNames : InBlock(line, b, nets[b])
  <2>1. PICK b \in BlockNames : InBlock(line, b, nets[b])
    BY <1>3
  <2>2. nets[b] \in SUBSET Routes
    BY DEF Meaning
  <2> QED  BY <2>1, <2>2, InBlockFacts
<1> QED  BY <1>1, <1>2, <1>3 DEF Meant

\* Every natural number that has a property has a least one below it.
LEMMA Least ==
  ASSUME NEW S \in SUBSET Nat, S # {}
  PROVE  \E x \in S : \A y \in S : x <= y
<1> DEFINE T == {0 .. i : i \in S}
           R == StrictSubsetOrdering(Nat)
           F == FiniteSubsetsOf(Nat)
<1>1. T \subseteq F
  <2>1. \A i \in S : IsFiniteSet(0 .. i) /\ 0 .. i \subseteq Nat
    BY FS_Interval
  <2> QED BY <2>1 DEF FiniteSubsetsOf
<1>2. \E x \in T : \A y \in T : <<y, x>> \notin R
  <2>1. IsWellFoundedOn(R, F)
    BY FS_StrictSubsetOrderingWellFounded
  <2>2. T # {}
    OBVIOUS
  <2> HIDE DEF T, R, F
  <2> QED BY <1>1, <2>1, <2>2, WFMin
<1>3. PICK i \in S : \A y \in T : <<y, 0 .. i>> \notin R
  BY <1>2
<1>4. ASSUME NEW j \in S, j < i PROVE FALSE
  <2>1. 0 .. j \subseteq 0 .. i /\ i \in 0 .. i /\ i \notin 0 .. j
    BY <1>4
  <2>2. <<0 .. j, 0 .. i>> \in R
    BY <2>1 DEF StrictSubsetOrdering
  <2> QED BY <2>2, <1>3
<1> QED BY <1>4

Stands(t, B, p) == p + Len(B) <= Len(t) /\ \A k \in 1 .. Len(B) : t[p + k] = B[k]

\* A block is in one piece.
LEMMA InOnePiece ==
  ASSUME NEW t \in Seq(Lines), NEW off, NEW ats, NEW nets, Meaning(off, ats, nets),
         Whole(t, off, ats, nets), NEW b \in BlockNames, nets[b] # {}
  PROVE  \E p \in 0 .. Len(t) : Stands(t, BlockOf(b, nets[b]), p)
<1> DEFINE B == BlockOf(b, nets[b])
<1>0. nets[b] \in SUBSET Routes /\ Len(t) \in Nat
  BY DEF Meaning
<1>1. B \in Seq(Lines) /\ Len(B) \in Nat /\ Len(B) >= 2
  BY <1>0, BlockFacts
<1>2. Meant(B[1], off, ats, nets) /\ B[1] \in Lines
  <2>1. InBlock(B[1], b, nets[b])
    BY <1>1 DEF InBlock
  <2> QED  BY <1>1, <2>1 DEF Meant
<1>3. PICK q \in 1 .. Len(t) : t[q] = B[1]
  BY <1>2 DEF Whole, Exactly
<1> DEFINE p == q - 1
           bad == {k \in 1 .. Len(B) : ~(p + k <= Len(t) /\ t[p + k] = B[k])}
<1>4. \A i \in 1 .. Len(t), n \in 1 .. Len(B) - 1 : t[i] = B[n] => i < Len(t) /\ t[i + 1] = B[n + 1]
  BY DEF Whole, Unbroken
<1> HIDE DEF B
<1>5. p \in 0 .. Len(t) /\ p + 1 = q
  BY <1>0, <1>3
<1>6. bad = {}
  <2> SUFFICES ASSUME bad # {} PROVE FALSE
    OBVIOUS
  <2>1. bad \in SUBSET Nat
    BY <1>1
  <2>2. PICK x \in bad : \A y \in bad : x <= y
    BY <2>1, Least
  <2>3. x \in 1 .. Len(B) /\ ~(p + x <= Len(t) /\ t[p + x] = B[x])
    OBVIOUS
  <2>4. x # 1
    BY <1>0, <1>3, <1>5, <2>3
  <2>5. x - 1 \in 1 .. Len(B) - 1 /\ x - 1 \in 1 .. Len(B) /\ ~(x <= x - 1)
    BY <1>1, <2>3, <2>4
  <2>6. x - 1 \notin bad
    BY <2>2, <2>5
  <2>7. p + (x - 1) <= Len(t) /\ t[p + (x - 1)] = B[x - 1]
    BY <2>5, <2>6
  <2>8. p + (x - 1) \in 1 .. Len(t) /\ p + (x - 1) + 1 = p + x /\ x - 1 + 1 = x
    BY <1>0, <1>5, <2>5, <2>7
  <2>9. p + (x - 1) < Len(t) /\ t[p + x] = B[x]
    BY <1>4, <2>5, <2>7, <2>8
  <2> QED  BY <1>0, <1>5, <2>3, <2>8, <2>9
<1>7. \A k \in 1 .. Len(B) : p + k <= Len(t) /\ t[p + k] = B[k]
  BY <1>6
<1> HIDE DEF p
<1>8. p + Len(B) <= Len(t)
  BY <1>1, <1>7
<1>9. Stands(t, B, p)
  BY <1>7, <1>8 DEF Stands
<1> QED  BY <1>5, <1>9 DEF B

\* What is skipped for a block is the block, and nothing else.
LEMMA SkippedIs ==
  ASSUME NEW t \in Seq(Lines), NEW off, NEW ats, NEW nets, Meaning(off, ats, nets),
         Whole(t, off, ats, nets), NEW b \in BlockNames, NEW i \in 1 .. Len(t)
  PROVE  i \in Skipped(t, b) <=> InBlock(t[i], b, nets[b])
<1> DEFINE B == BlockOf(b, nets[b])
<1>0. nets[b] \in SUBSET Routes /\ Len(t) \in Nat /\ DOMAIN t = 1 .. Len(t)
  BY DEF Meaning
<1>1. i \in Skipped(t, b) <=> \/ \E s \in 1 .. i : /\ t[s] = Opening(b)
                                                   /\ \A e \in s .. i - 1 : t[e] # Closing(b)
                              \/ t[i] = Closing(b)
  BY <1>0 DEF Skipped
<1>2. CASE nets[b] = {}
  <2>1. \A j \in 1 .. Len(t) : t[j] # Opening(b) /\ t[j] # Closing(b)
    <3> SUFFICES ASSUME NEW j \in 1 .. Len(t), t[j] = Opening(b) \/ t[j] = Closing(b) PROVE FALSE
      OBVIOUS
    <3>1. Meant(t[j], off, ats, nets)
      BY DEF Whole, Exactly
    <3>2. ~Own(t[j]) /\ t[j].of = b
      BY LineFacts
    <3>3. InBlock(t[j], b, nets[b])
      BY <3>1, <3>2, MeantFacts
    <3> QED  BY <1>2, <3>3 DEF InBlock
  <2>2. 1 .. i \subseteq 1 .. Len(t)
    BY <1>0
  <2>3. i \notin Skipped(t, b)
    BY <1>1, <2>1, <2>2
  <2> QED  BY <1>2, <2>3 DEF InBlock
<1>3. CASE nets[b] # {}
  <2>1. PICK p \in 0 .. Len(t) : /\ p + Len(B) <= Len(t)
                                 /\ \A k \in 1 .. Len(B) : t[p + k] = B[k]
    <3>1. \E p \in 0 .. Len(t) : Stands(t, B, p)
      BY <1>3, InOnePiece
    <3> QED  BY <3>1 DEF Stands
  <2>2. /\ Len(B) \in Nat /\ Len(B) >= 2 /\ B[1] = Opening(b) /\ B[Len(B)] = Closing(b)
        /\ \A m, n \in 1 .. Len(B) : B[m] = B[n] => m = n
    BY <1>0, <1>3, BlockFacts
  <2>3. \A j, k \in 1 .. Len(t) : t[j] = t[k] => j = k
    BY DEF Whole, Distinct
  <2>4. InBlock(t[i], b, nets[b]) <=> \E n \in 1 .. Len(B) : t[i] = B[n]
    BY <1>3 DEF InBlock
  <2> HIDE DEF B
  <2>5. /\ p + 1 \in 1 .. Len(t) /\ t[p + 1] = Opening(b)
        /\ p + Len(B) \in 1 .. Len(t) /\ t[p + Len(B)] = Closing(b)
    BY <1>0, <2>1, <2>2
  <2>6. InBlock(t[i], b, nets[b]) <=> i \in p + 1 .. p + Len(B)
    <3>1. ASSUME NEW n \in 1 .. Len(B), t[i] = B[n] PROVE i \in p + 1 .. p + Len(B)
      <4>1. p + n \in 1 .. Len(t) /\ t[p + n] = t[i]
        BY <1>0, <2>1, <2>2, <3>1
      <4>2. i = p + n
        BY <2>3, <4>1
      <4> QED  BY <2>2, <4>2
    <3>2. ASSUME i \in p + 1 .. p + Len(B) PROVE \E n \in 1 .. Len(B) : t[i] = B[n]
      <4>1. i - p \in 1 .. Len(B) /\ p + (i - p) = i
        BY <1>0, <2>2, <3>2
      <4> QED  BY <2>1, <4>1
    <3> QED  BY <2>4, <3>1, <3>2
  <2>7. ASSUME i \in p + 1 .. p + Len(B)
        PROVE  \E s \in 1 .. i : /\ t[s] = Opening(b)
                                 /\ \A e \in s .. i - 1 : t[e] # Closing(b)
    <3>1. p + 1 \in 1 .. i
      BY <1>0, <2>2, <2>7
    <3>2. \A e \in p + 1 .. i - 1 : e \in 1 .. Len(t) /\ e # p + Len(B)
      BY <1>0, <2>2, <2>7
    <3>3. \A e \in p + 1 .. i - 1 : t[e] # Closing(b)
      BY <2>3, <2>5, <3>2
    <3> QED  BY <2>5, <3>1, <3>3
  <2>8. ASSUME NEW s \in 1 .. i, t[s] = Opening(b), \A e \in s .. i - 1 : t[e] # Closing(b)
        PROVE  i \in p + 1 .. p + Len(B)
    <3>1. s \in 1 .. Len(t)
      BY <1>0
    <3>2. s = p + 1
      BY <2>3, <2>5, <2>8, <3>1
    <3>3. p + Len(B) \notin s .. i - 1
      BY <2>5, <2>8
    <3> QED  BY <1>0, <2>2, <2>5, <3>2, <3>3
  <2>9. ASSUME t[i] = Closing(b) PROVE i \in p + 1 .. p + Len(B)
    <3>1. i = p + Len(B)
      BY <2>3, <2>5, <2>9
    <3> QED  BY <2>2, <3>1
  <2> QED  BY <1>1, <2>6, <2>7, <2>8, <2>9
<1> QED  BY <1>2, <1>3

\* Taking a part out leaves the others as they were.
LEMMA TakenOut ==
  ASSUME NEW t \in Seq(Lines), NEW off, NEW ats, NEW nets, Meaning(off, ats, nets),
         Whole(t, off, ats, nets), NEW I \in SUBSET (1 .. Len(t)),
         NEW offN, NEW netsN, Meaning(offN, ats, netsN),
         \A i \in 1 .. Len(t) : i \in I <=> Meant(t[i], offN, ats, netsN),
         offN => off, \A b \in BlockNames : netsN[b] # {} => netsN[b] = nets[b]
  PROVE  Subsequence(t, I) \in Seq(Lines) /\ Whole(Subsequence(t, I), offN, ats, netsN)
<1> DEFINE u == Subsequence(t, I)
<1>0. Len(t) \in Nat /\ DOMAIN t = 1 .. Len(t)
  OBVIOUS
<1>1. /\ u \in Seq(Lines) /\ Len(u) \in Nat /\ Len(u) = Cardinality(I)
      /\ \A i \in I : PlaceIn(I, i) \in 1 .. Len(u) /\ u[PlaceIn(I, i)] = t[i]
      /\ \A k \in 1 .. Len(u) : \E i \in I : PlaceIn(I, i) = k
      /\ \A i, j \in I : i < j => PlaceIn(I, i) < PlaceIn(I, j)
  <2>1. I \in SUBSET DOMAIN t
    BY <1>0
  <2> QED  BY <2>1, SubsequenceIs
<1> HIDE DEF u
<1>2. \A k \in 1 .. Len(u) : \E i \in I : PlaceIn(I, i) = k /\ u[k] = t[i] /\ i \in 1 .. Len(t)
  BY <1>1
<1>3. Distinct(u)
  <2>1. \A i, j \in 1 .. Len(t) : t[i] = t[j] => i = j
    BY DEF Whole, Distinct
  <2> SUFFICES ASSUME NEW k \in 1 .. Len(u), NEW m \in 1 .. Len(u), u[k] = u[m] PROVE k = m
    BY DEF Distinct
  <2>2. PICK i \in I : PlaceIn(I, i) = k /\ u[k] = t[i] /\ i \in 1 .. Len(t)
    BY <1>2
  <2>3. PICK j \in I : PlaceIn(I, j) = m /\ u[m] = t[j] /\ j \in 1 .. Len(t)
    BY <1>2
  <2>4. i = j
    BY <2>1, <2>2, <2>3
  <2> QED  BY <2>2, <2>3, <2>4
<1>4. Exactly(u, offN, ats, netsN)
  <2>1. ASSUME NEW k \in 1 .. Len(u) PROVE Meant(u[k], offN, ats, netsN)
    BY <1>2
  <2>2. ASSUME NEW line \in Lines, Meant(line, offN, ats, netsN)
        PROVE  \E k \in 1 .. Len(u) : u[k] = line
    <3>1. Meant(line, off, ats, nets)
      <4>1. \A b \in BlockNames : InBlock(line, b, netsN[b]) => InBlock(line, b, nets[b])
        BY DEF InBlock
      <4> QED  BY <2>2, <4>1 DEF Meant
    <3>2. PICK i \in 1 .. Len(t) : t[i] = line
      BY <3>1 DEF Whole, Exactly
    <3>3. i \in I
      BY <2>2, <3>2
    <3> QED  BY <1>1, <3>2, <3>3
  <2> QED  BY <2>1, <2>2 DEF Exactly
<1>5. OwnFirst(u)
  <2> SUFFICES ASSUME NEW k \in 1 .. Len(u), NEW m \in 1 .. Len(u), k < m, Own(u[m])
               PROVE  Own(u[k])
    BY DEF OwnFirst
  <2>1. PICK i \in I : PlaceIn(I, i) = k /\ u[k] = t[i] /\ i \in 1 .. Len(t)
    BY <1>2
  <2>2. PICK j \in I : PlaceIn(I, j) = m /\ u[m] = t[j] /\ j \in 1 .. Len(t)
    BY <1>2
  <2>3. i < j
    BY <1>0, <1>1, <2>1, <2>2
  <2> QED  BY <2>1, <2>2, <2>3 DEF Whole, OwnFirst
<1>6. DisableFirst(u)
  <2> SUFFICES ASSUME NEW k \in 1 .. Len(u), u[k] = Disable PROVE k = 1
    BY DEF DisableFirst
  <2>1. PICK i \in I : PlaceIn(I, i) = k /\ u[k] = t[i] /\ i \in 1 .. Len(t)
    BY <1>2
  <2>2. i = 1
    BY <2>1 DEF Whole, DisableFirst
  <2>3. 1 .. i \subseteq I
    BY <2>2
  <2> QED  BY <1>0, <2>1, <2>2, <2>3, SamePlace
<1>7. Unbroken(u, netsN)
  <2> SUFFICES ASSUME NEW b \in BlockNames, netsN[b] # {}, NEW k \in 1 .. Len(u),
                      NEW n \in 1 .. Len(BlockOf(b, netsN[b])) - 1,
                      u[k] = BlockOf(b, netsN[b])[n]
               PROVE  k < Len(u) /\ u[k + 1] = BlockOf(b, netsN[b])[n + 1]
    BY DEF Unbroken
  <2> DEFINE B == BlockOf(b, netsN[b])
  <2>0. netsN[b] = nets[b] /\ netsN[b] \in SUBSET Routes
    BY DEF Meaning
  <2>1. PICK i \in I : PlaceIn(I, i) = k /\ u[k] = t[i] /\ i \in 1 .. Len(t)
    BY <1>2
  <2>2. i < Len(t) /\ t[i + 1] = B[n + 1]
    BY <2>0, <2>1 DEF Whole, Unbroken
  <2>3. Len(B) \in Nat
    BY <2>0, BlockFacts
  <2>4. InBlock(B[n + 1], b, netsN[b])
    BY <2>3 DEF InBlock
  <2>5. i + 1 \in 1 .. Len(t)
    BY <1>0, <2>1, <2>2
  <2>6. i + 1 \in I
    BY <2>2, <2>4, <2>5 DEF Meant
  <2>7. PlaceIn(I, i + 1) = k + 1
    BY <1>0, <2>1, <2>6, NextPlace
  <2>8. k + 1 \in 1 .. Len(u) /\ u[k + 1] = B[n + 1]
    BY <1>1, <2>2, <2>6, <2>7
  <2> QED  BY <1>1, <2>8
<1>8. MeshLast(u, netsN)
  <2> SUFFICES ASSUME netsN[Mesh] # {} PROVE Len(u) > 0 /\ u[Len(u)] = Closing(Mesh)
    BY DEF MeshLast
  <2>0. Mesh \in BlockNames
    BY DEF BlockNames
  <2>1. netsN[Mesh] = nets[Mesh] /\ netsN[Mesh] \in SUBSET Routes
    BY <2>0 DEF Meaning
  <2>2. Len(t) > 0 /\ t[Len(t)] = Closing(Mesh)
    BY <2>1 DEF Whole, MeshLast
  <2>3. InBlock(Closing(Mesh), Mesh, netsN[Mesh])
    BY <2>0, <2>1, BlockFacts DEF InBlock
  <2>4. Len(t) \in 1 .. Len(t)
    BY <1>0, <2>2
  <2>5. Len(t) \in I
    BY <2>0, <2>2, <2>3, <2>4 DEF Meant
  <2>6. PlaceIn(I, Len(t)) = Len(u)
    BY <1>0, <1>1, <2>5, LastPlace
  <2> QED  BY <1>1, <2>2, <2>5, <2>6
<1> QED  BY <1>1, <1>3, <1>4, <1>5, <1>6, <1>7, <1>8 DEF Whole, u

(***************************************************************************)
(* CcdFile: putting lines in                                               *)
(***************************************************************************)
PutIn(u, p, B) == SubSeq(u, 1, p) \o B \o SubSeq(u, p + 1, Len(u))

LEMMA PutIs ==
  ASSUME NEW S, NEW u \in Seq(S), NEW B \in Seq(S), NEW p \in 0 .. Len(u)
  PROVE  LET v == PutIn(u, p, B)
         IN  /\ v \in Seq(S) /\ Len(v) = Len(u) + Len(B)
             /\ Len(u) \in Nat /\ Len(B) \in Nat
             /\ \A i \in 1 .. p : i \in 1 .. Len(u) /\ v[i] = u[i]
             /\ \A k \in 1 .. Len(B) : v[p + k] = B[k]
             /\ \A i \in p + 1 .. Len(u) : i \in 1 .. Len(u) /\ v[i + Len(B)] = u[i]
             /\ \A i \in 1 .. Len(v) : \/ i \in 1 .. p
                                       \/ i - p \in 1 .. Len(B) /\ i > p /\ p + (i - p) = i
                                       \/ /\ i - Len(B) \in p + 1 .. Len(u)
                                          /\ i > p + Len(B) /\ i - Len(B) + Len(B) = i
<1> DEFINE v == PutIn(u, p, B)
           x == SubSeq(u, 1, p)
           y == SubSeq(u, p + 1, Len(u))
<1>1. Len(u) \in Nat /\ Len(B) \in Nat /\ p \in Nat /\ p <= Len(u)
  OBVIOUS
<1>2. x \in Seq(S) /\ Len(x) = p /\ \A i \in 1 .. p : x[i] = u[i]
  BY <1>1
<1>3. y \in Seq(S) /\ Len(y) = Len(u) - p /\ \A i \in 1 .. Len(u) - p : y[i] = u[p + i]
  BY <1>1
<1>4. v = x \o B \o y
  BY DEF PutIn
<1> HIDE DEF v, x, y
<1>5. v \in Seq(S) /\ Len(v) = Len(u) + Len(B)
  <2>1. x \o B \in Seq(S) /\ Len(x \o B) = Len(x) + Len(B)
    <3>1. x \in Seq(S) /\ B \in Seq(S)
      BY <1>2
    <3> QED  BY <3>1, Appended
  <2>2. v \in Seq(S) /\ Len(v) = Len(x \o B) + Len(y)
    <3>1. x \o B \in Seq(S) /\ y \in Seq(S) /\ v = (x \o B) \o y
      BY <1>3, <1>4, <2>1
    <3> QED  BY <3>1, Appended
  <2>3. Len(x) = p /\ Len(y) = Len(u) - p
    BY <1>2, <1>3
  <2>4. p + Len(B) + (Len(u) - p) = Len(u) + Len(B)
    BY <1>1
  <2> QED  BY <2>1, <2>2, <2>3, <2>4
<1>6. \A i \in 1 .. p : i \in 1 .. Len(u) /\ v[i] = u[i]
  BY <1>1, <1>2, <1>3, <1>4
<1>7. \A k \in 1 .. Len(B) : v[p + k] = B[k]
  BY <1>1, <1>2, <1>3, <1>4
<1>8. ASSUME NEW i \in p + 1 .. Len(u) PROVE i \in 1 .. Len(u) /\ v[i + Len(B)] = u[i]
  <2>1. i - p \in 1 .. Len(u) - p /\ i + Len(B) = p + Len(B) + (i - p) /\ p + (i - p) = i
    BY <1>1
  <2>2. Len(x \o B) = p + Len(B) /\ x \o B \in Seq(S)
    <3>1. x \in Seq(S) /\ B \in Seq(S) /\ Len(x) = p
      BY <1>2
    <3>2. x \o B \in Seq(S) /\ Len(x \o B) = Len(x) + Len(B)
      <4>1. x \in Seq(S) /\ B \in Seq(S)
        BY <3>1
      <4> QED  BY <4>1, Appended
    <3> QED  BY <3>1, <3>2
  <2>3. v[p + Len(B) + (i - p)] = y[i - p]
    BY <1>1, <1>3, <1>4, <2>1, <2>2
  <2> QED  BY <1>1, <1>3, <2>1, <2>3
<1>9. \A i \in 1 .. Len(v) : \/ i \in 1 .. p
                             \/ i - p \in 1 .. Len(B) /\ i > p /\ p + (i - p) = i
                             \/ /\ i - Len(B) \in p + 1 .. Len(u)
                                /\ i > p + Len(B) /\ i - Len(B) + Len(B) = i
  BY <1>1, <1>5
<1> QED  BY <1>1, <1>5, <1>6, <1>7, <1>8, <1>9 DEF v

OneMore(v, S, u, p, e) ==
    /\ v \in Seq(S) /\ Len(v) = Len(u) + 1 /\ Len(u) \in Nat
    /\ \A i \in 1 .. p : i \in 1 .. Len(u) /\ v[i] = u[i]
    /\ v[p + 1] = e
    /\ \A i \in p + 1 .. Len(u) : i \in 1 .. Len(u) /\ v[i + 1] = u[i]

LEMMA OneIs ==
  ASSUME NEW S, NEW u \in Seq(S), NEW e \in S, NEW p \in 0 .. Len(u)
  PROVE  OneMore(PutIn(u, p, <<e>>), S, u, p, e)
<1> DEFINE B == <<e>>
           v == PutIn(u, p, B)
<1>1. Len(B) = 1 /\ B[1] = e
  OBVIOUS
<1>0. B \in Seq(S)
  OBVIOUS
<1> HIDE DEF B
<1>2. /\ v \in Seq(S) /\ Len(v) = Len(u) + Len(B)
      /\ Len(u) \in Nat /\ Len(B) \in Nat
      /\ \A i \in 1 .. p : i \in 1 .. Len(u) /\ v[i] = u[i]
      /\ \A k \in 1 .. Len(B) : v[p + k] = B[k]
      /\ \A i \in p + 1 .. Len(u) : i \in 1 .. Len(u) /\ v[i + Len(B)] = u[i]
      /\ \A i \in 1 .. Len(v) : \/ i \in 1 .. p
                                \/ i - p \in 1 .. Len(B) /\ i > p /\ p + (i - p) = i
                                \/ /\ i - Len(B) \in p + 1 .. Len(u)
                                   /\ i > p + Len(B) /\ i - Len(B) + Len(B) = i
  BY <1>0, PutIs
<1> HIDE DEF v
<1>3. v[p + 1] = e
  BY <1>1, <1>2
<1>4. Len(v) = Len(u) + 1 /\ \A i \in p + 1 .. Len(u) : v[i + 1] = u[i]
  BY <1>1, <1>2
<1>5. OneMore(v, S, u, p, e)
  BY <1>2, <1>3, <1>4 DEF OneMore
<1> QED  BY <1>5 DEF v, B

\* A block that is not there is put in front of the push routes, or at the end.
LEMMA BlockPutIn ==
  ASSUME NEW u \in Seq(Lines), NEW off, NEW ats, NEW nets, Meaning(off, ats, nets),
         Whole(u, off, ats, nets),
         NEW b \in BlockNames, nets[b] = {}, NEW routes \in SUBSET Routes, routes # {},
         NEW p \in 0 .. Len(u),
         p # Len(u) => b # Mesh /\ u[p + 1] = Opening(Mesh),
         p = Len(u) /\ b # Mesh => nets[Mesh] = {}
  PROVE  /\ PutIn(u, p, BlockOf(b, routes)) \in Seq(Lines)
         /\ Whole(PutIn(u, p, BlockOf(b, routes)), off, ats, [nets EXCEPT ![b] = routes])
<1> DEFINE B == BlockOf(b, routes)
           L == Len(B)
           v == PutIn(u, p, B)
           N == [nets EXCEPT ![b] = routes]
<1>1. /\ B \in Seq(Lines) /\ L \in Nat /\ L >= 2
      /\ B[1] = Opening(b) /\ B[L] = Closing(b)
      /\ \A m, n \in 1 .. L : B[m] = B[n] => m = n
      /\ \A n \in 1 .. L : ~Own(B[n]) /\ B[n].of = b
  BY BlockFacts
<1>2. N[b] = routes /\ (\A c \in BlockNames \ {b} : N[c] = nets[c])
      /\ N \in [BlockNames -> SUBSET Routes] /\ nets \in [BlockNames -> SUBSET Routes]
  BY DEF Meaning
<1>3. BlockOf(b, N[b]) = B
  BY <1>2
<1> HIDE DEF B, N
<1>4. /\ v \in Seq(Lines) /\ Len(v) = Len(u) + L
      /\ Len(u) \in Nat /\ L \in Nat /\ p \in Nat
      /\ \A i \in 1 .. p : i \in 1 .. Len(u) /\ v[i] = u[i]
      /\ \A k \in 1 .. L : v[p + k] = B[k]
      /\ \A i \in p + 1 .. Len(u) : i \in 1 .. Len(u) /\ v[i + L] = u[i]
      /\ \A i \in 1 .. Len(v) : \/ i \in 1 .. p
                                \/ i - p \in 1 .. L /\ i > p /\ p + (i - p) = i
                                \/ i - L \in p + 1 .. Len(u) /\ i > p + L /\ i - L + L = i
  BY <1>1, PutIs
<1> HIDE DEF v
<1>21. /\ L \in Nat /\ L >= 2 /\ B[1] = Opening(b) /\ B[L] = Closing(b)
       /\ \A m, n \in 1 .. L : B[m] = B[n] => m = n
       /\ \A n \in 1 .. L : ~Own(B[n]) /\ B[n].of = b
  BY <1>1
<1> HIDE DEF L
<1>22. \A i \in 1 .. Len(v) :
         \/ i \in 1 .. p /\ i \in 1 .. Len(u) /\ v[i] = u[i]
         \/ i > p /\ i - p \in 1 .. L /\ p + (i - p) = i /\ v[i] = B[i - p]
         \/ /\ i > p + L /\ i - L \in p + 1 .. Len(u) /\ i - L \in 1 .. Len(u)
            /\ i - L + L = i /\ v[i] = u[i - L]
  <2> SUFFICES ASSUME NEW i \in 1 .. Len(v)
               PROVE  \/ i \in 1 .. p /\ i \in 1 .. Len(u) /\ v[i] = u[i]
                      \/ i > p /\ i - p \in 1 .. L /\ p + (i - p) = i /\ v[i] = B[i - p]
                      \/ /\ i > p + L /\ i - L \in p + 1 .. Len(u) /\ i - L \in 1 .. Len(u)
                         /\ i - L + L = i /\ v[i] = u[i - L]
    OBVIOUS
  <2>1. CASE i \in 1 .. p
    BY <1>4, <2>1
  <2>2. CASE i - p \in 1 .. L /\ i > p /\ p + (i - p) = i
    <3>1. v[p + (i - p)] = B[i - p]
      BY <1>4, <2>2
    <3> QED  BY <2>2, <3>1
  <2>3. CASE i - L \in p + 1 .. Len(u) /\ i > p + L /\ i - L + L = i
    <3>1. i - L \in 1 .. Len(u) /\ v[i - L + L] = u[i - L]
      BY <1>4, <2>3
    <3> QED  BY <2>3, <3>1
  <2> QED  BY <1>4, <2>1, <2>2, <2>3
<1>5. \A i \in 1 .. Len(u) : \A n \in 1 .. L : u[i] # B[n]
  <2> SUFFICES ASSUME NEW i \in 1 .. Len(u), NEW n \in 1 .. L, u[i] = B[n] PROVE FALSE
    OBVIOUS
  <2>1. Meant(u[i], off, ats, nets) /\ ~Own(u[i]) /\ u[i].of = b
    BY <1>1 DEF Whole, Exactly
  <2>2. InBlock(u[i], b, nets[b])
    BY <2>1, MeantFacts
  <2> QED  BY <2>2 DEF InBlock
<1>6. p # Len(u) => p + 1 \in 1 .. Len(u) /\ ~Own(u[p + 1]) /\ u[p + 1] # Disable
  <2>1. ~Own(Opening(Mesh)) /\ Opening(Mesh) # Disable
    BY LineFacts DEF BlockNames
  <2> QED  BY <1>4, <2>1
<1>7. \A i \in p + 1 .. Len(u) : ~Own(u[i])
  <2> SUFFICES ASSUME NEW i \in p + 1 .. Len(u), Own(u[i]) PROVE FALSE
    OBVIOUS
  <2>1. p # Len(u) /\ i \in 1 .. Len(u)
    BY <1>4
  <2>2. i = p + 1 \/ p + 1 < i
    BY <1>4
  <2> QED  BY <1>6, <2>1, <2>2 DEF Whole, OwnFirst
<1>8. Distinct(v)
  <2>1. \A i, j \in 1 .. Len(u) : u[i] = u[j] => i = j
    BY DEF Whole, Distinct
  <2> SUFFICES ASSUME NEW i \in 1 .. Len(v), NEW j \in 1 .. Len(v), v[i] = v[j] PROVE i = j
    BY DEF Distinct
  <2>2. CASE i \in 1 .. p /\ i \in 1 .. Len(u) /\ v[i] = u[i]
    <3>1. CASE j \in 1 .. p /\ j \in 1 .. Len(u) /\ v[j] = u[j]
      BY <2>1, <2>2, <3>1
    <3>2. CASE j > p + L /\ j - L \in p + 1 .. Len(u) /\ j - L \in 1 .. Len(u) /\ v[j] = u[j - L]
      <4>1. i = j - L
        BY <2>1, <2>2, <3>2
      <4> QED  BY <1>4, <2>2, <3>2, <4>1
    <3> QED  BY <1>5, <1>22, <2>2, <3>1, <3>2
  <2>3. CASE i > p /\ i - p \in 1 .. L /\ p + (i - p) = i /\ v[i] = B[i - p]
    <3>1. j > p /\ j - p \in 1 .. L /\ v[j] = B[j - p] /\ p + (j - p) = j
      BY <1>5, <1>22, <2>3
    <3>2. i - p = j - p
      BY <1>21, <2>3, <3>1
    <3> QED  BY <2>3, <3>1, <3>2
  <2>4. CASE /\ i > p + L /\ i - L \in p + 1 .. Len(u) /\ i - L \in 1 .. Len(u)
             /\ i - L + L = i /\ v[i] = u[i - L]
    <3>1. CASE j \in 1 .. p /\ j \in 1 .. Len(u) /\ v[j] = u[j]
      <4>1. j = i - L
        BY <2>1, <2>4, <3>1
      <4> QED  BY <1>4, <2>4, <3>1, <4>1
    <3>2. CASE j - L \in 1 .. Len(u) /\ j - L + L = j /\ v[j] = u[j - L]
      <4>1. i - L = j - L
        BY <2>1, <2>4, <3>2
      <4> QED  BY <2>4, <3>2, <4>1
    <3> QED  BY <1>5, <1>22, <2>4, <3>1, <3>2
  <2> QED  BY <1>22, <2>2, <2>3, <2>4
<1>9. Exactly(v, off, ats, N)
  <2>1. \A line : Meant(line, off, ats, nets) => Meant(line, off, ats, N)
    <3> SUFFICES ASSUME NEW line, Meant(line, off, ats, nets) PROVE Meant(line, off, ats, N)
      OBVIOUS
    <3>1. \A c \in BlockNames : InBlock(line, c, nets[c]) => InBlock(line, c, N[c])
      BY <1>2 DEF InBlock
    <3> QED  BY <3>1 DEF Meant
  <2>2. \A n \in 1 .. L : Meant(B[n], off, ats, N)
    <3>1. \A n \in 1 .. L : InBlock(B[n], b, N[b])
      BY <1>2 DEF InBlock, B, L
    <3> QED  BY <3>1 DEF Meant
  <2>3. ASSUME NEW i \in 1 .. Len(v) PROVE Meant(v[i], off, ats, N)
    <3>1. (\E j \in 1 .. Len(u) : v[i] = u[j]) \/ (\E n \in 1 .. L : v[i] = B[n])
      BY <1>4
    <3> QED  BY <2>1, <2>2, <3>1 DEF Whole, Exactly
  <2>4. ASSUME NEW line \in Lines, Meant(line, off, ats, N)
        PROVE  \E i \in 1 .. Len(v) : v[i] = line
    <3>1. Meant(line, off, ats, nets) \/ InBlock(line, b, routes)
      BY <1>2, <2>4 DEF Meant
    <3>2. CASE Meant(line, off, ats, nets)
      <4>1. PICK j \in 1 .. Len(u) : u[j] = line
        BY <3>2 DEF Whole, Exactly
      <4>2. CASE j <= p
        BY <1>4, <4>1, <4>2
      <4>3. CASE j > p
        <5>1. j \in p + 1 .. Len(u) /\ j + L \in 1 .. Len(v)
          BY <1>4, <4>3
        <5> QED  BY <1>4, <4>1, <5>1
      <4> QED  BY <1>4, <4>2, <4>3
    <3>3. CASE InBlock(line, b, routes)
      <4>1. PICK n \in 1 .. L : line = B[n]
        BY <3>3 DEF InBlock, B, L
      <4>2. p + n \in 1 .. Len(v)
        BY <1>4
      <4> QED  BY <1>4, <4>1, <4>2
    <3> QED  BY <3>1, <3>2, <3>3
  <2> QED  BY <2>3, <2>4 DEF Exactly
<1>10. \A j \in 1 .. Len(v) : Own(v[j]) => j \in 1 .. p
  <2> SUFFICES ASSUME NEW j \in 1 .. Len(v), Own(v[j]) PROVE j \in 1 .. p
    OBVIOUS
  <2>1. ~(j > p /\ j - p \in 1 .. L /\ v[j] = B[j - p])
    BY <1>21
  <2>2. ~(j - L \in p + 1 .. Len(u) /\ v[j] = u[j - L])
    BY <1>7
  <2> QED  BY <1>22, <2>1, <2>2
<1>11. OwnFirst(v)
  <2> SUFFICES ASSUME NEW i \in 1 .. Len(v), NEW j \in 1 .. Len(v), i < j, Own(v[j])
               PROVE  Own(v[i])
    BY DEF OwnFirst
  <2>1. j \in 1 .. p
    BY <1>10
  <2>2. i \in 1 .. p
    BY <1>4, <2>1
  <2> QED  BY <1>4, <2>1, <2>2 DEF Whole, OwnFirst
<1>12. DisableFirst(v)
  <2> SUFFICES ASSUME NEW i \in 1 .. Len(v), v[i] = Disable PROVE i = 1
    BY DEF DisableFirst
  <2>1. i \in 1 .. p
    BY <1>10, LineFacts
  <2> QED  BY <1>4, <2>1 DEF Whole, DisableFirst
<1>13. Unbroken(v, N)
  <2> SUFFICES ASSUME NEW c \in BlockNames, N[c] # {}, NEW i \in 1 .. Len(v),
                      NEW n \in 1 .. Len(BlockOf(c, N[c])) - 1, v[i] = BlockOf(c, N[c])[n]
               PROVE  i < Len(v) /\ v[i + 1] = BlockOf(c, N[c])[n + 1]
    BY DEF Unbroken
  <2>1. CASE c = b
    <3>1. n \in 1 .. L - 1 /\ v[i] = B[n] /\ n \in 1 .. L /\ n + 1 \in 1 .. L
      BY <1>1, <1>3, <1>4, <2>1 DEF L
    <3>2. i = p + n
      <4>1. \A j \in 1 .. Len(u) : v[i] # u[j]
        BY <1>5, <3>1
      <4>2. i - p \in 1 .. L /\ p + (i - p) = i /\ v[i] = B[i - p]
        BY <1>22, <4>1
      <4>3. i - p = n
        BY <1>21, <3>1, <4>2
      <4> QED  BY <4>2, <4>3
    <3>3. i + 1 = p + (n + 1) /\ i < Len(v)
      BY <1>4, <3>1, <3>2
    <3>4. v[i + 1] = B[n + 1]
      BY <1>4, <3>1, <3>3
    <3> QED  BY <1>3, <2>1, <3>3, <3>4
  <2>2. CASE c # b
    <3> DEFINE C == BlockOf(c, nets[c])
    <3>1. N[c] = nets[c] /\ nets[c] \in SUBSET Routes /\ nets[c] # {}
      BY <1>2, <2>2
    <3>2. /\ Len(C) \in Nat /\ C[1] = Opening(c)
          /\ \A m, k \in 1 .. Len(C) : C[m] = C[k] => m = k
          /\ \A k \in 1 .. Len(C) : C[k].of = c
      BY <3>1, BlockFacts
    <3>3. \A j \in 1 .. Len(u), k \in 1 .. Len(C) - 1 :
             u[j] = C[k] => j < Len(u) /\ u[j + 1] = C[k + 1]
      BY <3>1 DEF Whole, Unbroken
    <3>4. n \in 1 .. Len(C) - 1 /\ v[i] = C[n] /\ n \in 1 .. Len(C) /\ n + 1 \in 1 .. Len(C)
      BY <3>1, <3>2
    <3> SUFFICES i < Len(v) /\ v[i + 1] = C[n + 1]
      BY <3>1
    <3> HIDE DEF C
    <3>5. CASE i \in 1 .. p
      <4>1. i \in 1 .. Len(u) /\ u[i] = C[n]
        BY <1>4, <3>4, <3>5
      <4>2. i < Len(u) /\ u[i + 1] = C[n + 1]
        BY <3>3, <3>4, <4>1
      <4>3. i # p
        <5> SUFFICES ASSUME i = p PROVE FALSE
          OBVIOUS
        <5>1. u[p + 1] = Opening(Mesh) /\ u[p + 1] = C[n + 1]
          BY <1>4, <4>2
        <5>2. Opening(Mesh).of = Mesh
          BY LineFacts DEF BlockNames
        <5>3. c = Mesh
          BY <3>2, <3>4, <5>1, <5>2
        <5>4. 1 \in 1 .. Len(C) /\ C[1] = C[n + 1]
          <6>1. 1 \in 1 .. Len(C)
            BY <3>2, <3>4
          <6>2. C[1] = Opening(Mesh)
            BY <3>2, <5>3
          <6> QED  BY <5>1, <6>1, <6>2
        <5>5. n + 1 = 1
          BY <3>2, <3>4, <5>4
        <5> QED  BY <3>4, <5>5
      <4>4. i + 1 \in 1 .. p /\ i < Len(v)
        BY <1>4, <3>5, <4>2, <4>3
      <4> QED  BY <1>4, <4>2, <4>4
    <3>6. CASE i - p \in 1 .. L /\ i > p /\ p + (i - p) = i
      <4>1. v[i] = B[i - p]
        BY <1>4, <3>6
      <4>2. v[i].of = b /\ v[i].of = c
        BY <1>21, <3>2, <3>4, <3>6, <4>1
      <4> QED  BY <2>2, <4>2
    <3>7. CASE i - L \in p + 1 .. Len(u) /\ i > p + L /\ i - L + L = i
      <4>1. v[i] = u[i - L] /\ i - L \in 1 .. Len(u)
        BY <1>4, <3>7
      <4>2. i - L < Len(u) /\ u[i - L + 1] = C[n + 1]
        BY <3>3, <3>4, <4>1
      <4>3. i - L + 1 \in p + 1 .. Len(u) /\ i - L + 1 + L = i + 1 /\ i < Len(v)
        BY <1>4, <3>7, <4>2
      <4> QED  BY <1>4, <4>2, <4>3
    <3> QED  BY <1>4, <3>5, <3>6, <3>7
  <2> QED  BY <2>1, <2>2
<1>14. MeshLast(v, N)
  <2> SUFFICES ASSUME N[Mesh] # {} PROVE Len(v) > 0 /\ v[Len(v)] = Closing(Mesh)
    BY DEF MeshLast
  <2>1. CASE b = Mesh
    <3>1. p = Len(u)
      BY <2>1
    <3>2. Len(v) = p + L /\ L \in 1 .. L /\ Len(v) > 0
      BY <1>4, <1>21, <3>1
    <3>3. v[p + L] = B[L]
      BY <1>4, <3>2
    <3> QED  BY <1>21, <2>1, <3>2, <3>3
  <2>2. CASE b # Mesh
    <3>1. N[Mesh] = nets[Mesh]
      BY <1>2, <2>2 DEF BlockNames
    <3>2. p # Len(u) /\ Len(u) > 0 /\ u[Len(u)] = Closing(Mesh)
      BY <2>2, <3>1 DEF Whole, MeshLast
    <3>3. Len(u) \in p + 1 .. Len(u) /\ Len(u) + L = Len(v) /\ Len(v) > 0
      BY <1>4, <3>2
    <3> QED  BY <1>4, <3>2, <3>3
  <2> QED  BY <2>1, <2>2
<1> QED
  BY <1>4, <1>8, <1>9, <1>11, <1>12, <1>13, <1>14 DEF Whole, v, B, N

\* The user's own lines that are in a whole file.
LEMMA OwnLinesOf ==
  ASSUME NEW u \in Seq(Lines), NEW off, NEW ats, NEW nets, Meaning(off, ats, nets),
         Whole(u, off, ats, nets)
  PROVE  /\ off <=> Len(u) > 0 /\ u[1] = Disable
         /\ \A i \in 1 .. Len(u) : u[i] = Disable => off
         /\ \A i \in 1 .. Len(u), a \in Addresses : u[i] = Address(a) => a \in ats
         /\ \A a \in ats : \E i \in 1 .. Len(u) : u[i] = Address(a)
<1>0. Len(u) \in Nat
  OBVIOUS
<1>1. ASSUME off PROVE Len(u) > 0 /\ u[1] = Disable
  <2>1. Meant(Disable, off, ats, nets) /\ Disable \in Lines
    BY <1>1, LineFacts DEF Meant
  <2>2. PICK i \in 1 .. Len(u) : u[i] = Disable
    BY <2>1 DEF Whole, Exactly
  <2>3. i = 1
    BY <2>2 DEF Whole, DisableFirst
  <2> QED  BY <1>0, <2>2, <2>3
<1>2. ASSUME NEW i \in 1 .. Len(u), u[i] = Disable PROVE off
  <2>1. Meant(u[i], off, ats, nets) /\ Own(u[i])
    BY <1>2, LineFacts DEF Whole, Exactly
  <2>2. \A a \in ats : Address(a) # Disable
    BY LineFacts DEF Meaning
  <2> QED  BY <1>2, <2>1, <2>2, MeantFacts
<1>3. ASSUME NEW i \in 1 .. Len(u), NEW a \in Addresses, u[i] = Address(a) PROVE a \in ats
  <2>1. Meant(u[i], off, ats, nets) /\ Own(u[i])
    BY <1>3, LineFacts DEF Whole, Exactly
  <2>2. Address(a) # Disable
    BY LineFacts
  <2>3. PICK c \in ats : Address(a) = Address(c)
    BY <1>3, <2>1, <2>2, MeantFacts
  <2> QED  BY <2>3 DEF Address
<1>4. \A a \in ats : \E i \in 1 .. Len(u) : u[i] = Address(a)
  <2> SUFFICES ASSUME NEW a \in ats PROVE \E i \in 1 .. Len(u) : u[i] = Address(a)
    OBVIOUS
  <2>1. Meant(Address(a), off, ats, nets)
    BY DEF Meant
  <2>2. Address(a) \in Lines
    BY LineFacts DEF Meaning
  <2> QED  BY <2>1, <2>2 DEF Whole, Exactly
<1>5. ASSUME Len(u) > 0, u[1] = Disable PROVE off
  BY <1>0, <1>2, <1>5
<1> QED  BY <1>1, <1>2, <1>3, <1>4, <1>5

\* Where a line of the user's own goes, and what the file means with it.
InFront(e, p, off, ats, offN, atsN) ==
    \/ e = Disable /\ ~off /\ offN /\ atsN = ats /\ p = 0
    \/ \E a \in Addresses : /\ e = Address(a) /\ ats = {} /\ atsN = {a} /\ offN = off
                            /\ p = IF off THEN 1 ELSE 0

\* A line of the user's own that is not there is put to the front.
LEMMA OwnPutIn ==
  ASSUME NEW u \in Seq(Lines), NEW off, NEW ats, NEW nets, Meaning(off, ats, nets),
         Whole(u, off, ats, nets), NEW offN, NEW atsN, Meaning(offN, atsN, nets),
         NEW e, NEW p \in 0 .. Len(u), InFront(e, p, off, ats, offN, atsN)
  PROVE  PutIn(u, p, <<e>>) \in Seq(Lines) /\ Whole(PutIn(u, p, <<e>>), offN, atsN, nets)
<1> DEFINE v == PutIn(u, p, <<e>>)
<1>1. e \in Lines /\ Own(e)
  BY LineFacts DEF InFront
<1>3. /\ v \in Seq(Lines) /\ Len(v) = Len(u) + 1 /\ Len(u) \in Nat /\ p \in Nat /\ p <= 1
      /\ \A i \in 1 .. p : i \in 1 .. Len(u) /\ v[i] = u[i]
      /\ v[p + 1] = e
      /\ \A i \in p + 1 .. Len(u) : i \in 1 .. Len(u) /\ v[i + 1] = u[i]
  <2>1. /\ v \in Seq(Lines) /\ Len(v) = Len(u) + 1 /\ Len(u) \in Nat
        /\ \A i \in 1 .. p : i \in 1 .. Len(u) /\ v[i] = u[i]
        /\ v[p + 1] = e
        /\ \A i \in p + 1 .. Len(u) : i \in 1 .. Len(u) /\ v[i + 1] = u[i]
    <3>1. e \in Lines
      BY <1>1
    <3>2. OneMore(v, Lines, u, p, e)
      BY <3>1, OneIs
    <3> QED  BY <3>2 DEF OneMore
  <2>2. p \in Nat /\ p <= 1
    BY DEF InFront
  <2> QED  BY <2>1, <2>2
<1> HIDE DEF v
<1>4. \A i \in 1 .. Len(v) :
        \/ i \in 1 .. p /\ i \in 1 .. Len(u) /\ v[i] = u[i]
        \/ i = p + 1 /\ v[i] = e
        \/ /\ i > p + 1 /\ i - 1 \in p + 1 .. Len(u) /\ i - 1 \in 1 .. Len(u)
           /\ i - 1 + 1 = i /\ v[i] = u[i - 1]
  <2> SUFFICES ASSUME NEW i \in 1 .. Len(v)
               PROVE  \/ i \in 1 .. p /\ i \in 1 .. Len(u) /\ v[i] = u[i]
                      \/ i = p + 1 /\ v[i] = e
                      \/ /\ i > p + 1 /\ i - 1 \in p + 1 .. Len(u) /\ i - 1 \in 1 .. Len(u)
                         /\ i - 1 + 1 = i /\ v[i] = u[i - 1]
    OBVIOUS
  <2>1. CASE i <= p
    BY <1>3, <2>1
  <2>2. CASE i = p + 1
    BY <1>3, <2>2
  <2>3. CASE i > p + 1
    <3>1. i - 1 \in p + 1 .. Len(u) /\ i - 1 + 1 = i
      BY <1>3, <2>3
    <3>2. v[i - 1 + 1] = u[i - 1] /\ i - 1 \in 1 .. Len(u)
      BY <1>3, <3>1
    <3> QED  BY <2>3, <3>1, <3>2
  <2> QED  BY <1>3, <2>1, <2>2, <2>3
<1>5. /\ off <=> Len(u) > 0 /\ u[1] = Disable
      /\ \A i \in 1 .. Len(u) : u[i] = Disable => off
      /\ \A i \in 1 .. Len(u), a \in Addresses : u[i] = Address(a) => a \in ats
  BY OwnLinesOf
<1>6. \A i \in 1 .. Len(u) : u[i] # e
  BY <1>5 DEF InFront
<1>7. \A i \in 1 .. p : u[i] = Disable /\ i = 1 /\ off
  <2> SUFFICES ASSUME NEW i \in 1 .. p PROVE u[i] = Disable /\ i = 1 /\ off
    OBVIOUS
  <2>1. i = 1 /\ p = 1
    BY <1>3
  <2>2. off
    BY <2>1 DEF InFront
  <2> QED  BY <1>5, <2>1, <2>2
<1>8. Distinct(v)
  <2>1. \A i, j \in 1 .. Len(u) : u[i] = u[j] => i = j
    BY DEF Whole, Distinct
  <2> SUFFICES ASSUME NEW i \in 1 .. Len(v), NEW j \in 1 .. Len(v), v[i] = v[j], i < j
               PROVE  FALSE
    BY <1>3 DEF Distinct
  <2>2. CASE i \in 1 .. p /\ i \in 1 .. Len(u) /\ v[i] = u[i]
    <3>1. CASE j \in 1 .. Len(u) /\ v[j] = u[j]
      <4>1. i = j
        BY <2>1, <2>2, <3>1
      <4> QED  BY <1>3, <4>1
    <3>2. CASE j > p + 1 /\ j - 1 \in 1 .. Len(u) /\ v[j] = u[j - 1]
      <4>1. i = j - 1
        BY <2>1, <2>2, <3>2
      <4> QED  BY <1>3, <2>2, <3>2, <4>1
    <3> QED  BY <1>4, <1>6, <2>2, <3>1, <3>2
  <2>3. CASE i = p + 1 /\ v[i] = e
    BY <1>3, <1>4, <1>6, <2>3
  <2>4. CASE i > p + 1 /\ i - 1 \in 1 .. Len(u) /\ v[i] = u[i - 1]
    <3>1. j > p + 1 /\ j - 1 \in 1 .. Len(u) /\ v[j] = u[j - 1]
      <4>1. j > p + 1 /\ i \in Nat /\ j \in Nat
        BY <1>3, <2>4
      <4>2. ~(j \in 1 .. p) /\ j # p + 1
        BY <1>3, <4>1
      <4> QED  BY <1>4, <4>1, <4>2
    <3>2. i - 1 = j - 1
      BY <2>1, <2>4, <3>1
    <3> QED  BY <3>2
  <2> QED  BY <1>4, <2>2, <2>3, <2>4
<1>9. Exactly(v, offN, atsN, nets)
  <2>1. ASSUME NEW line PROVE Meant(line, offN, atsN, nets) <=> Meant(line, off, ats, nets) \/ line = e
    BY DEF Meant, InFront
  <2>2. ASSUME NEW i \in 1 .. Len(v) PROVE Meant(v[i], offN, atsN, nets)
    <3>1. (\E j \in 1 .. Len(u) : v[i] = u[j]) \/ v[i] = e
      BY <1>4
    <3> QED  BY <2>1, <3>1 DEF Whole, Exactly
  <2>3. ASSUME NEW line \in Lines, Meant(line, offN, atsN, nets)
        PROVE  \E i \in 1 .. Len(v) : v[i] = line
    <3>1. CASE line = e
      <4>1. p + 1 \in 1 .. Len(v)
        BY <1>3
      <4> QED  BY <1>3, <3>1, <4>1
    <3>2. CASE Meant(line, off, ats, nets)
      <4>1. PICK j \in 1 .. Len(u) : u[j] = line
        BY <3>2 DEF Whole, Exactly
      <4>2. CASE j <= p
        BY <1>3, <4>1, <4>2
      <4>3. CASE j > p
        <5>1. j \in p + 1 .. Len(u) /\ j + 1 \in 1 .. Len(v)
          BY <1>3, <4>3
        <5> QED  BY <1>3, <4>1, <5>1
      <4> QED  BY <1>3, <4>2, <4>3
    <3> QED  BY <2>1, <2>3, <3>1, <3>2
  <2> QED  BY <2>2, <2>3 DEF Exactly
<1>10. OwnFirst(v)
  <2> SUFFICES ASSUME NEW i \in 1 .. Len(v), NEW j \in 1 .. Len(v), i < j, Own(v[j])
               PROVE  Own(v[i])
    BY DEF OwnFirst
  <2>1. CASE i \in 1 .. p /\ v[i] = u[i]
    BY <1>7, <2>1, LineFacts
  <2>2. CASE i = p + 1 /\ v[i] = e
    BY <1>1, <2>2
  <2>3. CASE i > p + 1 /\ i - 1 \in 1 .. Len(u) /\ v[i] = u[i - 1]
    <3>1. j - 1 \in 1 .. Len(u) /\ v[j] = u[j - 1] /\ i - 1 < j - 1
      BY <1>3, <1>4, <2>3
    <3> QED  BY <2>3, <3>1 DEF Whole, OwnFirst
  <2> QED  BY <1>4, <2>1, <2>2, <2>3
<1>11. DisableFirst(v)
  <2> SUFFICES ASSUME NEW i \in 1 .. Len(v), v[i] = Disable PROVE i = 1
    BY DEF DisableFirst
  <2>1. CASE i \in 1 .. p
    BY <1>7, <2>1
  <2>2. CASE i = p + 1 /\ v[i] = e
    <3>1. p = 0
      BY <2>2, LineFacts DEF InFront
    <3> QED  BY <2>2, <3>1
  <2>3. CASE i > p + 1 /\ i - 1 \in 1 .. Len(u) /\ v[i] = u[i - 1]
    <3>1. off /\ p = 1
      BY <1>5, <2>3 DEF InFront
    <3>2. i - 1 = 1
      BY <2>3 DEF Whole, DisableFirst
    <3> QED  BY <2>3, <3>1, <3>2
  <2> QED  BY <1>4, <2>1, <2>2, <2>3
<1>12. \A i \in 1 .. Len(v) : ~Own(v[i]) => i > p + 1 /\ i - 1 \in 1 .. Len(u) /\ v[i] = u[i - 1]
                                            /\ i - 1 \in p + 1 .. Len(u)
  <2> SUFFICES ASSUME NEW i \in 1 .. Len(v), ~Own(v[i])
               PROVE  /\ i > p + 1 /\ i - 1 \in 1 .. Len(u) /\ v[i] = u[i - 1]
                      /\ i - 1 \in p + 1 .. Len(u)
    OBVIOUS
  <2>1. ~(i \in 1 .. p /\ v[i] = u[i])
    BY <1>7, LineFacts
  <2>2. ~(i = p + 1 /\ v[i] = e)
    BY <1>1
  <2> QED  BY <1>4, <2>1, <2>2
<1>13. Unbroken(v, nets)
  <2> SUFFICES ASSUME NEW c \in BlockNames, nets[c] # {}, NEW i \in 1 .. Len(v),
                      NEW n \in 1 .. Len(BlockOf(c, nets[c])) - 1, v[i] = BlockOf(c, nets[c])[n]
               PROVE  i < Len(v) /\ v[i + 1] = BlockOf(c, nets[c])[n + 1]
    BY DEF Unbroken
  <2> DEFINE C == BlockOf(c, nets[c])
  <2>1. nets[c] \in SUBSET Routes
    BY DEF Meaning
  <2>2. Len(C) \in Nat /\ \A k \in 1 .. Len(C) : ~Own(C[k])
    BY <2>1, BlockFacts
  <2>3. ~Own(v[i])
    BY <2>2
  <2>4. i > p + 1 /\ i - 1 \in 1 .. Len(u) /\ v[i] = u[i - 1] /\ i - 1 \in p + 1 .. Len(u)
    BY <1>12, <2>3
  <2>5. i - 1 < Len(u) /\ u[i - 1 + 1] = C[n + 1]
    BY <2>4 DEF Whole, Unbroken
  <2>6. i \in p + 1 .. Len(u) /\ i < Len(v) /\ i - 1 + 1 = i
    BY <1>3, <2>4, <2>5
  <2>7. v[i + 1] = u[i]
    BY <1>3, <2>6
  <2> QED  BY <2>5, <2>6, <2>7
<1>14. MeshLast(v, nets)
  <2> SUFFICES ASSUME nets[Mesh] # {} PROVE Len(v) > 0 /\ v[Len(v)] = Closing(Mesh)
    BY DEF MeshLast
  <2>1. Len(u) > 0 /\ u[Len(u)] = Closing(Mesh)
    BY DEF Whole, MeshLast
  <2>2. Closing(Mesh) # Disable
    BY LineFacts DEF BlockNames
  <2>3. Len(u) \in p + 1 .. Len(u)
    BY <1>3, <1>7, <2>1, <2>2
  <2>4. v[Len(u) + 1] = u[Len(u)]
    BY <1>3, <2>3
  <2> QED  BY <1>3, <2>1, <2>4
<1> QED
  BY <1>3, <1>8, <1>9, <1>10, <1>11, <1>13, <1>14 DEF Whole, v

\* The address line is replaced where it is.
LEMMA OwnReplaced ==
  ASSUME NEW t \in Seq(Lines), NEW off, NEW ats, NEW nets, Meaning(off, ats, nets),
         Whole(t, off, ats, nets), NEW c \in ats, NEW f \in 1 .. Len(t), t[f] = Address(c),
         NEW a \in Addresses
  PROVE  /\ [t EXCEPT ![f] = Address(a)] \in Seq(Lines)
         /\ Whole([t EXCEPT ![f] = Address(a)], off, {a}, nets)
<1> DEFINE v == [t EXCEPT ![f] = Address(a)]
<1>0. Len(t) \in Nat /\ DOMAIN t = 1 .. Len(t) /\ Address(a) \in Lines /\ c \in Addresses
  BY LineFacts DEF Meaning
<1>1. /\ v \in Seq(Lines) /\ Len(v) = Len(t)
      /\ v[f] = Address(a) /\ \A i \in 1 .. Len(t) : i # f => v[i] = t[i]
  BY <1>0
<1> HIDE DEF v
<1>2. /\ Own(Address(a)) /\ Own(Address(c)) /\ Address(a) # Disable /\ Address(c) # Disable
      /\ \A b \in BlockNames : Closing(b) # Address(a) /\ Closing(b) # Address(c)
  BY <1>0, LineFacts
<1>3. \A i, j \in 1 .. Len(t) : t[i] = t[j] => i = j
  BY DEF Whole, Distinct
<1>4. \A i \in 1 .. Len(t) : \A x \in Addresses : t[i] = Address(x) => i = f
  <2> SUFFICES ASSUME NEW i \in 1 .. Len(t), NEW x \in Addresses, t[i] = Address(x) PROVE i = f
    OBVIOUS
  <2>1. x \in ats
    BY OwnLinesOf
  <2>2. x = c
    BY <2>1 DEF Meaning
  <2> QED  BY <1>3, <2>2
<1>5. Distinct(v)
  BY <1>1, <1>3, <1>4 DEF Distinct
<1>6. \A i \in 1 .. Len(t) : Own(v[i]) <=> Own(t[i])
  BY <1>1, <1>2
<1>7. Exactly(v, off, {a}, nets)
  <2>1. ASSUME NEW i \in 1 .. Len(v) PROVE Meant(v[i], off, {a}, nets)
    <3>1. CASE i = f
      BY <1>1, <3>1 DEF Meant
    <3>2. CASE i # f
      <4>1. v[i] = t[i] /\ i \in 1 .. Len(t) /\ Meant(t[i], off, ats, nets)
        BY <1>1, <3>2 DEF Whole, Exactly
      <4>2. ~\E x \in ats : t[i] = Address(x)
        BY <1>4, <3>2, <4>1 DEF Meaning
      <4> QED  BY <4>1, <4>2 DEF Meant
    <3> QED  BY <3>1, <3>2
  <2>2. ASSUME NEW line \in Lines, Meant(line, off, {a}, nets)
        PROVE  \E i \in 1 .. Len(v) : v[i] = line
    <3>1. CASE line = Address(a)
      BY <1>1, <3>1
    <3>2. CASE line # Address(a)
      <4>1. Meant(line, off, ats, nets)
        BY <2>2, <3>2 DEF Meant
      <4>2. PICK i \in 1 .. Len(t) : t[i] = line
        BY <4>1 DEF Whole, Exactly
      <4>3. CASE i = f
        <5>1. line = Address(c) /\ line # Disable /\ Own(line)
          BY <1>2, <4>2, <4>3
        <5>2. Meaning(off, {a}, nets)
          BY DEF Meaning
        <5>3. \E x \in {a} : line = Address(x)
          BY <2>2, <5>1, <5>2, MeantFacts
        <5> QED  BY <3>2, <5>3
      <4>4. CASE i # f
        BY <1>1, <4>2, <4>4
      <4> QED  BY <4>3, <4>4
    <3> QED  BY <3>1, <3>2
  <2> QED  BY <2>1, <2>2 DEF Exactly
<1>8. OwnFirst(v)
  BY <1>1, <1>6 DEF Whole, OwnFirst
<1>9. DisableFirst(v)
  BY <1>1, <1>2 DEF Whole, DisableFirst
<1>10. Unbroken(v, nets)
  <2> SUFFICES ASSUME NEW b \in BlockNames, nets[b] # {}, NEW i \in 1 .. Len(v),
                      NEW n \in 1 .. Len(BlockOf(b, nets[b])) - 1, v[i] = BlockOf(b, nets[b])[n]
               PROVE  i < Len(v) /\ v[i + 1] = BlockOf(b, nets[b])[n + 1]
    BY DEF Unbroken
  <2> DEFINE C == BlockOf(b, nets[b])
  <2>1. nets[b] \in SUBSET Routes
    BY DEF Meaning
  <2>2. Len(C) \in Nat /\ \A k \in 1 .. Len(C) : ~Own(C[k])
    BY <2>1, BlockFacts
  <2>3. ~Own(C[n]) /\ ~Own(C[n + 1])
    BY <2>2
  <2>4. i # f /\ v[i] = t[i] /\ i \in 1 .. Len(t)
    BY <1>1, <1>2, <2>3
  <2>5. i < Len(t) /\ t[i + 1] = C[n + 1]
    BY <2>4 DEF Whole, Unbroken
  <2>6. i + 1 # f /\ i + 1 \in 1 .. Len(t)
    BY <1>0, <1>2, <2>3, <2>4, <2>5
  <2> QED  BY <1>1, <2>5, <2>6
<1>11. MeshLast(v, nets)
  <2>1. Mesh \in BlockNames
    BY DEF BlockNames
  <2> QED  BY <1>0, <1>1, <1>2, <2>1 DEF Whole, MeshLast
<1> QED
  BY <1>1, <1>5, <1>7, <1>8, <1>9, <1>10, <1>11 DEF Whole, v

(***************************************************************************)
(* CcdFile: what the writers make of a text, as taking out and putting in  *)
(***************************************************************************)
LEMMA PutNothing ==
  ASSUME NEW S, NEW u \in Seq(S), NEW p \in 0 .. Len(u)
  PROVE  PutIn(u, p, <<>>) = u
<1> DEFINE x == SubSeq(u, 1, p)
           y == SubSeq(u, p + 1, Len(u))
<1>1. Len(u) \in Nat /\ p \in Nat /\ p <= Len(u)
  OBVIOUS
<1>2. x \in Seq(S) /\ Len(x) = p /\ \A i \in 1 .. p : x[i] = u[i]
  BY <1>1
<1>3. y \in Seq(S) /\ Len(y) = Len(u) - p /\ \A i \in 1 .. Len(u) - p : y[i] = u[p + i]
  BY <1>1
<1>4. PutIn(u, p, <<>>) = x \o y
  <2>1. x \o <<>> = x
    BY <1>2
  <2>2. PutIn(u, p, <<>>) = (x \o <<>>) \o y
    BY DEF PutIn
  <2> QED  BY <2>1, <2>2
<1> HIDE DEF x, y
<1> DEFINE w == x \o y
<1>5. /\ w \in Seq(S) /\ Len(w) = Len(u)
      /\ \A i \in 1 .. p : w[i] = x[i]
      /\ \A i \in 1 .. Len(u) - p : w[p + i] = y[i]
  BY <1>1, <1>2, <1>3
<1> HIDE DEF w
<1>6. ASSUME NEW i \in 1 .. Len(u) PROVE w[i] = u[i]
  <2>1. CASE i <= p
    BY <1>1, <1>2, <1>5, <2>1
  <2>2. CASE i > p
    <3>1. i - p \in 1 .. Len(u) - p /\ p + (i - p) = i
      BY <1>1, <2>2
    <3>2. w[p + (i - p)] = y[i - p] /\ y[i - p] = u[p + (i - p)]
      BY <1>3, <1>5, <3>1
    <3> QED  BY <3>1, <3>2
  <2>3. i <= p \/ i > p
    BY <1>1
  <2> QED  BY <2>1, <2>2, <2>3
<1>7. w = u
  BY <1>1, <1>5, <1>6
<1> QED  BY <1>4, <1>7 DEF w

LEMMA PutAtEnd ==
  ASSUME NEW S, NEW u \in Seq(S), NEW B \in Seq(S)
  PROVE  PutIn(u, Len(u), B) = u \o B /\ Len(u) \in 0 .. Len(u)
<1>1. Len(u) \in Nat /\ SubSeq(u, 1, Len(u)) = u
  OBVIOUS
<1>2. SubSeq(u, Len(u) + 1, Len(u)) = <<>>
  <2>1. SubSeq(u, Len(u) + 1, Len(u)) \in Seq(S) /\ Len(SubSeq(u, Len(u) + 1, Len(u))) = 0
    BY <1>1
  <2> QED  BY <2>1
<1>3. u \o B \in Seq(S) /\ (u \o B) \o <<>> = u \o B
  OBVIOUS
<1>4. PutIn(u, Len(u), B) = (SubSeq(u, 1, Len(u)) \o B) \o SubSeq(u, Len(u) + 1, Len(u))
  BY DEF PutIn
<1>5. PutIn(u, Len(u), B) = u \o B
  BY <1>1, <1>2, <1>3, <1>4
<1> QED  BY <1>1, <1>5

LEMMA PutInFront ==
  ASSUME NEW S, NEW u \in Seq(S), NEW B \in Seq(S)
  PROVE  PutIn(u, 0, B) = B \o u /\ 0 \in 0 .. Len(u)
<1>1. Len(u) \in Nat /\ SubSeq(u, 1, 0) = <<>> /\ SubSeq(u, 1, Len(u)) = u
  OBVIOUS
<1>2. <<>> \o B = B
  OBVIOUS
<1> QED  BY <1>1, <1>2 DEF PutIn

LEMMA AnyBlock ==
  ASSUME NEW b \in BlockNames, NEW routes \in SUBSET Routes
  PROVE  BlockOf(b, routes) \in Seq(Lines) /\ \A n \in 1 .. Len(BlockOf(b, routes)) : ~Own(BlockOf(b, routes)[n])
<1>1. CASE routes = {}
  <2>1. BlockOf(b, routes) = <<>>
    BY <1>1, NoBlock
  <2> QED  BY <2>1
<1>2. CASE routes # {}
  BY <1>2, BlockFacts
<1> QED  BY <1>1, <1>2

LEMMA WithoutIs ==
  ASSUME NEW t \in Seq(Lines), NEW b
  PROVE  /\ Without(t, b) = Subsequence(t, (1 .. Len(t)) \ Skipped(t, b))
         /\ Without(t, b) \in Seq(Lines)
<1>1. DOMAIN t = 1 .. Len(t)
  OBVIOUS
<1>2. Without(t, b) = Subsequence(t, (1 .. Len(t)) \ Skipped(t, b))
  BY <1>1 DEF Without
<1>3. (1 .. Len(t)) \ Skipped(t, b) \in SUBSET DOMAIN t
  BY <1>1
<1> QED  BY <1>2, <1>3, SubsequenceIs

\* Where merge_peer_block_into_ccd puts the block.
LEMMA MergedIs ==
  ASSUME NEW t \in Seq(Lines), NEW b \in Sites, NEW routes \in SUBSET Routes
  PROVE  \E p \in 0 .. Len(Without(t, b)) :
           /\ Merged(t, b, routes) = PutIn(Without(t, b), p, BlockOf(b, routes))
           /\ p # Len(Without(t, b)) => Without(t, b)[p + 1] = Opening(Mesh)
           /\ p = Len(Without(t, b)) =>
                \A i \in 1 .. Len(Without(t, b)) : Without(t, b)[i] # Opening(Mesh)
<1> DEFINE base == Without(t, b)
           B == BlockOf(b, routes)
           mesh == {i \in DOMAIN base : base[i] = Opening(Mesh)}
           m == CHOOSE i \in mesh : \A j \in mesh : i <= j
<1>1. base \in Seq(Lines) /\ B \in Seq(Lines)
  BY WithoutIs, AnyBlock DEF BlockNames
<1>2. Merged(t, b, routes) = IF mesh = {} THEN base \o B
                             ELSE SubSeq(base, 1, m - 1) \o B \o SubSeq(base, m, Len(base))
  BY DEF Merged
<1> HIDE DEF base, B
<1>3. DOMAIN base = 1 .. Len(base) /\ Len(base) \in Nat
  BY <1>1
<1>4. CASE mesh = {}
  <2>1. Merged(t, b, routes) = PutIn(base, Len(base), B) /\ Len(base) \in 0 .. Len(base)
    BY <1>1, <1>2, <1>4, PutAtEnd
  <2>2. \A i \in 1 .. Len(base) : base[i] # Opening(Mesh)
    BY <1>3, <1>4
  <2> QED  BY <2>1, <2>2 DEF base, B
<1>5. CASE mesh # {}
  <2>1. mesh \in SUBSET Nat
    BY <1>3
  <2>2. \E i \in mesh : \A j \in mesh : i <= j
    BY <1>5, <2>1, Least
  <2>3. m \in mesh
    BY <2>2
  <2> HIDE DEF m
  <2>4. m \in 1 .. Len(base) /\ base[m] = Opening(Mesh)
    BY <1>3, <2>3
  <2>5. m - 1 \in 0 .. Len(base) /\ m - 1 + 1 = m /\ m - 1 # Len(base)
    BY <1>3, <2>4
  <2>6. Merged(t, b, routes) = PutIn(base, m - 1, B)
    BY <1>2, <1>5, <2>5 DEF PutIn
  <2> QED  BY <2>4, <2>5, <2>6 DEF base, B
<1> QED  BY <1>4, <1>5

LEMMA RewrittenIs ==
  ASSUME NEW t \in Seq(Lines), NEW routes \in SUBSET Routes
  PROVE  /\ Rewritten(t, routes) = PutIn(Without(t, Mesh), Len(Without(t, Mesh)), BlockOf(Mesh, routes))
         /\ Len(Without(t, Mesh)) \in 0 .. Len(Without(t, Mesh))
<1>1. Without(t, Mesh) \in Seq(Lines) /\ BlockOf(Mesh, routes) \in Seq(Lines)
  BY WithoutIs, AnyBlock DEF BlockNames
<1> QED  BY <1>1, PutAtEnd DEF Rewritten

Enabled(t) == Subsequence(t, {i \in 1 .. Len(t) : t[i] # Disable})

LEMMA LineSwitchedIs ==
  ASSUME NEW t \in Seq(Lines)
  PROVE  /\ Enabled(t) \in Seq(Lines)
         /\ LineSwitched(t, FALSE) = Enabled(t)
         /\ LineSwitched(t, TRUE) = PutIn(Enabled(t), 0, <<Disable>>)
         /\ 0 \in 0 .. Len(Enabled(t))
<1>1. DOMAIN t = 1 .. Len(t) /\ {i \in 1 .. Len(t) : t[i] # Disable} \in SUBSET DOMAIN t
  OBVIOUS
<1>2. Enabled(t) \in Seq(Lines)
  BY <1>1, SubsequenceIs DEF Enabled
<1>3. \A off : LineSwitched(t, off) = (IF off THEN <<Disable>> ELSE <<>>) \o Enabled(t)
  BY <1>1 DEF LineSwitched, Enabled
<1>4. LineSwitched(t, FALSE) = <<>> \o Enabled(t) /\ LineSwitched(t, TRUE) = <<Disable>> \o Enabled(t)
  BY <1>3
<1>5. <<>> \o Enabled(t) = Enabled(t) /\ <<Disable>> \in Seq(Lines)
  BY <1>2, LineFacts
<1> QED  BY <1>2, <1>4, <1>5, PutInFront

LEMMA ReaddressedIs ==
  ASSUME NEW t \in Seq(Lines), NEW a \in Addresses
  PROVE  LET old == {i \in 1 .. Len(t) : t[i].kind = "address"}
             p == IF Len(t) > 0 /\ t[1] = Disable THEN 1 ELSE 0
         IN  /\ old = {} => Readdressed(t, a) = PutIn(t, p, <<Address(a)>>)
             /\ old # {} => \E f \in old :
                  Readdressed(t, a) = Subsequence([t EXCEPT ![f] = Address(a)],
                                                  ((1 .. Len(t)) \ old) \cup {f})
<1> DEFINE old == {i \in 1 .. Len(t) : t[i].kind = "address"}
           p == IF Len(t) > 0 /\ t[1] = Disable THEN 1 ELSE 0
           first == CHOOSE i \in old : \A j \in old : i <= j
<1>1. DOMAIN t = 1 .. Len(t) /\ Len(t) \in Nat /\ (t # <<>> <=> Len(t) > 0)
  OBVIOUS
<1>2. Readdressed(t, a) = IF old # {}
        THEN Subsequence([t EXCEPT ![first] = Address(a)], ((1 .. Len(t)) \ old) \cup {first})
        ELSE InsertAt(t, IF t # <<>> /\ t[1] = Disable THEN 2 ELSE 1, Address(a))
  BY <1>1 DEF Readdressed
<1>3. ASSUME old = {} PROVE Readdressed(t, a) = PutIn(t, p, <<Address(a)>>)
  <2> DEFINE q == IF t # <<>> /\ t[1] = Disable THEN 2 ELSE 1
  <2>1. q - 1 = p /\ q = p + 1
    BY <1>1
  <2>2. Readdressed(t, a) = InsertAt(t, q, Address(a))
    BY <1>2, <1>3
  <2> HIDE DEF p, q
  <2>3. InsertAt(t, q, Address(a)) = PutIn(t, p, <<Address(a)>>)
    BY <2>1 DEF InsertAt, PutIn
  <2> QED  BY <2>2, <2>3
<1>4. ASSUME old # {}
      PROVE  \E f \in old : Readdressed(t, a) = Subsequence([t EXCEPT ![f] = Address(a)],
                                                          ((1 .. Len(t)) \ old) \cup {f})
  <2>1. old \in SUBSET Nat
    OBVIOUS
  <2>2. \E i \in old : \A j \in old : i <= j
    BY <1>4, <2>1, Least
  <2>3. first \in old
    BY <2>2
  <2> HIDE DEF old, first
  <2> QED  BY <1>2, <1>4, <2>3
<1> QED  BY <1>3, <1>4

(***************************************************************************)
(* CcdFile: the user's own lines stay in front, whatever a text has become *)
(***************************************************************************)
LEMMA SubOwn ==
  ASSUME NEW t \in Seq(Lines), OwnFirst(t), NEW I \in SUBSET (1 .. Len(t))
  PROVE  Subsequence(t, I) \in Seq(Lines) /\ OwnFirst(Subsequence(t, I))
<1> DEFINE u == Subsequence(t, I)
<1>0. Len(t) \in Nat /\ I \in SUBSET DOMAIN t
  OBVIOUS
<1>1. /\ u \in Seq(Lines) /\ Len(u) \in Nat /\ Len(u) = Cardinality(I)
      /\ \A i \in I : PlaceIn(I, i) \in 1 .. Len(u) /\ u[PlaceIn(I, i)] = t[i]
      /\ \A k \in 1 .. Len(u) : \E i \in I : PlaceIn(I, i) = k
      /\ \A i, j \in I : i < j => PlaceIn(I, i) < PlaceIn(I, j)
  BY <1>0, SubsequenceIs
<1> HIDE DEF u
<1>2. \A k \in 1 .. Len(u) : \E i \in I : PlaceIn(I, i) = k /\ u[k] = t[i] /\ i \in 1 .. Len(t)
  BY <1>1
<1>3. OwnFirst(u)
  <2> SUFFICES ASSUME NEW k \in 1 .. Len(u), NEW m \in 1 .. Len(u), k < m, Own(u[m])
               PROVE  Own(u[k])
    BY DEF OwnFirst
  <2>1. PICK i \in I : PlaceIn(I, i) = k /\ u[k] = t[i] /\ i \in 1 .. Len(t)
    BY <1>2
  <2>2. PICK j \in I : PlaceIn(I, j) = m /\ u[m] = t[j] /\ j \in 1 .. Len(t)
    BY <1>2
  <2>3. i < j
    BY <1>0, <1>1, <2>1, <2>2
  <2> QED  BY <2>1, <2>2, <2>3 DEF OwnFirst
<1> QED  BY <1>1, <1>3 DEF u

\* Lines go where nothing of the user's own comes behind them, or are the user's own
\* and go to the front.
LEMMA PutOwn ==
  ASSUME NEW u \in Seq(Lines), OwnFirst(u), NEW B \in Seq(Lines), NEW p \in 0 .. Len(u),
         \/ /\ \A n \in 1 .. Len(B) : ~Own(B[n])
            /\ p # Len(u) => ~Own(u[p + 1])
         \/ /\ \A n \in 1 .. Len(B) : Own(B[n])
            /\ \A i \in 1 .. p : Own(u[i])
  PROVE  PutIn(u, p, B) \in Seq(Lines) /\ OwnFirst(PutIn(u, p, B))
<1> DEFINE v == PutIn(u, p, B)
           L == Len(B)
<1>1. /\ v \in Seq(Lines) /\ Len(v) = Len(u) + Len(B)
      /\ Len(u) \in Nat /\ Len(B) \in Nat
      /\ \A i \in 1 .. p : i \in 1 .. Len(u) /\ v[i] = u[i]
      /\ \A k \in 1 .. Len(B) : v[p + k] = B[k]
      /\ \A i \in p + 1 .. Len(u) : i \in 1 .. Len(u) /\ v[i + Len(B)] = u[i]
      /\ \A i \in 1 .. Len(v) : \/ i \in 1 .. p
                                \/ i - p \in 1 .. Len(B) /\ i > p /\ p + (i - p) = i
                                \/ /\ i - Len(B) \in p + 1 .. Len(u)
                                   /\ i > p + Len(B) /\ i - Len(B) + Len(B) = i
  <2>1. B \in Seq(Lines)
    OBVIOUS
  <2> QED  BY <2>1, PutIs
<1> HIDE DEF v
<1>2. L \in Nat /\ p \in Nat
  BY <1>1
<1>3. \A i \in 1 .. Len(v) :
        \/ i \in 1 .. p /\ i \in 1 .. Len(u) /\ v[i] = u[i]
        \/ i > p /\ i - p \in 1 .. L /\ v[i] = B[i - p]
        \/ /\ i > p + L /\ i - L \in p + 1 .. Len(u) /\ i - L \in 1 .. Len(u) /\ v[i] = u[i - L]
  <2> SUFFICES ASSUME NEW i \in 1 .. Len(v)
               PROVE  \/ i \in 1 .. p /\ i \in 1 .. Len(u) /\ v[i] = u[i]
                      \/ i > p /\ i - p \in 1 .. L /\ v[i] = B[i - p]
                      \/ /\ i > p + L /\ i - L \in p + 1 .. Len(u) /\ i - L \in 1 .. Len(u)
                         /\ v[i] = u[i - L]
    OBVIOUS
  <2>1. CASE i \in 1 .. p
    BY <1>1, <2>1
  <2>2. CASE i - p \in 1 .. L /\ i > p /\ p + (i - p) = i
    <3>1. v[p + (i - p)] = B[i - p]
      BY <1>1, <2>2
    <3> QED  BY <2>2, <3>1
  <2>3. CASE i - L \in p + 1 .. Len(u) /\ i > p + L /\ i - L + L = i
    <3>1. i - L \in 1 .. Len(u) /\ v[i - L + L] = u[i - L]
      BY <1>1, <2>3
    <3> QED  BY <2>3, <3>1
  <2> QED  BY <1>1, <2>1, <2>2, <2>3
<1>4. OwnFirst(v)
  <2> SUFFICES ASSUME NEW i \in 1 .. Len(v), NEW j \in 1 .. Len(v), i < j, Own(v[j])
               PROVE  Own(v[i])
    BY DEF OwnFirst
  <2> HIDE DEF L
  <2>1. CASE (\A n \in 1 .. L : ~Own(B[n])) /\ (p # Len(u) => ~Own(u[p + 1]))
    <3>1. \A k \in p + 1 .. Len(u) : ~Own(u[k])
      <4> SUFFICES ASSUME NEW k \in p + 1 .. Len(u), Own(u[k]) PROVE FALSE
        OBVIOUS
      <4>1. p # Len(u) /\ p + 1 \in 1 .. Len(u) /\ k \in 1 .. Len(u) /\ (k = p + 1 \/ p + 1 < k)
        BY <1>1, <1>2
      <4> QED  BY <2>1, <4>1 DEF OwnFirst
    <3>2. j \in 1 .. p /\ j \in 1 .. Len(u) /\ v[j] = u[j]
      BY <1>3, <2>1, <3>1
    <3>3. i \in 1 .. p
      BY <1>2, <3>2
    <3>4. i \in 1 .. Len(u) /\ v[i] = u[i]
      BY <1>1, <3>3
    <3> QED  BY <3>2, <3>4 DEF OwnFirst
  <2>2. CASE (\A n \in 1 .. L : Own(B[n])) /\ (\A k \in 1 .. p : Own(u[k]))
    <3>1. CASE i > p + L /\ i - L \in 1 .. Len(u) /\ v[i] = u[i - L]
      <4>1. j > p + L
        BY <1>1, <1>2, <3>1
      <4>2. ~(j \in 1 .. p) /\ ~(j - p \in 1 .. L)
        BY <1>1, <1>2, <4>1
      <4>3. j - L \in 1 .. Len(u) /\ v[j] = u[j - L]
        BY <1>3, <4>2
      <4>4. i - L < j - L
        BY <1>1, <1>2
      <4> QED  BY <3>1, <4>3, <4>4 DEF OwnFirst
    <3> QED  BY <1>3, <2>2, <3>1
  <2> QED  BY <2>1, <2>2 DEF L
<1> QED  BY <1>1, <1>4 DEF v

LEMMA WritersKeepOwn ==
  ASSUME NEW t \in Seq(Lines), OwnFirst(t)
  PROVE  /\ \A b \in Sites, routes \in SUBSET Routes :
              Merged(t, b, routes) \in Seq(Lines) /\ OwnFirst(Merged(t, b, routes))
         /\ \A routes \in SUBSET Routes :
              Rewritten(t, routes) \in Seq(Lines) /\ OwnFirst(Rewritten(t, routes))
         /\ \A off \in BOOLEAN : LineSwitched(t, off) \in Seq(Lines) /\ OwnFirst(LineSwitched(t, off))
         /\ \A a \in Addresses : Readdressed(t, a) \in Seq(Lines) /\ OwnFirst(Readdressed(t, a))
<1>0. DOMAIN t = 1 .. Len(t) /\ Len(t) \in Nat
  OBVIOUS
<1>1. \A b : Without(t, b) \in Seq(Lines) /\ OwnFirst(Without(t, b))
  BY WithoutIs, SubOwn
<1>2. ASSUME NEW b \in Sites, NEW routes \in SUBSET Routes
      PROVE  Merged(t, b, routes) \in Seq(Lines) /\ OwnFirst(Merged(t, b, routes))
  <2> DEFINE base == Without(t, b)
             B == BlockOf(b, routes)
  <2>1. base \in Seq(Lines) /\ OwnFirst(base)
    BY <1>1
  <2>2. B \in Seq(Lines) /\ \A n \in 1 .. Len(B) : ~Own(B[n])
    BY AnyBlock DEF BlockNames
  <2>3. PICK p \in 0 .. Len(base) : /\ Merged(t, b, routes) = PutIn(base, p, B)
                                    /\ p # Len(base) => base[p + 1] = Opening(Mesh)
    BY MergedIs
  <2>4. p # Len(base) => ~Own(base[p + 1])
    BY <2>3, LineFacts DEF BlockNames
  <2> HIDE DEF base, B
  <2> QED  BY <2>1, <2>2, <2>3, <2>4, PutOwn
<1>3. ASSUME NEW routes \in SUBSET Routes
      PROVE  Rewritten(t, routes) \in Seq(Lines) /\ OwnFirst(Rewritten(t, routes))
  <2> DEFINE base == Without(t, Mesh)
             B == BlockOf(Mesh, routes)
  <2>1. base \in Seq(Lines) /\ OwnFirst(base)
    BY <1>1
  <2>2. B \in Seq(Lines) /\ \A n \in 1 .. Len(B) : ~Own(B[n])
    BY AnyBlock DEF BlockNames
  <2>3. Rewritten(t, routes) = PutIn(base, Len(base), B) /\ Len(base) \in 0 .. Len(base)
    BY RewrittenIs
  <2> HIDE DEF base, B
  <2> QED  BY <2>1, <2>2, <2>3, PutOwn
<1>4. ASSUME NEW off \in BOOLEAN
      PROVE  LineSwitched(t, off) \in Seq(Lines) /\ OwnFirst(LineSwitched(t, off))
  <2> DEFINE D == <<Disable>>
             u == Enabled(t)
  <2>1. u \in Seq(Lines) /\ OwnFirst(u)
    BY SubOwn DEF Enabled
  <2>2. D \in Seq(Lines) /\ \A n \in 1 .. Len(D) : Own(D[n])
    BY LineFacts
  <2>3. LineSwitched(t, FALSE) = u /\ LineSwitched(t, TRUE) = PutIn(u, 0, D) /\ 0 \in 0 .. Len(u)
    BY LineSwitchedIs
  <2> HIDE DEF D, u
  <2>4. PutIn(u, 0, D) \in Seq(Lines) /\ OwnFirst(PutIn(u, 0, D))
    <3>1. \A i \in 1 .. 0 : Own(u[i])
      OBVIOUS
    <3> QED  BY <2>1, <2>2, <2>3, <3>1, PutOwn
  <2> QED  BY <2>1, <2>3, <2>4
<1>5. ASSUME NEW a \in Addresses
      PROVE  Readdressed(t, a) \in Seq(Lines) /\ OwnFirst(Readdressed(t, a))
  <2> DEFINE A == <<Address(a)>>
             old == {i \in 1 .. Len(t) : t[i].kind = "address"}
             p == IF Len(t) > 0 /\ t[1] = Disable THEN 1 ELSE 0
  <2>1. A \in Seq(Lines) /\ \A n \in 1 .. Len(A) : Own(A[n])
    BY LineFacts
  <2>2. p \in 0 .. Len(t) /\ \A i \in 1 .. p : Own(t[i])
    BY <1>0, LineFacts
  <2>3. /\ old = {} => Readdressed(t, a) = PutIn(t, p, A)
        /\ old # {} => \E f \in old : Readdressed(t, a) =
             Subsequence([t EXCEPT ![f] = Address(a)], ((1 .. Len(t)) \ old) \cup {f})
    BY ReaddressedIs
  <2>4. CASE old = {}
    <3> HIDE DEF A, old, p
    <3> QED  BY <2>1, <2>2, <2>3, <2>4, PutOwn
  <2>5. CASE old # {}
    <3>1. PICK f \in old : Readdressed(t, a) =
             Subsequence([t EXCEPT ![f] = Address(a)], ((1 .. Len(t)) \ old) \cup {f})
      BY <2>3, <2>5
    <3> DEFINE v == [t EXCEPT ![f] = Address(a)]
               I == ((1 .. Len(t)) \ old) \cup {f}
    <3>2. f \in 1 .. Len(t) /\ Own(t[f]) /\ Own(Address(a)) /\ Address(a) \in Lines
      BY LineFacts DEF Own
    <3>3. v \in Seq(Lines) /\ Len(v) = Len(t)
          /\ v[f] = Address(a) /\ \A i \in 1 .. Len(t) : i # f => v[i] = t[i]
      BY <1>0, <3>2
    <3>4. I \in SUBSET (1 .. Len(t)) /\ Readdressed(t, a) = Subsequence(v, I)
      BY <3>1, <3>2
    <3> HIDE DEF v, I
    <3>5. \A i \in 1 .. Len(t) : Own(v[i]) <=> Own(t[i])
      BY <3>2, <3>3
    <3>6. OwnFirst(v)
      BY <3>3, <3>5 DEF OwnFirst
    <3> QED  BY <3>3, <3>4, <3>6, SubOwn
  <2> QED  BY <2>4, <2>5
<1> QED  BY <1>2, <1>3, <1>4, <1>5

(***************************************************************************)
(* CcdFile: a whole file is whole again, with the writer's part as it is   *)
(* meant now                                                               *)
(***************************************************************************)
LEMMA WithoutWhole ==
  ASSUME NEW t \in Seq(Lines), NEW off, NEW ats, NEW nets, Meaning(off, ats, nets),
         Whole(t, off, ats, nets), NEW b \in BlockNames
  PROVE  /\ Without(t, b) \in Seq(Lines)
         /\ Meaning(off, ats, [nets EXCEPT ![b] = {}])
         /\ Whole(Without(t, b), off, ats, [nets EXCEPT ![b] = {}])
<1> DEFINE N == [nets EXCEPT ![b] = {}]
           I == (1 .. Len(t)) \ Skipped(t, b)
<1>1. N[b] = {} /\ \A c \in BlockNames \ {b} : N[c] = nets[c]
  BY DEF Meaning
<1>2. Meaning(off, ats, N)
  BY DEF Meaning
<1>3. \A c \in BlockNames : N[c] # {} => N[c] = nets[c]
  BY <1>1
<1> HIDE DEF N
<1>4. ASSUME NEW i \in 1 .. Len(t) PROVE i \in I <=> Meant(t[i], off, ats, N)
  <2>1. Meant(t[i], off, ats, nets)
    BY DEF Whole, Exactly
  <2>2. i \in I <=> ~InBlock(t[i], b, nets[b])
    BY SkippedIs
  <2>3. ASSUME InBlock(t[i], b, nets[b]) PROVE ~Meant(t[i], off, ats, N)
    <3> SUFFICES ASSUME Meant(t[i], off, ats, N) PROVE FALSE
      OBVIOUS
    <3>1. nets[b] \in SUBSET Routes
      BY DEF Meaning
    <3>2. ~Own(t[i]) /\ t[i].of = b
      BY <2>3, <3>1, InBlockFacts
    <3>3. InBlock(t[i], b, N[b])
      BY <1>2, <3>2, MeantFacts
    <3> QED  BY <1>1, <3>3 DEF InBlock
  <2>4. ASSUME ~InBlock(t[i], b, nets[b]) PROVE Meant(t[i], off, ats, N)
    <3>1. \A c \in BlockNames : InBlock(t[i], c, nets[c]) => InBlock(t[i], c, N[c])
      BY <1>1, <2>4
    <3> QED  BY <2>1, <3>1 DEF Meant
  <2> QED  BY <2>2, <2>3, <2>4
<1>5. Without(t, b) = Subsequence(t, I) /\ I \in SUBSET (1 .. Len(t))
  BY WithoutIs
<1> HIDE DEF I
<1>6. Subsequence(t, I) \in Seq(Lines) /\ Whole(Subsequence(t, I), off, ats, N)
  BY <1>2, <1>3, <1>4, <1>5, TakenOut
<1> QED  BY <1>2, <1>5, <1>6 DEF N

LEMMA MergedWhole ==
  ASSUME NEW t \in Seq(Lines), NEW off, NEW ats, NEW nets, Meaning(off, ats, nets),
         Whole(t, off, ats, nets), NEW b \in Sites, NEW routes \in SUBSET Routes
  PROVE  Whole(Merged(t, b, routes), off, ats, [nets EXCEPT ![b] = routes])
<1> DEFINE base == Without(t, b)
           B == BlockOf(b, routes)
           N == [nets EXCEPT ![b] = {}]
<1>0. b \in BlockNames /\ b # Mesh /\ Mesh \in BlockNames
  BY CcdAssumption DEF BlockNames
<1>1. base \in Seq(Lines) /\ Meaning(off, ats, N) /\ Whole(base, off, ats, N)
  BY <1>0, WithoutWhole
<1>2. N[b] = {} /\ [N EXCEPT ![b] = routes] = [nets EXCEPT ![b] = routes]
  BY <1>0 DEF Meaning
<1>3. PICK p \in 0 .. Len(base) :
        /\ Merged(t, b, routes) = PutIn(base, p, B)
        /\ p # Len(base) => base[p + 1] = Opening(Mesh)
        /\ p = Len(base) => \A i \in 1 .. Len(base) : base[i] # Opening(Mesh)
  BY MergedIs
<1> HIDE DEF base, N
<1>4. CASE routes = {}
  <2>1. B = <<>>
    BY <1>0, <1>4, NoBlock
  <2>2. Merged(t, b, routes) = base
    BY <1>1, <1>3, <2>1, PutNothing
  <2>3. [nets EXCEPT ![b] = routes] = N
    BY <1>4 DEF N
  <2> QED  BY <1>1, <2>2, <2>3
<1>5. CASE routes # {}
  <2>1. ASSUME p = Len(base) PROVE N[Mesh] = {}
    <3> SUFFICES ASSUME N[Mesh] # {} PROVE FALSE
      OBVIOUS
    <3>1. N[Mesh] \in SUBSET Routes
      BY <1>0, <1>1 DEF Meaning
    <3>2. InBlock(Opening(Mesh), Mesh, N[Mesh])
      BY <1>0, <3>1, BlockFacts DEF InBlock
    <3>3. Meant(Opening(Mesh), off, ats, N) /\ Opening(Mesh) \in Lines
      BY <1>0, <3>2, LineFacts DEF Meant
    <3>4. \E i \in 1 .. Len(base) : base[i] = Opening(Mesh)
      BY <1>1, <3>3 DEF Whole, Exactly
    <3> QED  BY <1>3, <2>1, <3>4
  <2>2. Whole(PutIn(base, p, B), off, ats, [N EXCEPT ![b] = routes])
    BY <1>0, <1>1, <1>2, <1>3, <1>5, <2>1, BlockPutIn
  <2> QED  BY <1>2, <1>3, <2>2
<1> QED  BY <1>4, <1>5

LEMMA RewrittenWhole ==
  ASSUME NEW t \in Seq(Lines), NEW off, NEW ats, NEW nets, Meaning(off, ats, nets),
         Whole(t, off, ats, nets), NEW routes \in SUBSET Routes
  PROVE  Whole(Rewritten(t, routes), off, ats, [nets EXCEPT ![Mesh] = routes])
<1> DEFINE base == Without(t, Mesh)
           B == BlockOf(Mesh, routes)
           N == [nets EXCEPT ![Mesh] = {}]
<1>0. Mesh \in BlockNames
  BY DEF BlockNames
<1>1. base \in Seq(Lines) /\ Meaning(off, ats, N) /\ Whole(base, off, ats, N)
  BY <1>0, WithoutWhole
<1>2. N[Mesh] = {} /\ [N EXCEPT ![Mesh] = routes] = [nets EXCEPT ![Mesh] = routes]
  BY <1>0 DEF Meaning
<1>3. Rewritten(t, routes) = PutIn(base, Len(base), B) /\ Len(base) \in 0 .. Len(base)
  BY RewrittenIs
<1> HIDE DEF base, N
<1>4. CASE routes = {}
  <2>1. B = <<>>
    BY <1>0, <1>4, NoBlock
  <2>2. Rewritten(t, routes) = base
    BY <1>1, <1>3, <2>1, PutNothing
  <2>3. [nets EXCEPT ![Mesh] = routes] = N
    BY <1>4 DEF N
  <2> QED  BY <1>1, <2>2, <2>3
<1>5. CASE routes # {}
  <2>1. Whole(PutIn(base, Len(base), B), off, ats, [N EXCEPT ![Mesh] = routes])
    BY <1>0, <1>1, <1>2, <1>3, <1>5, BlockPutIn
  <2> QED  BY <1>2, <1>3, <2>1
<1> QED  BY <1>4, <1>5

LEMMA SwitchedWhole ==
  ASSUME NEW t \in Seq(Lines), NEW off, NEW ats, NEW nets, Meaning(off, ats, nets),
         Whole(t, off, ats, nets), NEW offN \in BOOLEAN
  PROVE  Whole(LineSwitched(t, offN), offN, ats, nets)
<1> DEFINE I == {i \in 1 .. Len(t) : t[i] # Disable}
           u == Enabled(t)
<1>1. Meaning(FALSE, ats, nets) /\ Meaning(TRUE, ats, nets)
  BY DEF Meaning
<1>2. ASSUME NEW i \in 1 .. Len(t) PROVE i \in I <=> Meant(t[i], FALSE, ats, nets)
  <2>1. Meant(t[i], off, ats, nets)
    BY DEF Whole, Exactly
  <2>2. ASSUME t[i] = Disable, Meant(t[i], FALSE, ats, nets) PROVE FALSE
    <3>1. Own(t[i])
      BY <2>2, LineFacts
    <3>2. Meant(t[i], FALSE, ats, nets)
      BY <2>2
    <3>3. \E a \in ats : t[i] = Address(a)
      <4>1. \A b \in BlockNames : ~InBlock(t[i], b, nets[b])
        BY <3>1, InBlockFacts DEF Meaning
      <4> QED  BY <3>2, <4>1 DEF Meant
    <3>4. PICK a \in ats : t[i] = Address(a)
      BY <3>3
    <3>5. a \in Addresses
      BY DEF Meaning
    <3> QED  BY <2>2, <3>4, <3>5, LineFacts
  <2> QED  BY <2>1, <2>2 DEF Meant
<1>3. I \in SUBSET (1 .. Len(t)) /\ u = Subsequence(t, I)
  BY DEF Enabled
<1> HIDE DEF I, u
<1>4. u \in Seq(Lines) /\ Whole(u, FALSE, ats, nets)
  BY <1>1, <1>2, <1>3, TakenOut
<1>5. LineSwitched(t, FALSE) = u /\ LineSwitched(t, TRUE) = PutIn(u, 0, <<Disable>>)
      /\ 0 \in 0 .. Len(u)
  BY LineSwitchedIs DEF u
<1>6. CASE offN = FALSE
  BY <1>4, <1>5, <1>6
<1>7. CASE offN = TRUE
  <2>1. InFront(Disable, 0, FALSE, ats, TRUE, ats)
    BY DEF InFront
  <2>2. Whole(PutIn(u, 0, <<Disable>>), TRUE, ats, nets)
    BY <1>1, <1>4, <1>5, <2>1, OwnPutIn
  <2> QED  BY <1>5, <1>7, <2>2
<1> QED  BY <1>6, <1>7

LEMMA ReaddressedWhole ==
  ASSUME NEW t \in Seq(Lines), NEW off, NEW ats, NEW nets, Meaning(off, ats, nets),
         Whole(t, off, ats, nets), NEW a \in Addresses
  PROVE  Whole(Readdressed(t, a), off, {a}, nets)
<1> DEFINE old == {i \in 1 .. Len(t) : t[i].kind = "address"}
           p == IF Len(t) > 0 /\ t[1] = Disable THEN 1 ELSE 0
<1>0. Len(t) \in Nat /\ DOMAIN t = 1 .. Len(t) /\ \A i \in 1 .. Len(t) : t[i] \in Lines
  OBVIOUS
<1>1. /\ old = {} => Readdressed(t, a) = PutIn(t, p, <<Address(a)>>)
      /\ old # {} => \E f \in old : Readdressed(t, a) =
           Subsequence([t EXCEPT ![f] = Address(a)], ((1 .. Len(t)) \ old) \cup {f})
  BY ReaddressedIs
<1>2. /\ off <=> Len(t) > 0 /\ t[1] = Disable
      /\ \A i \in 1 .. Len(t), c \in Addresses : t[i] = Address(c) => c \in ats
      /\ \A c \in ats : \E i \in 1 .. Len(t) : t[i] = Address(c)
  BY OwnLinesOf
<1>3. \A i \in old : \E c \in ats : t[i] = Address(c)
  <2> SUFFICES ASSUME NEW i \in old PROVE \E c \in ats : t[i] = Address(c)
    OBVIOUS
  <2>1. i \in 1 .. Len(t) /\ t[i] \in Lines /\ t[i].kind = "address"
    BY <1>0
  <2>2. PICK c \in Addresses : t[i] = Address(c)
    BY <2>1, LineFacts
  <2> QED  BY <1>2, <2>1, <2>2
<1>4. CASE old = {}
  <2>1. ats = {}
    <3> SUFFICES ASSUME NEW c \in ats PROVE FALSE
      OBVIOUS
    <3>1. PICK i \in 1 .. Len(t) : t[i] = Address(c)
      BY <1>2
    <3>2. t[i].kind = "address"
      BY <3>1 DEF Address
    <3> QED  BY <1>4, <3>2
  <2>2. Meaning(off, {a}, nets)
    BY DEF Meaning
  <2>3. p \in 0 .. Len(t) /\ p = IF off THEN 1 ELSE 0
    BY <1>0, <1>2
  <2>4. Readdressed(t, a) = PutIn(t, p, <<Address(a)>>)
    BY <1>1, <1>4
  <2> HIDE DEF p
  <2>5. InFront(Address(a), p, off, ats, off, {a})
    BY <2>1, <2>3 DEF InFront
  <2>6. Whole(PutIn(t, p, <<Address(a)>>), off, {a}, nets)
    BY <2>2, <2>3, <2>5, OwnPutIn
  <2> QED  BY <2>4, <2>6
<1>5. CASE old # {}
  <2>1. PICK f \in old : Readdressed(t, a) =
          Subsequence([t EXCEPT ![f] = Address(a)], ((1 .. Len(t)) \ old) \cup {f})
    BY <1>1, <1>5
  <2>2. PICK c \in ats : t[f] = Address(c)
    BY <1>3
  <2>3. \A i \in old : i = f
    <3> SUFFICES ASSUME NEW i \in old PROVE i = f
      OBVIOUS
    <3>1. PICK x \in ats : t[i] = Address(x)
      BY <1>3
    <3>2. x = c
      BY DEF Meaning
    <3> QED  BY <2>2, <3>1, <3>2 DEF Whole, Distinct
  <2>4. ((1 .. Len(t)) \ old) \cup {f} = 1 .. Len(t) /\ f \in 1 .. Len(t)
    BY <2>3
  <2> DEFINE v == [t EXCEPT ![f] = Address(a)]
  <2>5. v \in Seq(Lines) /\ Whole(v, off, {a}, nets)
    BY <2>2, <2>4, OwnReplaced
  <2>6. DOMAIN v = 1 .. Len(t)
    BY <1>0
  <2> HIDE DEF v
  <2>7. Subsequence(v, 1 .. Len(t)) = v
    BY <2>5, <2>6, WholeSubsequence
  <2>8. Readdressed(t, a) = v
    BY <2>1, <2>4, <2>7 DEF v
  <2> QED  BY <2>5, <2>8
<1> QED  BY <1>4, <1>5

\* A new user's file holds the address alone.
LEMMA NewFileWhole ==
  ASSUME NEW a \in Addresses
  PROVE  Whole(<<Address(a)>>, FALSE, {a}, [b \in BlockNames |-> {}])
         /\ <<Address(a)>> \in Seq(Lines)
<1> DEFINE nets == [b \in BlockNames |-> {}]
           t == <<Address(a)>>
<1>1. t \in Seq(Lines) /\ Len(t) = 1 /\ t[1] = Address(a) /\ Address(a) # Disable
  BY LineFacts
<1>2. \A b \in BlockNames : nets[b] = {}
  OBVIOUS
<1>3. Mesh \in BlockNames
  BY DEF BlockNames
<1> HIDE DEF nets, t
<1>4. \A line : Meant(line, FALSE, {a}, nets) <=> line = Address(a)
  BY <1>2 DEF Meant, InBlock
<1>5. Distinct(t) /\ OwnFirst(t) /\ DisableFirst(t)
  BY <1>1 DEF Distinct, OwnFirst, DisableFirst
<1>6. Exactly(t, FALSE, {a}, nets)
  <2>1. \A i \in 1 .. Len(t) : Meant(t[i], FALSE, {a}, nets)
    <3>1. \A i \in 1 .. Len(t) : t[i] = Address(a)
      BY <1>1
    <3> QED  BY <1>4, <3>1
  <2>2. 1 \in 1 .. Len(t)
    BY <1>1
  <2>3. \A line \in Lines : Meant(line, FALSE, {a}, nets) => t[1] = line
    BY <1>1, <1>4
  <2> QED  BY <2>1, <2>2, <2>3 DEF Exactly
<1>7. Unbroken(t, nets) /\ MeshLast(t, nets)
  BY <1>2, <1>3 DEF Unbroken, MeshLast
<1>8. Whole(t, FALSE, {a}, nets)
  BY <1>5, <1>6, <1>7 DEF Whole
<1> QED  BY <1>1, <1>8 DEF nets, t

LEMMA NoFileWhole == Whole(<<>>, FALSE, {}, [b \in BlockNames |-> {}])
<1> DEFINE nets == [b \in BlockNames |-> {}]
           t == <<>>
<1>1. Len(t) = 0 /\ \A b \in BlockNames : nets[b] = {}
  OBVIOUS
<1>2. Mesh \in BlockNames /\ \A i \in 1 .. 0 : FALSE
  BY DEF BlockNames
<1> HIDE DEF nets, t
<1>3. \A line : ~Meant(line, FALSE, {}, nets)
  BY <1>1 DEF Meant, InBlock
<1>4. Whole(t, FALSE, {}, nets)
  BY <1>1, <1>2, <1>3 DEF Whole, Distinct, Exactly, OwnFirst, DisableFirst, Unbroken, MeshLast
<1> QED  BY <1>4 DEF nets, t

(***************************************************************************)
(* CcdFile: the invariant                                                  *)
(***************************************************************************)
CcdInv ==
    /\ text \in Seq(Lines) /\ OwnFirst(text)
    /\ there \in BOOLEAN /\ (~there => text = <<>>)
    /\ torn \in 0 .. MaxTorn
    /\ meant = [off |-> meant.off, at |-> meant.at, to |-> meant.to]
    /\ Meaning(meant.off, meant.at, meant.to)
    /\ torn = 0 => Whole(text, meant.off, meant.at, meant.to)

\* What is on disk after a write: the new text or its beginning.
LEMMA TextWritten ==
  ASSUME CcdInv, NEW new \in Seq(Lines), OwnFirst(new), WriteText(new)
  PROVE  /\ text' \in Seq(Lines) /\ OwnFirst(text') /\ there' = TRUE
         /\ torn' \in 0 .. MaxTorn
         /\ torn' = 0 => torn = 0 /\ text' = new
<1>0. torn \in Nat /\ torn \in 0 .. MaxTorn /\ MaxTorn \in Nat /\ Len(new) \in Nat
  BY CcdAssumption DEF CcdInv
<1>1. there' = TRUE
  BY DEF WriteText
<1>2. CASE text' = new /\ UNCHANGED torn
  BY <1>0, <1>1, <1>2
<1>3. CASE torn < MaxTorn /\ torn' = torn + 1 /\ \E n \in 0 .. Len(new) - 1 : text' = SubSeq(new, 1, n)
  <2>1. PICK n \in 0 .. Len(new) - 1 : text' = SubSeq(new, 1, n)
    BY <1>3
  <2>2. n \in Nat /\ n <= Len(new)
    BY <1>0
  <2> DEFINE u == SubSeq(new, 1, n)
  <2>3. u \in Seq(Lines) /\ Len(u) = n /\ \A i \in 1 .. n : u[i] = new[i]
    BY <2>2
  <2> HIDE DEF u
  <2>4. OwnFirst(u)
    BY <1>0, <2>2, <2>3 DEF OwnFirst
  <2>5. torn' \in 0 .. MaxTorn /\ torn' # 0
    BY <1>0, <1>3
  <2>6. text' = u
    BY <2>1 DEF u
  <2> QED  BY <1>1, <2>3, <2>4, <2>5, <2>6
<1> QED  BY <1>2, <1>3 DEF WriteText

LEMMA WriteKeeps ==
  ASSUME CcdInv, NEW new \in Seq(Lines), OwnFirst(new), WriteText(new),
         NEW off, NEW ats, NEW nets, Meaning(off, ats, nets),
         meant' = [off |-> off, at |-> ats, to |-> nets],
         torn = 0 => Whole(new, off, ats, nets)
  PROVE  CcdInv'
<1>1. /\ text' \in Seq(Lines) /\ OwnFirst(text') /\ there' = TRUE
      /\ torn' \in 0 .. MaxTorn
      /\ torn' = 0 => torn = 0 /\ text' = new
  BY TextWritten
<1>2. meant'.off = off /\ meant'.at = ats /\ meant'.to = nets
  OBVIOUS
<1>3. Meaning(meant'.off, meant'.at, meant'.to)
  BY <1>2
<1>4. torn' = 0 => Whole(text', meant'.off, meant'.at, meant'.to)
  BY <1>1, <1>2
<1>5. meant' = [off |-> meant'.off, at |-> meant'.at, to |-> meant'.to]
  BY <1>2
<1> QED  BY <1>1, <1>3, <1>4, <1>5 DEF CcdInv

LEMMA NoFileInv ==
  ASSUME text = <<>>, there = FALSE, torn = 0,
         meant = [off |-> FALSE, at |-> {}, to |-> [b \in BlockNames |-> {}]]
  PROVE  CcdInv
<1>1. Meaning(FALSE, {}, [b \in BlockNames |-> {}])
  BY DEF Meaning
<1>2. meant.off = FALSE /\ meant.at = {} /\ meant.to = [b \in BlockNames |-> {}]
  OBVIOUS
<1>3. Whole(text, meant.off, meant.at, meant.to)
  BY <1>2, NoFileWhole
<1>4. text \in Seq(Lines) /\ torn \in 0 .. MaxTorn
  BY CcdAssumption
<1>5. OwnFirst(text)
  BY <1>3 DEF Whole
<1> QED  BY <1>1, <1>2, <1>3, <1>4, <1>5 DEF CcdInv

LEMMA CcdInvInit == CcdInit => CcdInv
<1> SUFFICES ASSUME CcdInit PROVE CcdInv
  OBVIOUS
<1> QED  BY NoFileInv DEF CcdInit

LEMMA CcdInvStep == CcdInv /\ [CcdNext]_ccdVars => CcdInv'
<1> SUFFICES ASSUME CcdInv, [CcdNext]_ccdVars PROVE CcdInv'
  OBVIOUS
<1> DEFINE off == meant.off
           ats == meant.at
           nets == meant.to
<1>0. /\ text \in Seq(Lines) /\ OwnFirst(text) /\ Meaning(off, ats, nets)
      /\ meant = [off |-> off, at |-> ats, to |-> nets]
      /\ torn = 0 => Whole(text, off, ats, nets)
  BY DEF CcdInv
<1> HIDE DEF off, ats, nets
<1>1. ASSUME NEW a \in Addresses, Allot(a) PROVE CcdInv'
  <2> DEFINE new == <<Address(a)>>
             empty == [b \in BlockNames |-> {}]
  <2>1. new \in Seq(Lines) /\ Whole(new, FALSE, {a}, empty)
    BY NewFileWhole
  <2>2. Meaning(FALSE, {a}, empty)
    BY DEF Meaning
  <2>3. WriteText(new) /\ meant' = [off |-> FALSE, at |-> {a}, to |-> empty]
    BY <1>1 DEF Allot
  <2> HIDE DEF new, empty
  <2>4. OwnFirst(new)
    BY <2>1 DEF Whole
  <2> QED  BY <2>1, <2>2, <2>3, <2>4, WriteKeeps
<1>2. ASSUME NEW a \in Addresses, MoveAddress(a) PROVE CcdInv'
  <2>1. Readdressed(text, a) \in Seq(Lines) /\ OwnFirst(Readdressed(text, a))
    BY <1>0, WritersKeepOwn
  <2>2. torn = 0 => Whole(Readdressed(text, a), off, {a}, nets)
    BY <1>0, ReaddressedWhole
  <2>3. Meaning(off, {a}, nets)
    BY <1>0 DEF Meaning
  <2>4. WriteText(Readdressed(text, a)) /\ meant' = [meant EXCEPT !.at = {a}]
    BY <1>2 DEF MoveAddress
  <2>5. meant' = [off |-> off, at |-> {a}, to |-> nets]
    BY <1>0, <2>4
  <2> QED  BY <2>1, <2>2, <2>3, <2>4, <2>5, WriteKeeps
<1>3. ASSUME NEW offN \in BOOLEAN, SwitchLine(offN) PROVE CcdInv'
  <2>1. LineSwitched(text, offN) \in Seq(Lines) /\ OwnFirst(LineSwitched(text, offN))
    BY <1>0, WritersKeepOwn
  <2>2. torn = 0 => Whole(LineSwitched(text, offN), offN, ats, nets)
    BY <1>0, SwitchedWhole
  <2>3. Meaning(offN, ats, nets)
    BY <1>0 DEF Meaning
  <2>4. WriteText(LineSwitched(text, offN)) /\ meant' = [meant EXCEPT !.off = offN]
    BY <1>3 DEF SwitchLine
  <2>5. meant' = [off |-> offN, at |-> ats, to |-> nets]
    BY <1>0, <2>4
  <2> QED  BY <2>1, <2>2, <2>3, <2>4, <2>5, WriteKeeps
<1>4. ASSUME NEW routes \in SUBSET Routes, RewriteMesh(routes) PROVE CcdInv'
  <2>1. Rewritten(text, routes) \in Seq(Lines) /\ OwnFirst(Rewritten(text, routes))
    BY <1>0, WritersKeepOwn
  <2> DEFINE N == [nets EXCEPT ![Mesh] = routes]
  <2>2. torn = 0 => Whole(Rewritten(text, routes), off, ats, N)
    BY <1>0, RewrittenWhole
  <2>3. Meaning(off, ats, N)
    BY <1>0 DEF Meaning
  <2>4. WriteText(Rewritten(text, routes)) /\ meant' = [meant EXCEPT !.to[Mesh] = routes]
    BY <1>4 DEF RewriteMesh
  <2>5. meant' = [off |-> off, at |-> ats, to |-> N]
    BY <1>0, <2>4
  <2> HIDE DEF N
  <2> QED  BY <2>1, <2>2, <2>3, <2>4, <2>5, WriteKeeps
<1>5. ASSUME NEW routes \in SUBSET Routes, NEW b \in Sites, MergeBlock(b, routes) PROVE CcdInv'
  <2>1. Merged(text, b, routes) \in Seq(Lines) /\ OwnFirst(Merged(text, b, routes))
    BY <1>0, WritersKeepOwn
  <2> DEFINE N == [nets EXCEPT ![b] = routes]
  <2>2. torn = 0 => Whole(Merged(text, b, routes), off, ats, N)
    BY <1>0, MergedWhole
  <2>3. Meaning(off, ats, N)
    BY <1>0 DEF Meaning
  <2>4. WriteText(Merged(text, b, routes)) /\ meant' = [meant EXCEPT !.to[b] = routes]
    BY <1>5 DEF MergeBlock
  <2>5. meant' = [off |-> off, at |-> ats, to |-> N]
    BY <1>0, <2>4
  <2> HIDE DEF N
  <2> QED  BY <2>1, <2>2, <2>3, <2>4, <2>5, WriteKeeps
<1>6. CASE Unlink
  <2>1. CcdInit'
    BY <1>6 DEF Unlink, CcdInit
  <2>2. (CcdInit => CcdInv)'
    BY CcdInvInit, PTL
  <2> QED  BY <2>1, <2>2
<1>7. CASE UNCHANGED ccdVars
  BY <1>7 DEF ccdVars, CcdInv
<1> QED  BY <1>1, <1>2, <1>3, <1>4, <1>5, <1>6, <1>7 DEF CcdNext

LEMMA CcdInvariant == CcdSpec => []CcdInv
  BY CcdInvInit, CcdInvStep, PTL DEF CcdSpec

\* The file holds lines of the kinds the four writers know, and none when it is not there:
\* the type of CcdFile's state.
THEOREM CcdTyped == CcdSpec => []CcdTypeOK
<1>1. CcdInv => CcdTypeOK
  BY DEF CcdInv, CcdTypeOK
<1> QED  BY <1>1, CcdInvariant, PTL

\* A user's own line is never among the lines the merge of a block leaves out, also when a
\* cut-off write has left a block without its end (peer_instance/ccd_merge.py): own lines
\* stand in front of every begin marker, in every text a writer makes and in every
\* beginning of one.
THEOREM OwnLinesKept == CcdSpec => []OwnLinesSafe
<1>1. CcdInv => OwnLinesSafe
  <2> SUFFICES ASSUME CcdInv, NEW b \in BlockNames, NEW i \in Skipped(text, b), Own(text[i])
               PROVE  FALSE
    BY DEF OwnLinesSafe
  <2>1. text \in Seq(Lines) /\ OwnFirst(text) /\ DOMAIN text = 1 .. Len(text) /\ Len(text) \in Nat
    BY DEF CcdInv
  <2>2. ~Own(Opening(b)) /\ ~Own(Closing(b))
    BY LineFacts
  <2>3. i \in 1 .. Len(text) /\ (text[i] = Closing(b) \/ \E s \in 1 .. i : text[s] = Opening(b))
    BY <2>1 DEF Skipped
  <2>4. PICK s \in 1 .. i : text[s] = Opening(b)
    BY <2>2, <2>3
  <2>5. s # i /\ s \in 1 .. Len(text) /\ s < i
    BY <2>1, <2>2, <2>3, <2>4
  <2>6. Own(text[s])
    BY <2>1, <2>3, <2>5 DEF OwnFirst
  <2> QED  BY <2>2, <2>4, <2>6
<1> QED  BY <1>1, CcdInvariant, PTL

(***************************************************************************)
(* CcdFile: every part as its writer meant it                              *)
(***************************************************************************)
LEMMA OneListed ==
  ASSUME NEW x
  PROVE  SetToSeq({}) = <<>> /\ SetToSeq({x}) = <<x>>
<1>1. SetToSeq({}) = <<>>
  <2>1. IsFiniteSet({}) /\ Cardinality({}) = 0
    BY FS_EmptySet
  <2>2. SetToSeq({}) \in Seq({}) /\ Len(SetToSeq({})) = 0
    BY <2>1, Listed
  <2> QED  BY <2>2
<1>2. SetToSeq({x}) = <<x>>
  <2>1. IsFiniteSet({x}) /\ Cardinality({x}) = 1
    BY FS_Singleton
  <2>2. SetToSeq({x}) \in Seq({x}) /\ Len(SetToSeq({x})) = 1
    BY <2>1, Listed
  <2> DEFINE l == SetToSeq({x})
  <2> HIDE DEF l
  <2>3. l \in Seq({x}) /\ Len(l) = 1
    BY <2>2 DEF l
  <2>4. l[1] = x
    BY <2>3
  <2>5. l = <<x>>
    BY <2>3, <2>4
  <2> QED  BY <2>5 DEF l
<1> QED  BY <1>1, <1>2

LEMMA PrefixIs ==
  ASSUME NEW s \in Seq(Lines), NEW t \in Seq(Lines), Len(s) <= Len(t),
         \A k \in 1 .. Len(s) : s[k] = t[k]
  PROVE  IsPrefix(s, t)
<1>1. Len(s) \in Nat /\ Len(t) \in Nat
  OBVIOUS
<1>2. SubSeq(s, 1, Len(s)) = SubSeq(t, 1, Len(s))
  BY <1>1
<1> QED  BY <1>2 DEF IsPrefix

OwnOf(off, ats) == (IF off THEN <<Disable>> ELSE <<>>) \o SetToSeq({Address(a) : a \in ats})

LEMMA OwnOfIs ==
  ASSUME NEW off, NEW ats, NEW nets, Meaning(off, ats, nets)
  PROVE  /\ ats = {} => OwnOf(off, ats) = IF off THEN <<Disable>> ELSE <<>>
         /\ \A a \in ats : OwnOf(off, ats) = IF off THEN <<Disable, Address(a)>> ELSE <<Address(a)>>
<1>1. ASSUME ats = {} PROVE OwnOf(off, ats) = IF off THEN <<Disable>> ELSE <<>>
  <2>1. {Address(a) : a \in ats} = {}
    BY <1>1
  <2>2. OwnOf(off, ats) = (IF off THEN <<Disable>> ELSE <<>>) \o <<>>
    BY <2>1, OneListed DEF OwnOf
  <2> QED  BY <2>2
<1>2. ASSUME NEW a \in ats
      PROVE  OwnOf(off, ats) = IF off THEN <<Disable, Address(a)>> ELSE <<Address(a)>>
  <2>1. {Address(c) : c \in ats} = {Address(a)}
    BY DEF Meaning
  <2>2. OwnOf(off, ats) = (IF off THEN <<Disable>> ELSE <<>>) \o <<Address(a)>>
    BY <2>1, OneListed DEF OwnOf
  <2> QED  BY <2>2
<1> QED  BY <1>1, <1>2

LEMMA OwnOfHolds ==
  ASSUME NEW off, NEW ats, NEW nets, Meaning(off, ats, nets), NEW x
  PROVE  x \in ToSet(OwnOf(off, ats)) <=> (off /\ x = Disable) \/ \E a \in ats : x = Address(a)
<1>0. off \in BOOLEAN
  BY DEF Meaning
<1>1. CASE ats = {}
  <2>1. CASE off
    <3>1. OwnOf(off, ats) = <<Disable>>
      BY <1>1, <2>1, OwnOfIs
    <3>2. ToSet(<<Disable>>) = {Disable}
      BY DEF ToSet
    <3> QED  BY <1>1, <2>1, <3>1, <3>2
  <2>2. CASE ~off
    <3>1. OwnOf(off, ats) = <<>>
      BY <1>1, <2>2, OwnOfIs
    <3>2. ToSet(<<>>) = {}
      BY DEF ToSet
    <3> QED  BY <1>1, <2>2, <3>1, <3>2
  <2> QED  BY <2>1, <2>2
<1>2. CASE ats # {}
  <2>1. PICK a \in ats : TRUE
    BY <1>2
  <2>2. \A c \in ats : c = a
    BY DEF Meaning
  <2>3. CASE off
    <3>1. OwnOf(off, ats) = <<Disable, Address(a)>>
      BY <2>1, <2>3, OwnOfIs
    <3>2. ToSet(<<Disable, Address(a)>>) = {Disable, Address(a)}
      BY DEF ToSet
    <3> QED  BY <2>1, <2>2, <2>3, <3>1, <3>2
  <2>4. CASE ~off
    <3>1. OwnOf(off, ats) = <<Address(a)>>
      BY <2>1, <2>4, OwnOfIs
    <3>2. ToSet(<<Address(a)>>) = {Address(a)}
      BY DEF ToSet
    <3> QED  BY <2>1, <2>2, <2>4, <3>1, <3>2
  <2> QED  BY <2>3, <2>4
<1> QED  BY <1>1, <1>2

LEMMA OwnOfFirst ==
  ASSUME NEW t \in Seq(Lines), NEW off, NEW ats, NEW nets, Meaning(off, ats, nets),
         Whole(t, off, ats, nets)
  PROVE  IsPrefix(OwnOf(off, ats), t)
<1>0. Len(t) \in Nat /\ off \in BOOLEAN
  BY DEF Meaning
<1>1. /\ off <=> Len(t) > 0 /\ t[1] = Disable
      /\ \A i \in 1 .. Len(t) : t[i] = Disable => off
      /\ \A a \in ats : \E i \in 1 .. Len(t) : t[i] = Address(a)
  BY OwnLinesOf
<1>2. \A i \in 1 .. Len(t) : Own(t[i]) => t[i] = Disable \/ \E a \in ats : t[i] = Address(a)
  <2> SUFFICES ASSUME NEW i \in 1 .. Len(t), Own(t[i])
               PROVE  t[i] = Disable \/ \E a \in ats : t[i] = Address(a)
    OBVIOUS
  <2>1. Meant(t[i], off, ats, nets)
    BY DEF Whole, Exactly
  <2> QED  BY <2>1, MeantFacts
<1>3. CASE ats = {}
  <2>1. CASE off
    <3>1. OwnOf(off, ats) = <<Disable>>
      BY <1>3, <2>1, OwnOfIs
    <3> DEFINE s == <<Disable>>
    <3>2. s \in Seq(Lines) /\ Len(s) = 1 /\ s[1] = Disable
      BY LineFacts
    <3> HIDE DEF s
    <3>3. Len(s) <= Len(t) /\ \A k \in 1 .. Len(s) : s[k] = t[k]
      BY <1>0, <1>1, <2>1, <3>2
    <3>4. IsPrefix(s, t)
      BY <3>2, <3>3, PrefixIs
    <3> QED  BY <3>1, <3>4 DEF s
  <2>2. CASE ~off
    <3>1. OwnOf(off, ats) = <<>>
      BY <1>3, <2>2, OwnOfIs
    <3> DEFINE s == <<>>
    <3>2. s \in Seq(Lines) /\ Len(s) = 0
      OBVIOUS
    <3> HIDE DEF s
    <3>3. Len(s) <= Len(t) /\ \A k \in 1 .. Len(s) : s[k] = t[k]
      BY <1>0, <3>2
    <3>4. IsPrefix(s, t)
      BY <3>2, <3>3, PrefixIs
    <3> QED  BY <3>1, <3>4 DEF s
  <2> QED  BY <2>1, <2>2
<1>4. CASE ats # {}
  <2>1. PICK a \in ats : TRUE
    BY <1>4
  <2>2. /\ \A c \in ats : c = a
        /\ a \in Addresses
    BY DEF Meaning
  <2>3. Address(a) \in Lines /\ Own(Address(a)) /\ Address(a) # Disable /\ Disable \in Lines
    BY <2>2, LineFacts
  <2>4. PICK i \in 1 .. Len(t) : t[i] = Address(a)
    BY <1>1
  <2>5. \A k \in 1 .. i : t[k] = Disable \/ t[k] = Address(a)
    <3> SUFFICES ASSUME NEW k \in 1 .. i PROVE t[k] = Disable \/ t[k] = Address(a)
      OBVIOUS
    <3>1. k \in 1 .. Len(t) /\ (k = i \/ k < i)
      BY <1>0
    <3>2. Own(t[k])
      BY <2>3, <2>4, <3>1 DEF Whole, OwnFirst
    <3> QED  BY <1>2, <2>2, <3>1, <3>2
  <2>6. CASE off
    <3>1. OwnOf(off, ats) = <<Disable, Address(a)>>
      BY <2>1, <2>6, OwnOfIs
    <3> DEFINE s == <<Disable, Address(a)>>
    <3>2. s \in Seq(Lines) /\ Len(s) = 2 /\ s[1] = Disable /\ s[2] = Address(a)
      BY <2>3
    <3> HIDE DEF s
    <3>3. t[1] = Disable /\ i # 1 /\ 2 \in 1 .. i /\ 2 \in 1 .. Len(t)
      BY <1>0, <1>1, <2>3, <2>4, <2>6
    <3>4. t[2] # Disable
      BY <3>3 DEF Whole, DisableFirst
    <3>5. t[2] = Address(a)
      BY <2>5, <3>3, <3>4
    <3>6. Len(s) <= Len(t) /\ \A k \in 1 .. Len(s) : s[k] = t[k]
      BY <1>0, <3>2, <3>3, <3>5
    <3>7. IsPrefix(s, t)
      BY <3>2, <3>6, PrefixIs
    <3> QED  BY <3>1, <3>7 DEF s
  <2>7. CASE ~off
    <3>1. OwnOf(off, ats) = <<Address(a)>>
      BY <2>1, <2>7, OwnOfIs
    <3> DEFINE s == <<Address(a)>>
    <3>2. s \in Seq(Lines) /\ Len(s) = 1 /\ s[1] = Address(a)
      BY <2>3
    <3> HIDE DEF s
    <3>3. 1 \in 1 .. i /\ 1 \in 1 .. Len(t)
      BY <1>0, <2>4
    <3>4. t[1] = Address(a)
      BY <1>1, <2>5, <2>7, <3>3
    <3>5. Len(s) <= Len(t) /\ \A k \in 1 .. Len(s) : s[k] = t[k]
      BY <1>0, <3>2, <3>3, <3>4
    <3>6. IsPrefix(s, t)
      BY <3>2, <3>5, PrefixIs
    <3> QED  BY <3>1, <3>6 DEF s
  <2> QED  BY <2>6, <2>7
<1> QED  BY <1>3, <1>4

\* A block stands somewhere in one piece, the push routes at the end.
InPlace(t, b, B) ==
    \E i \in 0 .. Len(t) - Len(B) : /\ SubSeq(t, i + 1, i + Len(B)) = B
                                    /\ b = Mesh => i = Len(t) - Len(B)

LEMMA BlockStands ==
  ASSUME NEW t \in Seq(Lines), NEW off, NEW ats, NEW nets, Meaning(off, ats, nets),
         Whole(t, off, ats, nets), NEW b \in BlockNames
  PROVE  InPlace(t, b, BlockOf(b, nets[b]))
<1> DEFINE B == BlockOf(b, nets[b])
<1>0. Len(t) \in Nat /\ nets[b] \in SUBSET Routes
  BY DEF Meaning
<1>1. CASE nets[b] = {}
  <2>1. B = <<>>
    BY <1>1, NoBlock
  <2>2. Len(t) \in 0 .. Len(t) - 0 /\ Len(t) = Len(t) - 0
        /\ SubSeq(t, Len(t) + 1, Len(t) + 0) = <<>>
    BY <1>0
  <2>3. Len(<<>>) = 0
    OBVIOUS
  <2> QED  BY <2>1, <2>2, <2>3 DEF InPlace
<1>2. CASE nets[b] # {}
  <2>1. /\ B \in Seq(Lines) /\ Len(B) \in Nat /\ Len(B) >= 2 /\ B[Len(B)] = Closing(b)
    BY <1>0, <1>2, BlockFacts
  <2>2. PICK p \in 0 .. Len(t) : Stands(t, B, p)
    BY <1>2, InOnePiece
  <2> HIDE DEF B
  <2>3. p + Len(B) <= Len(t) /\ \A k \in 1 .. Len(B) : t[p + k] = B[k]
    BY <2>2 DEF Stands
  <2>4. p \in 0 .. Len(t) - Len(B)
    BY <1>0, <2>1, <2>3
  <2>5. SubSeq(t, p + 1, p + Len(B)) = B
    <3> DEFINE u == SubSeq(t, p + 1, p + Len(B))
    <3>1. u \in Seq(Lines) /\ Len(u) = Len(B) /\ \A k \in 1 .. Len(B) : u[k] = t[p + k]
      BY <1>0, <2>1, <2>3, <2>4
    <3> HIDE DEF u
    <3>2. \A k \in 1 .. Len(B) : u[k] = B[k]
      BY <2>3, <3>1
    <3>3. u = B
      BY <2>1, <3>1, <3>2
    <3> QED  BY <3>3 DEF u
  <2>6. ASSUME b = Mesh PROVE p = Len(t) - Len(B)
    <3>1. Len(t) > 0 /\ t[Len(t)] = Closing(b)
      BY <1>2, <2>6 DEF Whole, MeshLast
    <3>2. t[p + Len(B)] = Closing(b)
      BY <2>1, <2>3
    <3>3. p + Len(B) \in 1 .. Len(t) /\ Len(t) \in 1 .. Len(t)
      BY <1>0, <2>1, <2>3, <2>4
    <3>4. p + Len(B) = Len(t)
      BY <3>1, <3>2, <3>3 DEF Whole, Distinct
    <3> QED  BY <1>0, <2>1, <3>4
  <2>7. InPlace(t, b, B)
    BY <2>4, <2>5, <2>6 DEF InPlace
  <2> QED  BY <2>7 DEF B
<1> QED  BY <1>1, <1>2

\* As long as no write was cut off, the file holds the part of each writer as that writer
\* put it there last, once, in one piece and in its place, and nothing else
\* (UserService._update_ccd_disable, peer_instance/ccd_merge.py).
THEOREM PartsStayAsMeant == CcdSpec => []PartsAsMeant
<1>1. CcdInv => PartsAsMeant
  <2> DEFINE off == meant.off
             ats == meant.at
             nets == meant.to
  <2> SUFFICES ASSUME CcdInv, there, torn = 0
               PROVE  /\ \A i, j \in DOMAIN text : text[i] = text[j] => i = j
                      /\ ToSet(text) = ToSet(OwnMeant)
                                       \cup UNION {ToSet(BlockMeant(b)) : b \in BlockNames}
                      /\ IsPrefix(OwnMeant, text)
                      /\ \A b \in BlockNames : \E i \in 0 .. Len(text) - Len(BlockMeant(b)) :
                           /\ SubSeq(text, i + 1, i + Len(BlockMeant(b))) = BlockMeant(b)
                           /\ b = Mesh => i = Len(text) - Len(BlockMeant(b))
    BY DEF PartsAsMeant
  <2>1. /\ text \in Seq(Lines) /\ DOMAIN text = 1 .. Len(text)
        /\ Meaning(off, ats, nets) /\ Whole(text, off, ats, nets)
    BY DEF CcdInv
  <2>2. OwnMeant = OwnOf(off, ats) /\ \A b : BlockMeant(b) = BlockOf(b, nets[b])
    BY DEF OwnMeant, OwnOf, BlockMeant
  <2> HIDE DEF off, ats, nets
  <2>3. \A i, j \in DOMAIN text : text[i] = text[j] => i = j
    BY <2>1 DEF Whole, Distinct
  <2>4. IsPrefix(OwnMeant, text)
    BY <2>1, <2>2, OwnOfFirst
  <2>5. ASSUME NEW b \in BlockNames
        PROVE  \E i \in 0 .. Len(text) - Len(BlockMeant(b)) :
                  /\ SubSeq(text, i + 1, i + Len(BlockMeant(b))) = BlockMeant(b)
                  /\ b = Mesh => i = Len(text) - Len(BlockMeant(b))
    <3>1. InPlace(text, b, BlockOf(b, nets[b]))
      BY <2>1, BlockStands
    <3>2. InPlace(text, b, BlockMeant(b))
      BY <2>2, <3>1
    <3> QED  BY <3>2 DEF InPlace
  <2>6. ASSUME NEW b \in BlockNames, NEW x
        PROVE  x \in ToSet(BlockMeant(b)) <=> InBlock(x, b, nets[b])
    <3> DEFINE B == BlockOf(b, nets[b])
    <3>1. nets[b] \in SUBSET Routes
      BY <2>1 DEF Meaning
    <3>2. CASE nets[b] = {}
      <4>1. B = <<>>
        BY <3>2, NoBlock
      <4>2. ToSet(<<>>) = {}
        BY DEF ToSet
      <4> QED  BY <2>2, <3>2, <4>1, <4>2 DEF InBlock
    <3>3. CASE nets[b] # {}
      <4>1. B \in Seq(Lines)
        BY <3>1, <3>3, BlockFacts
      <4> HIDE DEF B
      <4>2. x \in ToSet(B) <=> \E n \in 1 .. Len(B) : x = B[n]
        BY <4>1 DEF ToSet
      <4> QED  BY <2>2, <3>3, <4>2 DEF B, InBlock
    <3> QED  BY <3>2, <3>3
  <2>7. ASSUME NEW x
        PROVE  x \in ToSet(text) <=> Meant(x, off, ats, nets)
    <3>1. x \in ToSet(text) <=> \E i \in 1 .. Len(text) : text[i] = x
      BY <2>1 DEF ToSet
    <3>2. Meant(x, off, ats, nets) => x \in Lines
      BY <2>1, MeantFacts
    <3> QED  BY <2>1, <3>1, <3>2 DEF Whole, Exactly
  <2>8. ASSUME NEW x
        PROVE  x \in ToSet(OwnMeant) <=> (off /\ x = Disable) \/ \E a \in ats : x = Address(a)
    BY <2>1, <2>2, OwnOfHolds
  <2>9. ToSet(text) = ToSet(OwnMeant) \cup UNION {ToSet(BlockMeant(b)) : b \in BlockNames}
    BY <2>6, <2>7, <2>8 DEF Meant
  <2> QED  BY <2>3, <2>4, <2>5, <2>9
<1> QED  BY <1>1, CcdInvariant, PTL
=============================================================================
