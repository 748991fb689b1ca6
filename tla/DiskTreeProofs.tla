--------------------------- MODULE DiskTreeProofs ---------------------------
(***************************************************************************)
(* What the operations of DiskTree keep, for every table: sums of sizes    *)
(* are sizes, an enlarged branch is large enough for what was asked and    *)
(* nothing that is mounted loses space.  DiskLayoutProofs rests on it.     *)
(***************************************************************************)
EXTENDS DiskTree, RelayoutProofs

-----------------------------------------------------------------------------
(* Finite sets: the induction is over a smallest counterexample.           *)

\* A family of subsets of a finite set that is not empty has a smallest one.
LEMMA SmallestSubset ==
    ASSUME NEW S, IsFiniteSet(S), NEW T, T \subseteq SUBSET S, T # {}
    PROVE  \E x \in T : \A y \in T : y \subseteq x => y = x
<1>1. IsWellFoundedOn(StrictSubsetOrdering(S), SUBSET S)
  BY FS_StrictSubsetOrderingWellFounded, FS_FiniteSubsetsOfFinite
<1>2. PICK x \in T : \A y \in T : ~ (<<y, x>> \in StrictSubsetOrdering(S))
  BY <1>1, WFMin
<1>3. ASSUME NEW y \in T, y \subseteq x, y # x PROVE FALSE
  <2>1. y \in SUBSET S /\ x \in SUBSET S
    OBVIOUS
  <2>2. <<y, x>> \in StrictSubsetOrdering(S)
    BY <1>3, <2>1 DEF StrictSubsetOrdering
  <2> QED
    BY <1>2, <2>2
<1> QED
  BY <1>3

\* The element a sum takes next.
Pick(s) == CHOOSE x \in s : TRUE

\* A set that is not empty has the element picked.
LEMMA PickIn == ASSUME NEW s, s # {} PROVE Pick(s) \in s
  BY DEF Pick

\* it is the table of the sums of g over the subsets of S.
Sums(it, g, S) ==
    it = [s \in SUBSET S |-> IF s = {} THEN 0 ELSE g[Pick(s)] + it[s \ {Pick(s)}]]

\* One unfolding of the table of sums.
LEMMA SumsStep ==
    ASSUME NEW S, NEW g, NEW it, Sums(it, g, S), NEW s \in SUBSET S
    PROVE  /\ s = {} => it[s] = 0
           /\ s # {} => /\ Pick(s) \in s /\ s \ {Pick(s)} \in SUBSET S
                        /\ it[s] = g[Pick(s)] + it[s \ {Pick(s)}]
<1> DEFINE Body(u) == IF u = {} THEN 0 ELSE g[Pick(u)] + it[u \ {Pick(u)}]
<1>1. it = [u \in SUBSET S |-> Body(u)]
  BY DEF Sums
<1> HIDE DEF Body
<1>2. it[s] = Body(s)
  BY <1>1
<1> QED
  BY <1>2, PickIn DEF Body

\* Two tables agree where both are defined.
LEMMA SumsUnique ==
    ASSUME NEW R, NEW S, NEW g, NEW h, NEW k, IsFiniteSet(S), R \subseteq S,
           Sums(h, g, R), Sums(k, g, S)
    PROVE  \A s \in SUBSET R : h[s] = k[s]
<1> DEFINE T == {s \in SUBSET R : h[s] # k[s]}
<1> SUFFICES ASSUME T # {} PROVE FALSE
  OBVIOUS
<1>1. IsFiniteSet(R) /\ T \subseteq SUBSET R
  BY FS_Subset
<1> HIDE DEF T
<1>2. PICK x \in T : \A y \in T : y \subseteq x => y = x
  BY <1>1, SmallestSubset
<1>3. x \in SUBSET R /\ x \in SUBSET S /\ h[x] # k[x]
  BY DEF T
<1>4. x # {}
  BY <1>3, SumsStep
<1> DEFINE y == x \ {Pick(x)}
<1>5. /\ Pick(x) \in x /\ y \in SUBSET R
      /\ h[x] = g[Pick(x)] + h[y] /\ k[x] = g[Pick(x)] + k[y]
  BY <1>3, <1>4, SumsStep
<1>6. y \in T
  BY <1>3, <1>5 DEF T
<1> QED
  BY <1>2, <1>5, <1>6

\* There is such a table.
LEMMA SumsExist ==
    ASSUME NEW S, NEW g, IsFiniteSet(S)
    PROVE  \E it : Sums(it, g, S)
<1> DEFINE T == {s \in SUBSET S : ~ \E it : Sums(it, g, s)}
<1> SUFFICES ASSUME T # {} PROVE FALSE
  OBVIOUS
<1>a. T \subseteq SUBSET S
  OBVIOUS
<1> HIDE DEF T
<1>1. PICK x \in T : \A y \in T : y \subseteq x => y = x
  BY <1>a, SmallestSubset
<1>2. x \in SUBSET S /\ ~ \E it : Sums(it, g, x)
  BY DEF T
<1>3. \A u \in SUBSET x : u # x => \E it : Sums(it, g, u)
  BY <1>1, <1>2 DEF T
<1> DEFINE Of(u) == CHOOSE it : Sums(it, g, u)
           At(u) == Of(u)[u]
           it0 == [u \in SUBSET x |-> IF u = {} THEN 0
                                      ELSE g[Pick(u)] + At(u \ {Pick(u)})]
<1>4. \A u \in SUBSET x : u # x => Sums(Of(u), g, u)
  BY <1>3
<1> HIDE DEF Of
<1>5. ASSUME NEW u \in SUBSET x, u # x PROVE it0[u] = At(u)
  <2>1. Sums(Of(u), g, u) /\ u \in SUBSET u
    BY <1>4, <1>5
  <2>2. CASE u = {}
    BY <2>1, <2>2, SumsStep
  <2>3. CASE u # {}
    <3> DEFINE v == u \ {Pick(u)}
    <3>1. Pick(u) \in u /\ v \in SUBSET u /\ Of(u)[u] = g[Pick(u)] + Of(u)[v]
      BY <2>1, <2>3, SumsStep
    <3>2. v \in SUBSET x /\ v # x
      BY <3>1
    <3>3. Sums(Of(v), g, v) /\ v \in SUBSET v
      BY <1>4, <3>2
    <3>4. IsFiniteSet(u)
      BY <1>2, FS_Subset
    <3>5. Of(v)[v] = Of(u)[v]
      BY <2>1, <3>1, <3>3, <3>4, SumsUnique
    <3> QED
      BY <2>3, <3>1, <3>5
  <2> QED
    BY <2>2, <2>3
<1>6. \A u \in SUBSET x : u # {} => it0[u \ {Pick(u)}] = At(u \ {Pick(u)})
  BY <1>5, PickIn
<1> HIDE DEF At
<1>7. it0 = [u \in SUBSET x |-> IF u = {} THEN 0 ELSE g[Pick(u)] + it0[u \ {Pick(u)}]]
  BY <1>6
<1>8. Sums(it0, g, x)
  BY <1>7 DEF Sums
<1> QED
  BY <1>2, <1>8

\* A set that is closed under addition has the sums of its members.
LEMMA SumsClosed ==
    ASSUME NEW S, NEW g, IsFiniteSet(S), NEW it, Sums(it, g, S),
           NEW V, 0 \in V, \A a, b \in V : a + b \in V, \A x \in S : g[x] \in V
    PROVE  it[S] \in V
<1> DEFINE T == {s \in SUBSET S : it[s] \notin V}
<1> SUFFICES ASSUME T # {} PROVE FALSE
  OBVIOUS
<1>1. T \subseteq SUBSET S
  OBVIOUS
<1> HIDE DEF T
<1>2. PICK x \in T : \A y \in T : y \subseteq x => y = x
  BY <1>1, SmallestSubset
<1>3. x \in SUBSET S /\ it[x] \notin V
  BY DEF T
<1>4. x # {}
  BY <1>3, SumsStep
<1> DEFINE y == x \ {Pick(x)}
<1>5. Pick(x) \in x /\ y \in SUBSET S /\ it[x] = g[Pick(x)] + it[y]
  BY <1>3, <1>4, SumsStep
<1>6. it[y] \in V
  BY <1>2, <1>5 DEF T
<1> QED
  BY <1>3, <1>5, <1>6

\* Sums of sizes are sizes, and sums of nothing are nothing.
LEMMA SumsNat ==
    ASSUME NEW S, NEW g, IsFiniteSet(S), NEW it, Sums(it, g, S), \A x \in S : g[x] \in Nat
    PROVE  it[S] \in Nat /\ ((\A x \in S : g[x] = 0) => it[S] = 0)
<1>1. 0 \in Nat /\ \A a, b \in Nat : a + b \in Nat
  OBVIOUS
<1>2. it[S] \in Nat
  BY <1>1, SumsClosed
<1>3. ASSUME \A x \in S : g[x] = 0 PROVE it[S] = 0
  <2>1. 0 \in {0} /\ \A x \in S : g[x] \in {0}
    BY <1>3
  <2>2. \A a, b \in {0} : a + b \in {0}
    OBVIOUS
  <2>3. it[S] \in {0}
    BY <2>1, <2>2, SumsClosed
  <2> QED
    BY <2>3
<1> QED
  BY <1>2, <1>3

\* The same of the sums of the model.
LEMMA SumNat ==
    ASSUME NEW S, NEW g, IsFiniteSet(S), \A x \in S : g[x] \in Nat
    PROVE  /\ SumFunctionOnSet(g, S) \in Nat
           /\ (\A x \in S : g[x] = 0) => SumFunctionOnSet(g, S) = 0
<1>1. SumFunctionOnSet(g, S) = (CHOOSE it : Sums(it, g, S))[S]
  BY DEF SumFunctionOnSet, FoldFunctionOnSet, MapThenFoldSet, Sums, Pick
<1> DEFINE it0 == CHOOSE it : Sums(it, g, S)
<1>2. Sums(it0, g, S)
  BY SumsExist
<1> HIDE DEF it0
<1>3. it0[S] \in Nat /\ ((\A x \in S : g[x] = 0) => it0[S] = 0)
  BY <1>2, SumsNat
<1> QED
  BY <1>1, <1>3 DEF it0

\* A finite set that is not empty has an element that no other one exceeds.
LEMMA TopExists ==
    ASSUME NEW S, IsFiniteSet(S), S # {}, NEW R,
           \A x \in S : <<x, x>> \in R,
           \A x, y \in S : <<x, y>> \in R \/ <<y, x>> \in R,
           \A x, y, z \in S : <<x, y>> \in R /\ <<y, z>> \in R => <<x, z>> \in R
    PROVE  \E x \in S : \A y \in S : <<x, y>> \in R
<1> DEFINE Top(s) == \E x \in s : \A y \in s : <<x, y>> \in R
           T == {s \in SUBSET S : s # {} /\ ~ Top(s)}
<1> SUFFICES ASSUME T # {} PROVE FALSE
  OBVIOUS
<1> HIDE DEF Top
<1>1. T \subseteq SUBSET S
  OBVIOUS
<1> HIDE DEF T
<1>2. PICK s \in T : \A r \in T : r \subseteq s => r = s
  BY <1>1, SmallestSubset
<1>3. s \in SUBSET S /\ s # {} /\ ~ Top(s)
  BY DEF T
<1>4. PICK x \in s : TRUE
  BY <1>3
<1> DEFINE r == s \ {x}
<1>5. r = {} \/ Top(r)
  BY <1>2, <1>3, <1>4 DEF T
<1>6. CASE r = {}
  BY <1>3, <1>4, <1>6 DEF Top
<1>7. CASE Top(r)
  <2>1. PICK z \in r : \A y \in r : <<z, y>> \in R
    BY <1>7 DEF Top
  <2>2. x \in S /\ z \in S /\ z \in s /\ \A y \in s : y \in S /\ (y = x \/ y \in r)
    BY <1>3, <1>4, <2>1
  <2>3. CASE <<x, z>> \in R
    BY <1>3, <1>4, <2>1, <2>2, <2>3 DEF Top
  <2>4. CASE <<z, x>> \in R
    BY <1>3, <2>1, <2>2, <2>4 DEF Top
  <2> QED
    BY <2>2, <2>3, <2>4
<1> QED
  BY <1>5, <1>6, <1>7

\* The largest and the least of a finite set of numbers are members of it.
LEMMA MaxIn ==
    ASSUME NEW S, IsFiniteSet(S), S # {}, S \subseteq Nat
    PROVE  /\ Max(S) \in S /\ \A x \in S : Max(S) >= x
           /\ \E x \in S : \A y \in S : x <= y
<1> DEFINE R == {p \in Nat \X Nat : p[1] >= p[2]}
           Q == {p \in Nat \X Nat : p[1] <= p[2]}
<1>1. /\ \A x, y \in S : <<x, y>> \in R <=> x >= y
      /\ \A x, y \in S : <<x, y>> \in Q <=> x <= y
  OBVIOUS
<1>a. \A x, y \in S : x >= y \/ y >= x
  <2>1. \A x, y \in Nat : x >= y \/ y >= x
    OBVIOUS
  <2> QED
    BY <2>1
<1>b. \A x, y \in S : x <= y \/ y <= x
  <2>1. \A x, y \in Nat : x <= y \/ y <= x
    OBVIOUS
  <2> QED
    BY <2>1
<1> HIDE DEF R, Q
<1>2. \E x \in S : \A y \in S : <<x, y>> \in R
  <2>1. \A x \in S : <<x, x>> \in R
    BY <1>1
  <2>2. \A x, y \in S : <<x, y>> \in R \/ <<y, x>> \in R
    BY <1>1, <1>a
  <2>3. \A x, y, z \in S : <<x, y>> \in R /\ <<y, z>> \in R => <<x, z>> \in R
    BY <1>1
  <2> QED
    BY <2>1, <2>2, <2>3, TopExists
<1>3. \E x \in S : \A y \in S : <<x, y>> \in Q
  <2>1. \A x \in S : <<x, x>> \in Q
    BY <1>1
  <2>2. \A x, y \in S : <<x, y>> \in Q \/ <<y, x>> \in Q
    BY <1>1, <1>b
  <2>3. \A x, y, z \in S : <<x, y>> \in Q /\ <<y, z>> \in Q => <<x, z>> \in Q
    BY <1>1
  <2> QED
    BY <2>1, <2>2, <2>3, TopExists
<1> QED
  BY <1>1, <1>2, <1>3 DEF Max

-----------------------------------------------------------------------------
(* Tables: partitions with ids of their own and what is mounted on them.   *)

\* Nothing that is mounted goes away or loses space.
Grows(t, u) ==
    \A m \in DOMAIN t.fs : m \in DOMAIN u.fs /\ VolumeSize(u, m) >= VolumeSize(t, m)

\* Everything mounted stays where it is.
Stays(t, u) ==
    \A m \in DOMAIN t.fs :
      /\ m \in DOMAIN u.fs /\ u.fs[m].on = t.fs[m].on
      /\ Parent(u, m).kind = Parent(t, m).kind /\ Parent(u, m).size >= Parent(t, m).size

\* q is partition p, perhaps larger or elsewhere.
Enlarged(p, q) == q.id = p.id /\ q.kind = p.kind /\ q.luks = p.luks /\ q.size >= p.size

\* Index finds the partition of an id.
LEMMA IndexOf ==
    ASSUME NEW ps, DistinctIds(ps), NEW i \in DOMAIN ps
    PROVE  Index(ps, ps[i].id) = i
  BY DEF DistinctIds, Index

\* A mountpoint of a sound table is on one of its partitions, alone and at the size of 0
\* if the partition is plain.
LEMMA ParentOf ==
    ASSUME NEW t, TableOK(t), NEW m \in DOMAIN t.fs
    PROVE  \E i \in DOMAIN t.parts :
             /\ Index(t.parts, t.fs[m].on) = i /\ Parent(t, m) = t.parts[i] /\ t.parts[i].id = t.fs[m].on
             /\ t.parts[i].kind = "plain" =>
                  t.fs[m].size = 0 /\ \A n \in DOMAIN t.fs : t.fs[n].on = t.fs[m].on => n = m
<1>1. PICK i \in DOMAIN t.parts :
        /\ t.parts[i].id = t.fs[m].on
        /\ t.parts[i].kind = "plain" =>
             t.fs[m].size = 0 /\ \A n \in DOMAIN t.fs : t.fs[n].on = t.fs[m].on => n = m
  BY DEF TableOK, MountsOK
<1>2. Index(t.parts, t.fs[m].on) = i
  BY <1>1, IndexOf DEF TableOK
<1> QED
  BY <1>1, <1>2 DEF Parent

\* A table whose partitions and volumes are only enlarged keeps all it has.
LEMMA Keeps ==
    ASSUME NEW t, TableOK(t), NEW u, u.parts \in Seq(Partition), DistinctIds(u.parts),
           \A i \in DOMAIN t.parts : \E j \in DOMAIN u.parts : Enlarged(t.parts[i], u.parts[j]),
           \A n \in DOMAIN t.fs : /\ n \in DOMAIN u.fs /\ u.fs[n] \in Volume
                                  /\ u.fs[n].on = t.fs[n].on /\ u.fs[n].size >= t.fs[n].size
    PROVE  Grows(t, u) /\ Stays(t, u)
<1> SUFFICES ASSUME NEW m \in DOMAIN t.fs
             PROVE  /\ m \in DOMAIN u.fs /\ VolumeSize(u, m) >= VolumeSize(t, m)
                    /\ u.fs[m].on = t.fs[m].on
                    /\ Parent(u, m).kind = Parent(t, m).kind /\ Parent(u, m).size >= Parent(t, m).size
  BY DEF Grows, Stays
<1>1. PICK i \in DOMAIN t.parts : Parent(t, m) = t.parts[i] /\ t.parts[i].id = t.fs[m].on
  BY ParentOf
<1>2. PICK j \in DOMAIN u.parts : Enlarged(t.parts[i], u.parts[j])
  OBVIOUS
<1>3. u.parts[j].id = u.fs[m].on
  BY <1>1, <1>2 DEF Enlarged
<1>4. Parent(u, m) = u.parts[j]
  BY <1>3, IndexOf DEF Parent
<1>5. t.parts[i] \in Partition /\ u.parts[j] \in Partition
  BY DEF TableOK
<1>6. t.parts[i].size \in Nat /\ u.parts[j].size \in Nat
  BY <1>5, PartitionSizes
<1>7. VolumeSize(u, m) >= VolumeSize(t, m)
  <2>1. CASE t.parts[i].kind = "plain"
    BY <1>1, <1>2, <1>4, <1>6, <2>1, RelayoutAssumption DEF VolumeSize, Enlarged
  <2>2. CASE t.parts[i].kind # "plain"
    BY <1>1, <1>2, <1>4, <2>2 DEF VolumeSize, Enlarged
  <2> QED
    BY <2>1, <2>2
<1> QED
  BY <1>1, <1>2, <1>4, <1>7 DEF Enlarged

\* The volumes of a partition have a total size, which is 0 if none has a size.
LEMMA ContentsNat ==
    ASSUME NEW f, IsFiniteSet(DOMAIN f), f \in [DOMAIN f -> Volume], NEW id
    PROVE  /\ Contents(f, id) \in Nat
           /\ (\A n \in DOMAIN f : f[n].on = id => f[n].size = 0) => Contents(f, id) = 0
<1> DEFINE S == {n \in DOMAIN f : f[n].on = id}
           g == [m \in S |-> f[m].size]
<1>1. S \subseteq DOMAIN f /\ DOMAIN g = S
  OBVIOUS
<1>2. IsFiniteSet(S)
  BY <1>1, FS_Subset
<1>3. \A x \in S : f[x].size \in Nat /\ g[x] = f[x].size
  BY DEF Volume
<1>4. Contents(f, id) = SumFunctionOnSet(g, S)
  BY <1>1 DEF Contents, SumFunction
<1>5. (\A n \in DOMAIN f : f[n].on = id => f[n].size = 0) => \A x \in S : g[x] = 0
  BY <1>3
<1> HIDE DEF S, g
<1>6. \A x \in S : g[x] \in Nat
  BY <1>3
<1>7. SumFunctionOnSet(g, S) \in Nat /\ ((\A x \in S : g[x] = 0) => SumFunctionOnSet(g, S) = 0)
  BY <1>2, <1>6, SumNat
<1> QED
  BY <1>4, <1>5, <1>7

\* The partitions of a table have a total size.
LEMMA SumSizesNat ==
    ASSUME NEW ps \in Seq(Partition)
    PROVE  SumSizes(ps) \in Nat
<1> DEFINE S == DOMAIN ps
           g == [i \in S |-> ps[i].size]
<1>1. IsFiniteSet(S)
  <2>1. S = 1 .. Len(ps) /\ Len(ps) \in Nat
    OBVIOUS
  <2> QED
    BY <2>1, FS_Interval
<1>2. \A i \in S : g[i] \in Nat
  <2> SUFFICES ASSUME NEW i \in S PROVE g[i] \in Nat
    OBVIOUS
  <2>1. ps[i] \in Partition
    OBVIOUS
  <2> QED
    BY <2>1, PartitionSizes
<1>3. DOMAIN g = S /\ SumSizes(ps) = SumFunctionOnSet(g, DOMAIN g)
  BY DEF SumSizes, SumFunction
<1> HIDE DEF S, g
<1> QED
  BY <1>1, <1>2, <1>3, SumNat

\* The volume at m gets the size asked for, the others stay as they are.
LEMMA EnsureVolumeGrows ==
    ASSUME NEW t, TableOK(t), NEW m \in DOMAIN t.fs, NEW s \in Nat, NEW f, f = EnsureVolume(t, m, s)
    PROVE  /\ f \in [DOMAIN t.fs -> Volume]
           /\ \A n \in DOMAIN t.fs : f[n].on = t.fs[n].on /\ (n # m => f[n] = t.fs[n])
           /\ Parent(t, m).kind = "plain" => f = t.fs
           /\ Parent(t, m).kind # "plain" => f[m].size >= s
<1>1. PICK i \in DOMAIN t.parts : Index(t.parts, t.fs[m].on) = i /\ Parent(t, m) = t.parts[i]
  BY ParentOf
<1> DEFINE p == t.parts[i]
<1>2. p \in Partition
  BY DEF TableOK
<1>3. p.kind \in {"plain", "lvm", "btrfs"}
  BY <1>2 DEF Partition, Kinds
<1>4. t.fs \in [DOMAIN t.fs -> Volume]
  BY DEF TableOK, MountsOK
<1>5. f = CASE p.kind = "plain" -> t.fs
            [] p.kind = "lvm" -> [t.fs EXCEPT ![m].size = AlignTo(s, Extent)]
            [] p.kind = "btrfs" -> [t.fs EXCEPT ![m].size = s]
  BY <1>1 DEF EnsureVolume
<1> HIDE DEF p
<1>6. ASSUME NEW z \in Nat, z >= s, f = [t.fs EXCEPT ![m].size = z]
      PROVE  /\ f \in [DOMAIN t.fs -> Volume] /\ f[m].size >= s
             /\ \A n \in DOMAIN t.fs : f[n].on = t.fs[n].on /\ (n # m => f[n] = t.fs[n])
  BY <1>4, <1>6 DEF Volume
<1>7. CASE p.kind = "plain"
  <2>1. f = t.fs
    BY <1>5, <1>7
  <2> QED
    BY <1>1, <1>4, <1>7, <2>1 DEF p
<1>8. CASE p.kind = "lvm"
  <2>1. f = [t.fs EXCEPT ![m].size = AlignTo(s, Extent)]
    BY <1>5, <1>8
  <2>2. AlignTo(s, Extent) \in Nat /\ AlignTo(s, Extent) >= s
    BY AlignToGrows, RelayoutAssumption
  <2> QED
    BY <1>1, <1>6, <1>8, <2>1, <2>2 DEF p
<1>9. CASE p.kind = "btrfs"
  <2>1. f = [t.fs EXCEPT ![m].size = s]
    BY <1>5, <1>9
  <2>2. s >= s
    OBVIOUS
  <2> QED
    BY <1>1, <1>6, <1>9, <2>1, <2>2 DEF p
<1> QED
  BY <1>3, <1>7, <1>8, <1>9

SameRoots(ps, qs) ==
    Len(qs) = Len(ps) /\ DOMAIN qs = DOMAIN ps /\ \A i \in DOMAIN ps : qs[i].root = ps[i].root

\* A table whose root flags are those of another one has one root if that one has.
LEMMA SameRootsOne == ASSUME NEW ps, NEW qs, SameRoots(ps, qs), OneRoot(ps) PROVE OneRoot(qs)
<1>1. PICK i \in DOMAIN ps : \A j \in DOMAIN ps : ps[j].root <=> j = i
  BY DEF OneRoot
<1>2. i \in DOMAIN qs /\ \A j \in DOMAIN qs : qs[j].root <=> j = i
  BY <1>1, Zenon DEF SameRoots
<1> QED
  BY <1>2 DEF OneRoot

\* One partition is enlarged, and volumes that are not on plain partitions.
LEMMA ReplaceKeeps ==
    ASSUME NEW t, TableOK(t), NEW i \in DOMAIN t.parts,
           NEW p \in Partition, Enlarged(t.parts[i], p), p.root = t.parts[i].root,
           NEW f \in [DOMAIN t.fs -> Volume],
           \A n \in DOMAIN t.fs : /\ f[n].on = t.fs[n].on /\ f[n].size >= t.fs[n].size
                                  /\ Parent(t, n).kind = "plain" => f[n] = t.fs[n],
           NEW z \in Nat,
           NEW u, IsTable(u), u.parts = [t.parts EXCEPT ![i] = p], u.fs = f, u.size = z
    PROVE  /\ TableOK(u) /\ Grows(t, u) /\ Stays(t, u)
           /\ DOMAIN u.fs = DOMAIN t.fs /\ SameRoots(t.parts, u.parts)
<1>1. t.parts \in Seq(Partition) /\ DistinctIds(t.parts) /\ DOMAIN t.parts = 1 .. Len(t.parts)
  BY DEF TableOK
<1>2. DOMAIN u.fs = DOMAIN t.fs /\ \A n \in DOMAIN t.fs : u.fs[n] = f[n] /\ f[n] \in Volume
  OBVIOUS
<1>3. u.parts \in Seq(Partition) /\ Len(u.parts) = Len(t.parts)
  BY <1>1, ExceptSeq
<1>4. /\ DOMAIN u.parts = DOMAIN t.parts /\ u.parts[i] = p
      /\ \A j \in DOMAIN t.parts \ {i} : u.parts[j] = t.parts[j]
  OBVIOUS
<1>5. \A j \in DOMAIN t.parts : Enlarged(t.parts[j], u.parts[j]) /\ u.parts[j].root = t.parts[j].root
  <2> SUFFICES ASSUME NEW j \in DOMAIN t.parts
               PROVE  Enlarged(t.parts[j], u.parts[j]) /\ u.parts[j].root = t.parts[j].root
    OBVIOUS
  <2>1. t.parts[j] \in Partition
    BY <1>1
  <2>2. t.parts[j].size \in Nat
    BY <2>1, PartitionSizes
  <2> QED
    BY <1>4, <2>2 DEF Enlarged
<1>6. DistinctIds(u.parts)
  BY <1>1, <1>4, <1>5 DEF DistinctIds, Enlarged
<1>7. Grows(t, u) /\ Stays(t, u)
  <2>1. \A j \in DOMAIN t.parts : \E k \in DOMAIN u.parts : Enlarged(t.parts[j], u.parts[k])
    BY <1>4, <1>5
  <2>2. \A n \in DOMAIN t.fs : /\ n \in DOMAIN u.fs /\ u.fs[n] \in Volume
                               /\ u.fs[n].on = t.fs[n].on /\ u.fs[n].size >= t.fs[n].size
    <3> SUFFICES ASSUME NEW n \in DOMAIN t.fs
                 PROVE  /\ n \in DOMAIN u.fs /\ u.fs[n] \in Volume
                        /\ u.fs[n].on = t.fs[n].on /\ u.fs[n].size >= t.fs[n].size
      OBVIOUS
    <3>1. u.fs[n] = f[n] /\ f[n] \in Volume /\ n \in DOMAIN u.fs
      BY <1>2
    <3>2. f[n].on = t.fs[n].on /\ f[n].size >= t.fs[n].size
      OBVIOUS
    <3> QED
      BY <3>1, <3>2
  <2> QED
    BY <1>3, <1>6, <2>1, <2>2, Keeps
<1>8. MountsOK(u)
  <2>1. DOMAIN u.fs = DOMAIN t.fs /\ IsFiniteSet(DOMAIN t.fs)
    BY <1>2 DEF TableOK, MountsOK
  <2>2. ASSUME NEW n \in DOMAIN t.fs
        PROVE  \E j \in DOMAIN u.parts :
                 /\ u.parts[j].id = u.fs[n].on
                 /\ u.parts[j].kind = "plain" =>
                      u.fs[n].size = 0 /\ \A k \in DOMAIN u.fs : u.fs[k].on = u.fs[n].on => k = n
    <3>1. PICK j \in DOMAIN t.parts :
            /\ Parent(t, n) = t.parts[j] /\ t.parts[j].id = t.fs[n].on
            /\ t.parts[j].kind = "plain" =>
                 t.fs[n].size = 0 /\ \A k \in DOMAIN t.fs : t.fs[k].on = t.fs[n].on => k = n
      BY ParentOf
    <3>2. u.parts[j].id = t.parts[j].id /\ u.parts[j].kind = t.parts[j].kind
      BY <1>5 DEF Enlarged
    <3>3. \A k \in DOMAIN t.fs : u.fs[k].on = t.fs[k].on
      <4> SUFFICES ASSUME NEW k \in DOMAIN t.fs PROVE u.fs[k].on = t.fs[k].on
        OBVIOUS
      <4>1. u.fs[k] = f[k]
        BY <1>2
      <4>2. f[k].on = t.fs[k].on
        OBVIOUS
      <4> QED
        BY <4>1, <4>2
    <3>4. CASE t.parts[j].kind = "plain"
      <4>1. u.fs[n] = t.fs[n]
        BY <1>2, <3>1, <3>4, Zenon
      <4> QED
        BY <1>4, <2>1, <3>1, <3>2, <3>3, <4>1
    <3>5. CASE t.parts[j].kind # "plain"
      BY <1>4, <3>1, <3>2, <3>3, <3>5
    <3> QED
      BY <3>4, <3>5
  <2> QED
    BY <1>2, <2>1, <2>2 DEF MountsOK
<1>9. TableOK(u)
  BY <1>2, <1>3, <1>6, <1>8 DEF TableOK
<1> QED
  BY <1>2, <1>3, <1>4, <1>5, <1>7, <1>9 DEF SameRoots

\* resizeEntityBranch: the mountpoint has the size asked for, and nothing else
\* in the table becomes smaller.
LEMMA ResizeGrows ==
    ASSUME NEW t, TableOK(t), NEW m \in DOMAIN t.fs, NEW s \in Nat, NEW u, u = Resize(t, m, s)
    PROVE  /\ TableOK(u) /\ Grows(t, u) /\ Stays(t, u) /\ VolumeSize(u, m) >= s
           /\ DOMAIN u.fs = DOMAIN t.fs /\ SameRoots(t.parts, u.parts)
<1> USE RelayoutAssumption
<1>1. PICK i \in DOMAIN t.parts :
        /\ Index(t.parts, t.fs[m].on) = i /\ Parent(t, m) = t.parts[i] /\ t.parts[i].id = t.fs[m].on
        /\ t.parts[i].kind = "plain" =>
             t.fs[m].size = 0 /\ \A n \in DOMAIN t.fs : t.fs[n].on = t.fs[m].on => n = m
  BY ParentOf
<1> DEFINE q == t.parts[i]
           f == EnsureVolume(t, m, s)
           content == Contents(f, q.id)
           p == [q EXCEPT !.content = content]
           luks == IF q.luks THEN LUKSMetadata ELSE 0
           need == Larger(s, content + (IF q.kind = "lvm" THEN VGMetadata ELSE 0)) + luks
           larger == [p EXCEPT !.size = need]
           ps == [t.parts EXCEPT ![i] = larger]
<1>2. t.parts \in Seq(Partition) /\ q \in Partition /\ t.size \in Nat /\ IsTable(t)
      /\ IsFiniteSet(DOMAIN t.fs) /\ t.fs \in [DOMAIN t.fs -> Volume]
  BY DEF TableOK, MountsOK
<1>3. /\ q.size \in Nat /\ q.kind \in {"plain", "lvm", "btrfs"} /\ q.luks \in BOOLEAN
      /\ q.root \in BOOLEAN /\ q.id \in Nat /\ q.start \in Nat
  BY <1>2 DEF Partition, Kinds
<1>4. /\ f \in [DOMAIN t.fs -> Volume]
      /\ \A n \in DOMAIN t.fs : f[n].on = t.fs[n].on /\ (n # m => f[n] = t.fs[n])
      /\ q.kind = "plain" => f = t.fs
      /\ q.kind # "plain" => f[m].size >= s
  BY <1>1, EnsureVolumeGrows
<1> HIDE DEF f, q
<1>5. content \in Nat /\ (q.kind = "plain" => content = 0)
  <2>1. DOMAIN f = DOMAIN t.fs
    BY <1>4
  <2>2. f \in [DOMAIN f -> Volume] /\ IsFiniteSet(DOMAIN f)
    BY <1>2, <1>4, <2>1
  <2>3. q.kind = "plain" => \A n \in DOMAIN f : f[n].on = q.id => f[n].size = 0
    BY <1>1, <1>4, <2>1 DEF q
  <2> QED
    BY <2>2, <2>3, ContentsNat
<1> HIDE DEF content
<1>6. /\ p \in Partition /\ p.size = q.size /\ p.id = q.id /\ p.kind = q.kind /\ p.luks = q.luks
      /\ p.root = q.root /\ p.content = content
  BY <1>2, <1>3, <1>5 DEF Partition
<1>7. need \in Nat /\ need >= s + luks /\ luks \in Nat
  BY <1>3, <1>5 DEF Larger
<1> HIDE DEF p
<1> HIDE DEF need, luks
<1>8. /\ larger \in Partition /\ larger.size = need /\ larger.id = q.id /\ larger.kind = q.kind
      /\ larger.luks = q.luks /\ larger.root = q.root
  BY <1>6, <1>7 DEF Partition
<1> HIDE DEF larger
<1>9. Resize(t, m, s) =
        CASE p.kind # "plain" /\ s <= t.fs[m].size -> t
          [] OTHER -> IF need <= p.size
                      THEN [t EXCEPT !.fs = f, !.parts[i] = p]
                      ELSE [parts |-> ps, fs |-> f,
                            size |-> Larger(t.size, Larger(need, SumSizes(ps)))]
  BY <1>1, <1>6 DEF Resize, f, content, q, p, need, luks, larger
<1>10. CASE p.kind # "plain" /\ s <= t.fs[m].size
  <2>1. u = t
    BY <1>9, <1>10
  <2>2. t.fs[m] \in Volume
    BY <1>2
  <2>3. VolumeSize(t, m) >= s
    BY <1>1, <1>6, <1>10, <2>2 DEF VolumeSize, Volume, q
  <2>4. \A n \in DOMAIN t.fs : t.fs[n] \in Volume /\ t.fs[n].on = t.fs[n].on /\ t.fs[n].size >= t.fs[n].size
    BY <1>2 DEF Volume
  <2>5. \A k \in DOMAIN t.parts : \E j \in DOMAIN t.parts : Enlarged(t.parts[k], t.parts[j])
    <3> SUFFICES ASSUME NEW k \in DOMAIN t.parts PROVE Enlarged(t.parts[k], t.parts[k])
      OBVIOUS
    <3>1. t.parts[k] \in Partition
      BY <1>2
    <3> QED
      BY <3>1, PartitionSizes DEF Enlarged
  <2>6. Grows(t, t) /\ Stays(t, t)
    BY <1>2, <2>4, <2>5, Keeps DEF TableOK
  <2> QED
    BY <2>1, <2>3, <2>6 DEF SameRoots
<1>11. CASE ~ (p.kind # "plain" /\ s <= t.fs[m].size)
  <2>1. \A n \in DOMAIN t.fs : /\ f[n].on = t.fs[n].on /\ f[n].size >= t.fs[n].size
                               /\ Parent(t, n).kind = "plain" => f[n] = t.fs[n]
    <3> SUFFICES ASSUME NEW n \in DOMAIN t.fs
                 PROVE  f[n].size >= t.fs[n].size /\ (Parent(t, n).kind = "plain" => f[n] = t.fs[n])
      BY <1>4
    <3>1. t.fs[n] \in Volume /\ f[n] \in Volume
      BY <1>2, <1>4
    <3>2. CASE n # m \/ q.kind = "plain"
      BY <1>4, <3>1, <3>2 DEF Volume
    <3>3. CASE n = m /\ q.kind # "plain"
      BY <1>1, <1>4, <1>6, <1>11, <3>1, <3>3 DEF Volume, q
    <3> QED
      BY <3>2, <3>3
  <2> DEFINE Claim(v) == /\ TableOK(v) /\ Grows(t, v) /\ Stays(t, v) /\ VolumeSize(v, m) >= s
                         /\ DOMAIN v.fs = DOMAIN t.fs /\ SameRoots(t.parts, v.parts)
  <2>2. ASSUME NEW r \in Partition, r.id = q.id, r.kind = q.kind, r.luks = q.luks, r.root = q.root,
               r.size >= q.size, r.size >= need, NEW z \in Nat,
               IsTable(u), u.parts = [t.parts EXCEPT ![i] = r], u.fs = f, u.size = z
        PROVE  Claim(u)
    <3>1. Enlarged(t.parts[i], r) /\ r.root = t.parts[i].root
      BY <2>2 DEF Enlarged, q
    <3>2. /\ TableOK(u) /\ Grows(t, u) /\ Stays(t, u)
          /\ DOMAIN u.fs = DOMAIN t.fs /\ SameRoots(t.parts, u.parts)
      BY <1>4, <2>1, <2>2, <3>1, ReplaceKeeps
    <3>3. Parent(u, m) = r
      <4>1. u.parts[i] = r /\ i \in DOMAIN u.parts
        BY <2>2
      <4>2. u.fs[m].on = r.id
        BY <1>1, <1>4, <2>2 DEF q
      <4>3. Index(u.parts, u.fs[m].on) = i
        BY <3>2, <4>1, <4>2, IndexOf DEF TableOK
      <4> QED
        BY <4>1, <4>3 DEF Parent
    <3>4. r.size \in Nat
      BY PartitionSizes
    <3>5. VolumeSize(u, m) >= s
      <4>1. CASE q.kind = "plain"
        BY <1>3, <1>7, <2>2, <3>3, <3>4, <4>1 DEF VolumeSize, luks
      <4>2. CASE q.kind # "plain"
        BY <1>4, <2>2, <3>3, <4>2 DEF VolumeSize
      <4> QED
        BY <4>1, <4>2
    <3> QED
      BY <3>2, <3>5
  <2> HIDE DEF Claim
  <2>3. CASE need <= p.size
    <3>1. u = [t EXCEPT !.fs = f, !.parts[i] = p]
      BY <1>9, <1>11, <2>3
    <3>2. IsTable(u) /\ u.parts = [t.parts EXCEPT ![i] = p] /\ u.fs = f /\ u.size = t.size
      BY <1>2, <3>1 DEF IsTable
    <3>3. p.size >= q.size /\ p.size >= need
      BY <1>3, <1>6, <1>7, <2>3
    <3> QED
      BY <1>2, <1>6, <2>2, <3>2, <3>3 DEF Claim
  <2>4. CASE ~ (need <= p.size)
    <3> DEFINE z == Larger(t.size, Larger(need, SumSizes(ps)))
    <3>1. u = [parts |-> ps, fs |-> f, size |-> z]
      BY <1>9, <1>11, <2>4
    <3>2. z \in Nat
      <4>1. ps \in Seq(Partition)
        BY <1>2, <1>8, ExceptSeq
      <4>2. SumSizes(ps) \in Nat
        BY <4>1, SumSizesNat
      <4> QED
        BY <1>2, <1>7, <4>2 DEF Larger
    <3>3. larger.size >= q.size /\ larger.size >= need
      BY <1>3, <1>6, <1>7, <1>8, <2>4
    <3> HIDE DEF z
    <3>4. IsTable(u) /\ u.parts = [t.parts EXCEPT ![i] = larger] /\ u.fs = f /\ u.size = z
      BY <3>1 DEF IsTable
    <3> QED
      BY <1>8, <2>2, <3>2, <3>3, <3>4 DEF Claim
  <2> QED
    BY <2>3, <2>4
<1> QED
  BY <1>10, <1>11

-----------------------------------------------------------------------------
(* New partitions.                                                         *)

\* The id of a new partition is that of no other.
LEMMA FreshIdNew ==
    ASSUME NEW t, t.parts \in Seq(Partition)
    PROVE  FreshId(t) \in Nat /\ \A i \in DOMAIN t.parts : t.parts[i].id # FreshId(t)
<1> DEFINE D == DOMAIN t.parts
           Ids == {t.parts[i].id : i \in D}
           g == [i \in D |-> t.parts[i].id]
<1>1. D = 1 .. Len(t.parts) /\ Len(t.parts) \in Nat
  OBVIOUS
<1>2. IsFiniteSet(D)
  BY <1>1, FS_Interval
<1>3. \A i \in D : t.parts[i].id \in Nat
  <2> SUFFICES ASSUME NEW i \in D PROVE t.parts[i].id \in Nat
    OBVIOUS
  <2>1. t.parts[i] \in Partition
    OBVIOUS
  <2> QED
    BY <2>1 DEF Partition
<1>4. g \in Surjection(D, Ids)
  BY DEF Surjection
<1>5. IsFiniteSet(Ids)
  BY <1>2, <1>4, FS_Surjection
<1> DEFINE S == {0} \union Ids
<1>6. IsFiniteSet(S)
  BY <1>5, FS_Singleton, FS_Union
<1>7. S # {} /\ S \subseteq Nat
  BY <1>3
<1>8. Max(S) \in S /\ \A x \in S : Max(S) >= x
  BY <1>6, <1>7, MaxIn
<1>9. FreshId(t) = 1 + Max(S)
  BY DEF FreshId
<1> HIDE DEF S
<1> DEFINE M == Max(S)
<1>10. M \in Nat /\ FreshId(t) = 1 + M /\ \A x \in S : x \in Nat /\ M >= x
  BY <1>7, <1>8, <1>9
<1> HIDE DEF M
<1>11. \A x \in S : x # FreshId(t)
  BY <1>10
<1> QED
  BY <1>10, <1>11 DEF S

\* A partition at the end of the table and a mountpoint that is new.
LEMMA AppendKeeps ==
    ASSUME NEW t, TableOK(t), NEW p \in Partition, \A i \in DOMAIN t.parts : t.parts[i].id # p.id,
           NEW u, IsTable(u), u.parts = Append(t.parts, p), u.size = t.size,
           u.fs \in [DOMAIN u.fs -> Volume], IsFiniteSet(DOMAIN u.fs),
           \A n \in DOMAIN t.fs : n \in DOMAIN u.fs /\ u.fs[n] = t.fs[n],
           \A n \in DOMAIN u.fs \ DOMAIN t.fs :
              /\ u.fs[n].on = p.id
              /\ p.kind = "plain" => u.fs[n].size = 0 /\ DOMAIN u.fs \ DOMAIN t.fs = {n}
    PROVE  /\ TableOK(u) /\ Grows(t, u) /\ Stays(t, u) /\ Len(u.parts) = Len(t.parts) + 1
           /\ \A n \in DOMAIN u.fs \ DOMAIN t.fs : Parent(u, n) = p
           /\ \A i \in DOMAIN t.parts : i \in DOMAIN u.parts /\ u.parts[i] = t.parts[i]
           /\ u.parts[Len(u.parts)] = p
<1> DEFINE N == Len(t.parts)
<1>1. /\ t.parts \in Seq(Partition) /\ DistinctIds(t.parts) /\ t.size \in Nat
      /\ DOMAIN t.parts = 1 .. N /\ N \in Nat /\ t.fs \in [DOMAIN t.fs -> Volume]
  BY DEF TableOK, MountsOK
<1>2. /\ u.parts \in Seq(Partition) /\ Len(u.parts) = N + 1 /\ DOMAIN u.parts = 1 .. N + 1
      /\ \A i \in 1 .. N : u.parts[i] = t.parts[i]
      /\ u.parts[N + 1] = p
  BY <1>1
<1>3. DistinctIds(u.parts)
  <2> SUFFICES ASSUME NEW i \in 1 .. N + 1, NEW j \in 1 .. N + 1, u.parts[i].id = u.parts[j].id
               PROVE  i = j
    BY <1>2 DEF DistinctIds
  <2>1. CASE i \in 1 .. N /\ j \in 1 .. N
    BY <1>1, <1>2, <2>1 DEF DistinctIds
  <2>2. CASE i = N + 1 /\ j \in 1 .. N
    BY <1>1, <1>2, <2>2
  <2>3. CASE i \in 1 .. N /\ j = N + 1
    BY <1>1, <1>2, <2>3
  <2> QED
    BY <1>1, <2>1, <2>2, <2>3
<1>4. Grows(t, u) /\ Stays(t, u)
  <2>1. ASSUME NEW i \in DOMAIN t.parts
        PROVE  \E j \in DOMAIN u.parts : Enlarged(t.parts[i], u.parts[j])
    <3>1. t.parts[i] \in Partition
      BY <1>1
    <3>2. t.parts[i].size \in Nat
      BY <3>1, PartitionSizes
    <3>3. i \in DOMAIN u.parts /\ u.parts[i] = t.parts[i]
      BY <1>1, <1>2
    <3> QED
      BY <3>2, <3>3 DEF Enlarged
  <2>2. ASSUME NEW n \in DOMAIN t.fs
        PROVE  /\ n \in DOMAIN u.fs /\ u.fs[n] \in Volume
               /\ u.fs[n].on = t.fs[n].on /\ u.fs[n].size >= t.fs[n].size
    <3>1. t.fs[n] \in Volume /\ u.fs[n] = t.fs[n] /\ n \in DOMAIN u.fs
      BY <1>1
    <3> QED
      BY <3>1 DEF Volume
  <2> QED
    BY <1>2, <1>3, <2>1, <2>2, Keeps
<1>5. \A n \in DOMAIN u.fs \ DOMAIN t.fs : Parent(u, n) = p
  <2> SUFFICES ASSUME NEW n \in DOMAIN u.fs \ DOMAIN t.fs PROVE Parent(u, n) = p
    OBVIOUS
  <2>1. u.fs[n].on = u.parts[N + 1].id /\ N + 1 \in DOMAIN u.parts
    BY <1>1, <1>2
  <2>2. Index(u.parts, u.fs[n].on) = N + 1
    BY <1>3, <2>1, IndexOf
  <2> QED
    BY <1>2, <2>2 DEF Parent
<1>6. MountsOK(u)
  <2>1. ASSUME NEW n \in DOMAIN u.fs
        PROVE  \E j \in DOMAIN u.parts :
                 /\ u.parts[j].id = u.fs[n].on
                 /\ u.parts[j].kind = "plain" =>
                      u.fs[n].size = 0 /\ \A k \in DOMAIN u.fs : u.fs[k].on = u.fs[n].on => k = n
    <3>1. CASE n \in DOMAIN t.fs
      <4>1. PICK j \in DOMAIN t.parts :
              /\ t.parts[j].id = t.fs[n].on
              /\ t.parts[j].kind = "plain" =>
                   t.fs[n].size = 0 /\ \A k \in DOMAIN t.fs : t.fs[k].on = t.fs[n].on => k = n
        BY <3>1 DEF TableOK, MountsOK
      <4>2. j \in DOMAIN u.parts /\ u.parts[j] = t.parts[j] /\ u.fs[n] = t.fs[n]
        BY <1>1, <1>2, <3>1
      <4>3. ASSUME NEW k \in DOMAIN u.fs, u.fs[k].on = u.fs[n].on
            PROVE  k \in DOMAIN t.fs /\ t.fs[k].on = t.fs[n].on
        <5>1. CASE k \in DOMAIN t.fs
          BY <4>2, <4>3, <5>1
        <5>2. CASE k \notin DOMAIN t.fs
          <6>1. u.fs[k].on = p.id
            BY <5>2
          <6> QED
            BY <4>1, <4>2, <4>3, <6>1
        <5> QED
          BY <5>1, <5>2
      <4> QED
        BY <4>1, <4>2, <4>3
    <3>2. CASE n \notin DOMAIN t.fs
      <4>1. u.parts[N + 1].id = u.fs[n].on /\ N + 1 \in DOMAIN u.parts
        BY <1>1, <1>2, <3>2
      <4>2. ASSUME NEW k \in DOMAIN u.fs, u.fs[k].on = u.fs[n].on PROVE k \notin DOMAIN t.fs
        <5> SUFFICES ASSUME k \in DOMAIN t.fs PROVE FALSE
          OBVIOUS
        <5>1. PICK j \in DOMAIN t.parts : t.parts[j].id = t.fs[k].on
          BY DEF TableOK, MountsOK
        <5>2. u.fs[k].on = p.id /\ u.fs[k] = t.fs[k]
          BY <3>2, <4>2
        <5> QED
          BY <5>1, <5>2
      <4>3. ASSUME p.kind = "plain"
            PROVE  u.fs[n].size = 0 /\ \A k \in DOMAIN u.fs : u.fs[k].on = u.fs[n].on => k = n
        <5>1. u.fs[n].size = 0 /\ DOMAIN u.fs \ DOMAIN t.fs = {n}
          BY <3>2, <4>3
        <5> QED
          BY <4>2, <5>1
      <4> QED
        BY <1>2, <4>1, <4>3
    <3> QED
      BY <3>1, <3>2
  <2> QED
    BY <2>1 DEF MountsOK
<1>7. TableOK(u)
  BY <1>1, <1>2, <1>3, <1>6 DEF TableOK
<1> QED
  BY <1>1, <1>2, <1>4, <1>5, <1>7

\* u is table t with one plain partition more, for m.
Longer(t, u, m) ==
    /\ Len(u.parts) = Len(t.parts) + 1 /\ DOMAIN u.fs = DOMAIN t.fs \union {m}
    /\ Parent(u, m).kind = "plain"
    /\ \A i \in DOMAIN t.parts : i \in DOMAIN u.parts /\ u.parts[i] = t.parts[i]
    /\ m # "/" => u.parts[Len(u.parts)].root = FALSE
    /\ m = "/" => u.parts[Len(u.parts)].root = TRUE

\* CreateMountpoint of the table.
LEMMA AddPartitionKeeps ==
    ASSUME NEW t, TableOK(t), NEW m, m \notin DOMAIN t.fs, NEW s \in Nat, NEW u, u = AddPartition(t, m, s)
    PROVE  TableOK(u) /\ Grows(t, u) /\ Stays(t, u) /\ Longer(t, u, m)
<1> DEFINE id == FreshId(t)
           p == [id |-> id, start |-> 0, size |-> s, root |-> m = "/",
                 kind |-> "plain", luks |-> FALSE, content |-> 0]
           v == [on |-> id, size |-> 0]
           f == Mount(t.fs, m, id)
<1>1. t.parts \in Seq(Partition) /\ IsTable(t)
  BY DEF TableOK
<1>2. id \in Nat /\ \A i \in DOMAIN t.parts : t.parts[i].id # id
  BY <1>1, FreshIdNew
<1>3. /\ DOMAIN f = DOMAIN t.fs \union {m} /\ f[m] = v /\ \A n \in DOMAIN t.fs : f[n] = t.fs[n]
      /\ f = [n \in DOMAIN t.fs \union {m} |-> f[n]]
  <2>1. f = Mount(t.fs, m, id) /\ v = [on |-> id, size |-> 0]
    OBVIOUS
  <2> HIDE DEF id, f, v
  <2> QED
    BY <2>1 DEF Mount
<1>4. u = [t EXCEPT !.parts = Append(t.parts, p), !.fs = f]
  BY DEF AddPartition
<1> HIDE DEF f
<1>5. p \in Partition
  BY <1>2 DEF Partition, Kinds
<1>6. p.id = id /\ p.kind = "plain" /\ p.luks = FALSE /\ p.size = s
      /\ (m # "/" => p.root = FALSE) /\ (m = "/" => p.root = TRUE)
  OBVIOUS
<1>7. v \in Volume /\ v.on = id /\ v.size = 0
  BY <1>2 DEF Volume
<1> HIDE DEF p, v, id
<1>8. IsTable(u) /\ u.parts = Append(t.parts, p) /\ u.fs = f /\ u.size = t.size
  BY <1>1, <1>4 DEF IsTable
<1>9. t.fs \in [DOMAIN t.fs -> Volume] /\ IsFiniteSet(DOMAIN t.fs)
  BY DEF TableOK, MountsOK
<1>10. \A n \in DOMAIN f : f[n] \in Volume
  BY <1>3, <1>7, <1>9
<1>11. f \in [DOMAIN f -> Volume]
  BY <1>3, <1>10
<1>12. IsFiniteSet(DOMAIN f)
  BY <1>3, <1>9, FS_AddElement
<1>13. DOMAIN u.fs \ DOMAIN t.fs = {m}
  BY <1>3, <1>8
<1>14. \A n \in DOMAIN u.fs \ DOMAIN t.fs :
         /\ u.fs[n].on = p.id
         /\ p.kind = "plain" => u.fs[n].size = 0 /\ DOMAIN u.fs \ DOMAIN t.fs = {n}
  BY <1>3, <1>6, <1>7, <1>8, <1>13
<1>15. /\ u.fs \in [DOMAIN u.fs -> Volume] /\ IsFiniteSet(DOMAIN u.fs)
       /\ \A n \in DOMAIN t.fs : n \in DOMAIN u.fs /\ u.fs[n] = t.fs[n]
  BY <1>3, <1>8, <1>11, <1>12
<1>16. \A i \in DOMAIN t.parts : t.parts[i].id # p.id
  BY <1>2, <1>6
<1>17. /\ TableOK(u) /\ Grows(t, u) /\ Stays(t, u) /\ Len(u.parts) = Len(t.parts) + 1
       /\ \A n \in DOMAIN u.fs \ DOMAIN t.fs : Parent(u, n) = p
       /\ \A i \in DOMAIN t.parts : i \in DOMAIN u.parts /\ u.parts[i] = t.parts[i]
       /\ u.parts[Len(u.parts)] = p
  BY <1>5, <1>8, <1>14, <1>15, <1>16, AppendKeeps
<1> QED
  BY <1>3, <1>6, <1>8, <1>13, <1>17 DEF Longer

-----------------------------------------------------------------------------
(* Directories: what is asked of a mountpoint.                             *)

\* u has what t has, and m on the partition id.
MountedOn(t, u, m, id) == DOMAIN u.fs = DOMAIN t.fs \union {m} /\ u.fs[m].on = id

\* CreateMountpoint of a volume group or a btrfs: a volume for m on partition i.
LEMMA MountKeeps ==
    ASSUME NEW t, TableOK(t), NEW i \in DOMAIN t.parts, t.parts[i].kind # "plain",
           NEW m, m \notin DOMAIN t.fs,
           NEW u, IsTable(u), u.parts \in Seq(Partition), DOMAIN u.parts = DOMAIN t.parts,
           \A j \in DOMAIN t.parts : Enlarged(t.parts[j], u.parts[j]),
           u.fs = Mount(t.fs, m, t.parts[i].id), u.size = t.size
    PROVE  TableOK(u) /\ Grows(t, u) /\ Stays(t, u) /\ MountedOn(t, u, m, t.parts[i].id)
<1> DEFINE id == t.parts[i].id
           v == [on |-> id, size |-> 0]
           f == Mount(t.fs, m, id)
<1>1. t.parts \in Seq(Partition) /\ DistinctIds(t.parts) /\ t.size \in Nat
  BY DEF TableOK
<1>2. t.parts[i] \in Partition
  BY <1>1
<1>3. id \in Nat
  BY <1>2 DEF Partition
<1>4. \A j \in DOMAIN t.parts : u.parts[j].id = t.parts[j].id /\ u.parts[j].kind = t.parts[j].kind
  BY DEF Enlarged
<1> HIDE DEF id
<1>5. v \in Volume /\ v.on = id
  BY <1>3 DEF Volume
<1>6. DOMAIN f = DOMAIN t.fs \union {m} /\ f[m] = v /\ \A n \in DOMAIN t.fs : f[n] = t.fs[n]
  BY DEF Mount
<1>7. t.fs \in [DOMAIN t.fs -> Volume] /\ IsFiniteSet(DOMAIN t.fs)
  BY DEF TableOK, MountsOK
<1>8. f = [n \in DOMAIN f |-> f[n]]
  BY DEF Mount
<1>9. u.fs = f
  BY DEF id
<1> HIDE DEF f, v
<1>10. \A n \in DOMAIN f : f[n] \in Volume
  BY <1>5, <1>6, <1>7
<1>11. f \in [DOMAIN f -> Volume]
  BY <1>8, <1>10
<1>12. IsFiniteSet(DOMAIN f)
  BY <1>6, <1>7, FS_AddElement
<1>13. DistinctIds(u.parts)
  BY <1>1, <1>4 DEF DistinctIds
<1>14. MountsOK(u)
  <2>1. ASSUME NEW n \in DOMAIN f
        PROVE  \E j \in DOMAIN u.parts :
                 /\ u.parts[j].id = f[n].on
                 /\ u.parts[j].kind = "plain" =>
                      f[n].size = 0 /\ \A k \in DOMAIN f : f[k].on = f[n].on => k = n
    <3>1. CASE n = m
      BY <1>4, <1>5, <1>6, <3>1 DEF id
    <3>2. CASE n # m
      <4>1. n \in DOMAIN t.fs /\ f[n] = t.fs[n]
        BY <1>6, <3>2
      <4>2. PICK j \in DOMAIN t.parts :
              /\ t.parts[j].id = t.fs[n].on
              /\ t.parts[j].kind = "plain" =>
                   t.fs[n].size = 0 /\ \A k \in DOMAIN t.fs : t.fs[k].on = t.fs[n].on => k = n
        BY <4>1 DEF TableOK, MountsOK
      <4>3. t.parts[j].kind = "plain" => t.parts[j].id # id
        BY <1>1 DEF DistinctIds, id
      <4> QED
        BY <1>4, <1>5, <1>6, <4>1, <4>2, <4>3
    <3> QED
      BY <3>1, <3>2
  <2> QED
    BY <1>9, <1>11, <1>12, <2>1 DEF MountsOK
<1>15. TableOK(u)
  BY <1>1, <1>13, <1>14 DEF TableOK
<1>16. \A n \in DOMAIN t.fs : /\ n \in DOMAIN u.fs /\ u.fs[n] \in Volume
                               /\ u.fs[n].on = t.fs[n].on /\ u.fs[n].size >= t.fs[n].size
  BY <1>6, <1>7, <1>9 DEF Volume
<1>17. Grows(t, u) /\ Stays(t, u)
  BY <1>13, <1>16, Keeps
<1> QED
  BY <1>5, <1>6, <1>9, <1>15, <1>17 DEF id, MountedOn

\* What a file system has to itself is a number, below zero at worst.
LEMMA VolumeSizeInt ==
    ASSUME NEW t, TableOK(t), NEW m \in DOMAIN t.fs
    PROVE  VolumeSize(t, m) \in Int
<1>1. PICK i \in DOMAIN t.parts : Parent(t, m) = t.parts[i]
  BY ParentOf
<1>2. t.parts[i] \in Partition
  BY DEF TableOK
<1>3. t.parts[i].size \in Nat
  BY <1>2, PartitionSizes
<1>4. t.fs[m] \in Volume
  BY DEF TableOK, MountsOK
<1>5. t.fs[m].size \in Nat
  BY <1>4 DEF Volume
<1> QED
  BY <1>1, <1>3, <1>5, RelayoutAssumption DEF VolumeSize

\* Two steps that take nothing away take nothing away.
LEMMA GrowsTrans ==
    ASSUME NEW t, NEW u, NEW v, TableOK(t), TableOK(u), TableOK(v), Grows(t, u), Grows(u, v)
    PROVE  Grows(t, v)
<1> SUFFICES ASSUME NEW m \in DOMAIN t.fs
             PROVE  m \in DOMAIN v.fs /\ VolumeSize(v, m) >= VolumeSize(t, m)
  BY DEF Grows
<1>1. m \in DOMAIN u.fs /\ VolumeSize(u, m) >= VolumeSize(t, m)
  BY DEF Grows
<1>2. m \in DOMAIN v.fs /\ VolumeSize(v, m) >= VolumeSize(u, m)
  BY <1>1 DEF Grows
<1>3. VolumeSize(t, m) \in Int /\ VolumeSize(u, m) \in Int /\ VolumeSize(v, m) \in Int
  BY <1>1, <1>2, VolumeSizeInt
<1> QED
  BY <1>1, <1>2, <1>3

\* A directory lies on something that is mounted.
LEMMA OwnerMounted ==
    ASSUME NEW r \in Required, NEW d \in DOMAIN r, NEW f, "/" \in DOMAIN f
    PROVE  Owner(f, d) \in DOMAIN f
<1> DEFINE a == Ancestors[d]
           found == {i \in DOMAIN a : a[i] \in DOMAIN f}
<1>1. a \in Seq(STRING) /\ \E i \in DOMAIN a : a[i] = "/"
  BY RequiredAssumption
<1>2. DOMAIN a = 1 .. Len(a) /\ Len(a) \in Nat
  BY <1>1
<1>3. found # {}
  BY <1>1
<1>4. found \subseteq Nat /\ found \subseteq 1 .. Len(a)
  BY <1>2
<1>5. IsFiniteSet(found)
  <2>1. IsFiniteSet(DOMAIN a)
    BY <1>2, FS_Interval
  <2>2. found \subseteq DOMAIN a
    OBVIOUS
  <2> HIDE DEF found
  <2> QED
    BY <2>1, <2>2, FS_Subset
<1>6. \E i \in found : \A j \in found : i <= j
  <2> HIDE DEF found
  <2> QED
    BY <1>3, <1>4, <1>5, MaxIn
<1>7. (CHOOSE i \in found : \A j \in found : i <= j) \in found
  BY <1>6
<1>8. Owner(f, d) = a[CHOOSE i \in found : \A j \in found : i <= j]
  BY DEF Owner
<1> QED
  BY <1>7, <1>8

\* The sum for a mountpoint is a size, and nothing where no directory lies.
LEMMA RequiredOnNat ==
    ASSUME opts.required \in Required, NEW f, NEW m
    PROVE  /\ RequiredOn(f, m) \in Nat
           /\ (\A d \in DOMAIN opts.required : Owner(f, d) # m) => RequiredOn(f, m) = 0
<1> DEFINE r == opts.required
           S == {d \in DOMAIN r : Owner(f, d) = m}
<1>1. IsFiniteSet(DOMAIN r) /\ \A d \in DOMAIN r : r[d] \in Nat
  BY RequiredAssumption
<1>2. IsFiniteSet(S)
  BY <1>1, FS_Subset
<1>3. \A d \in S : r[d] \in Nat
  BY <1>1
<1>4. /\ SumFunctionOnSet(r, S) \in Nat
      /\ (\A d \in S : r[d] = 0) => SumFunctionOnSet(r, S) = 0
  BY <1>2, <1>3, SumNat
<1>5. RequiredOn(f, m) = SumFunctionOnSet(r, S)
  BY DEF RequiredOn
<1>6. (\A d \in DOMAIN r : Owner(f, d) # m) => S = {}
  OBVIOUS
<1> HIDE DEF S
<1> QED
  BY <1>4, <1>5, <1>6

\* Which directories lie where depends on the mountpoints alone.
LEMMA RequiredOnSame ==
    ASSUME NEW f, NEW g, DOMAIN f = DOMAIN g, NEW m
    PROVE  RequiredOn(f, m) = RequiredOn(g, m)
<1>1. \A d : Owner(f, d) = Owner(g, d)
  BY DEF Owner
<1> QED
  BY <1>1 DEF RequiredOn

-----------------------------------------------------------------------------
(* The layout: partitions get their place and grow, the table is sorted.   *)

\* A partition at its place, which is as large as it was or larger.
LEMMA PutKeeps ==
    ASSUME NEW t, TableOK(t), NEW i \in DOMAIN t.parts, NEW s \in Nat, NEW z \in Nat,
           z >= t.parts[i].size, NEW w \in Nat,
           NEW u, u = [parts |-> [t.parts EXCEPT ![i] = Put(t.parts[i], s, z)], fs |-> t.fs, size |-> w]
    PROVE  TableOK(u) /\ Grows(t, u) /\ Stays(t, u) /\ Len(u.parts) = Len(t.parts)
<1> DEFINE q == t.parts[i]
           p == Put(q, s, z)
<1>1. q \in Partition
  BY DEF TableOK
<1>2. p \in Partition /\ Enlarged(q, p) /\ p.root = q.root
  BY <1>1 DEF Partition, Put, Enlarged
<1>3. IsTable(u) /\ u.parts = [t.parts EXCEPT ![i] = p] /\ u.fs = t.fs /\ u.size = w
  BY DEF IsTable
<1> HIDE DEF p
<1>4. t.fs \in [DOMAIN t.fs -> Volume]
  BY DEF TableOK, MountsOK
<1>5. \A n \in DOMAIN t.fs : t.fs[n].size \in Nat
  BY <1>4 DEF Volume
<1>6. \A n \in DOMAIN t.fs : /\ t.fs[n].on = t.fs[n].on /\ t.fs[n].size >= t.fs[n].size
                             /\ Parent(t, n).kind = "plain" => t.fs[n] = t.fs[n]
  BY <1>5
<1>7. TableOK(u) /\ Grows(t, u) /\ Stays(t, u) /\ SameRoots(t.parts, u.parts)
  BY <1>2, <1>3, <1>4, <1>6, ReplaceKeeps
<1> QED
  BY <1>7 DEF SameRoots

\* The partitions in another order.
LEMMA SortKeeps ==
    ASSUME NEW t, TableOK(t), NEW order \in [DOMAIN t.parts -> DOMAIN t.parts],
           \A i, j \in DOMAIN t.parts : i < j => order[i] # order[j],
           NEW u, u = [parts |-> [i \in DOMAIN t.parts |-> t.parts[order[i]]],
                       fs |-> t.fs, size |-> t.size]
    PROVE  TableOK(u) /\ Grows(t, u) /\ Stays(t, u) /\ Len(u.parts) = Len(t.parts)
<1> DEFINE N == Len(t.parts)
<1>1. t.parts \in Seq(Partition) /\ N \in Nat /\ DOMAIN t.parts = 1 .. N /\ DistinctIds(t.parts)
  BY DEF TableOK
<1>2. /\ IsTable(u) /\ u.fs = t.fs /\ u.size = t.size /\ DOMAIN u.parts = 1 .. N
      /\ \A i \in 1 .. N : u.parts[i] = t.parts[order[i]] /\ order[i] \in DOMAIN t.parts
  BY <1>1 DEF IsTable
<1>3. u.parts \in Seq(Partition) /\ Len(u.parts) = N
  <2>1. u.parts \in [1 .. N -> Partition]
    BY <1>1
  <2>2. u.parts \in Seq(Partition)
    BY <1>1, <2>1, SeqDef
  <2> QED
    BY <1>1, <2>1, <2>2, LenProperties
<1>4. \A i, j \in 1 .. N : order[i] = order[j] => i = j
  <2>1. ASSUME NEW i \in 1 .. N, NEW j \in 1 .. N, order[i] = order[j] PROVE i = j
    <3>1. i < j \/ j < i \/ i = j
      BY <1>1
    <3> QED
      BY <1>1, <2>1, <3>1
  <2> QED
    BY <2>1
<1>5. \A i \in DOMAIN t.parts : \E j \in DOMAIN u.parts : u.parts[j] = t.parts[i]
  <2>1. order \in Injection(1 .. N, 1 .. N)
    <3>1. order \in [1 .. N -> 1 .. N]
      BY <1>1
    <3> QED
      BY <1>4, <3>1, Zenon DEF Injection, IsInjective
  <2>2. IsFiniteSet(1 .. N) /\ Cardinality(1 .. N) = Cardinality(1 .. N)
    BY <1>1, FS_Interval
  <2>3. order \in Surjection(1 .. N, 1 .. N)
    BY <2>1, <2>2, FS_Injection
  <2>4. \A i \in 1 .. N : \E j \in 1 .. N : order[j] = i
    BY <2>3 DEF Surjection
  <2>5. \A i \in 1 .. N : \E j \in 1 .. N : u.parts[j] = t.parts[i]
    BY <1>2, <2>4
  <2> QED
    BY <1>1, <1>2, <2>5
<1>6. DistinctIds(u.parts)
  <2>1. ASSUME NEW i \in 1 .. N, NEW j \in 1 .. N, u.parts[i].id = u.parts[j].id PROVE i = j
    <3>1. order[i] = order[j]
      BY <1>1, <1>2, <2>1 DEF DistinctIds
    <3> QED
      BY <1>4, <3>1
  <2> DEFINE us == u.parts
  <2>2. DOMAIN us = 1 .. N /\ \A i, j \in 1 .. N : us[i].id = us[j].id => i = j
    BY <1>2, <2>1
  <2> HIDE DEF us
  <2>3. DistinctIds(us)
    BY <2>2, Zenon DEF DistinctIds
  <2> QED
    BY <2>3 DEF us
<1>7. t.fs \in [DOMAIN t.fs -> Volume] /\ IsFiniteSet(DOMAIN t.fs)
  BY DEF TableOK, MountsOK
<1>8. MountsOK(u)
  <2> SUFFICES ASSUME NEW m \in DOMAIN t.fs
               PROVE  \E j \in DOMAIN u.parts :
                        /\ u.parts[j].id = t.fs[m].on
                        /\ u.parts[j].kind = "plain" =>
                             t.fs[m].size = 0 /\ \A n \in DOMAIN t.fs : t.fs[n].on = t.fs[m].on => n = m
    BY <1>2, <1>7 DEF MountsOK
  <2>1. PICK i \in DOMAIN t.parts :
          /\ t.parts[i].id = t.fs[m].on
          /\ t.parts[i].kind = "plain" =>
               t.fs[m].size = 0 /\ \A n \in DOMAIN t.fs : t.fs[n].on = t.fs[m].on => n = m
    BY DEF TableOK, MountsOK
  <2>2. PICK j \in DOMAIN u.parts : u.parts[j] = t.parts[i]
    BY <1>5
  <2> QED
    BY <2>1, <2>2
<1>9. TableOK(u)
  BY <1>2, <1>3, <1>6, <1>8 DEF TableOK
<1>10. \A i \in DOMAIN t.parts : \E j \in DOMAIN u.parts : Enlarged(t.parts[i], u.parts[j])
  <2> SUFFICES ASSUME NEW i \in DOMAIN t.parts
               PROVE  \E j \in DOMAIN u.parts : Enlarged(t.parts[i], u.parts[j])
    OBVIOUS
  <2>1. PICK j \in DOMAIN u.parts : u.parts[j] = t.parts[i]
    BY <1>5
  <2>2. t.parts[i] \in Partition
    BY <1>1
  <2>3. t.parts[i].size \in Nat
    BY <2>2, PartitionSizes
  <2>4. Enlarged(t.parts[i], u.parts[j])
    BY <2>1, <2>3 DEF Enlarged
  <2> QED
    BY <2>4
<1>11. \A n \in DOMAIN t.fs : /\ n \in DOMAIN u.fs /\ u.fs[n] \in Volume
                               /\ u.fs[n].on = t.fs[n].on /\ u.fs[n].size >= t.fs[n].size
  BY <1>2, <1>7 DEF Volume
<1>12. Grows(t, u) /\ Stays(t, u)
  BY <1>3, <1>6, <1>10, <1>11, Keeps
<1> QED
  BY <1>3, <1>9, <1>12

-----------------------------------------------------------------------------
(* The steps both ways of making a table end with.                         *)

\* The fields of the current table are the variables.
LEMMA CurrentFields ==
    /\ Current.parts = parts /\ Current.fs = fs /\ Current.size = size
    /\ Current = [parts |-> parts, fs |-> fs, size |-> size]
  BY DEF Current

\* The same after a step.
LEMMA CurrentPrimed ==
    /\ Current'.parts = parts' /\ Current'.fs = fs' /\ Current'.size = size'
    /\ Current' = [parts |-> parts', fs |-> fs', size |-> size']
  BY DEF Current

\* A table is what the state becomes.
LEMMA Becomes ==
    ASSUME NEW u, IsTable(u), Become(u)
    PROVE  Current' = u
<1>1. u = [parts |-> u.parts, fs |-> u.fs, size |-> u.size]
  BY DEF IsTable
<1>2. u = [parts |-> parts', fs |-> fs', size |-> size']
  BY <1>1 DEF Become
<1> QED
  BY <1>2, CurrentPrimed

\* An edit that leaves one root leaves the layout what it needs.
LEMMA EditIInv ==
    ASSUME IInv, pc = "edit", UNCHANGED layoutVars, parts' \in Seq(Partition), size' \in Nat,
           OneRoot(parts')
    PROVE  IInv'
<1>1. target' = target /\ pc' = "edit" /\ idx' = idx /\ start' = start /\ idx = 0
  BY DEF layoutVars, IInv
<1>2. Len(parts') \in Nat
  OBVIOUS
<1> QED
  BY <1>1, <1>2 DEF IInv, TypeOK

\* Every step of the layout keeps its invariant.
LEMMA LayOutIInv == ASSUME IInv, LayOut PROVE IInv'
<1>2. CASE \E s \in ImageSizes : Begin(s)
  BY <1>2, BeginStep
<1>3. CASE SkipRoot
  BY <1>3, SkipRootStep
<1>4. CASE Place
  BY <1>4, PlaceStep
<1>5. CASE SortPartitions
  BY <1>5, SortStep
<1>6. CASE \E i \in DOMAIN parts : PlaceRoot(i)
  BY <1>6, PlaceRootStep
<1> QED
  BY <1>2, <1>3, <1>4, <1>5, <1>6 DEF LayOut

\* The size of the partition something is mounted on.
LEMMA ParentSize ==
    ASSUME NEW t, TableOK(t), NEW m \in DOMAIN t.fs
    PROVE  Parent(t, m).size \in Nat
<1>1. PICK i \in DOMAIN t.parts : Parent(t, m) = t.parts[i]
  BY ParentOf
<1>2. t.parts[i] \in Partition
  BY DEF TableOK
<1> QED
  BY <1>1, <1>2, PartitionSizes

\* A table that is the same has all it had.
LEMMA SameKeeps ==
    ASSUME NEW t, TableOK(t)
    PROVE  Grows(t, t) /\ Stays(t, t)
<1>1. \A m \in DOMAIN t.fs : VolumeSize(t, m) \in Int
  BY VolumeSizeInt
<1>2. \A m \in DOMAIN t.fs : Parent(t, m).size \in Nat
  BY ParentSize
<1> QED
  BY <1>1, <1>2 DEF Grows, Stays

\* Every step of the layout keeps the table a table and takes nothing away.
LEMMA LayOutKeeps ==
    ASSUME IInv, TableOK(Current), LayOut, fs' = fs
    PROVE  /\ TableOK(Current') /\ Grows(Current, Current') /\ Stays(Current, Current')
           /\ Len(parts') = Len(parts)
<1>1. /\ parts \in Seq(Partition) /\ size \in Nat /\ start \in Nat /\ target \in Nat
      /\ parts' \in Seq(Partition) /\ size' \in Nat
  BY LayOutIInv DEF IInv, TypeOK
<1>2. ASSUME NEW i \in DOMAIN parts
      PROVE  /\ FitTo(parts[i], parts[i].size) \in Nat
             /\ AlignUp(FitTo(parts[i], parts[i].size)) \in Nat
             /\ AlignUp(FitTo(parts[i], parts[i].size)) >= parts[i].size
             /\ parts[i].size \in Nat
  <2>1. parts[i] \in Partition
    BY <1>1
  <2>2. parts[i].size \in Nat
    BY <2>1, PartitionSizes
  <2>3. FitTo(parts[i], parts[i].size) \in Nat /\ FitTo(parts[i], parts[i].size) >= parts[i].size
    BY <2>1, <2>2, FitToGrows
  <2> DEFINE fit == FitTo(parts[i], parts[i].size)
  <2> HIDE DEF fit
  <2>4. AlignUp(fit) \in Nat /\ AlignUp(fit) >= fit
    BY <2>3, AlignToGrows, RelayoutAssumption DEF AlignUp, fit
  <2> QED
    BY <2>2, <2>3, <2>4 DEF fit
<1>3. CASE UNCHANGED <<parts, size>>
  <2>1. Current' = Current
    BY <1>3, CurrentFields, CurrentPrimed
  <2> QED
    BY <1>3, <2>1, SameKeeps
<1>4. CASE Place
  <2> DEFINE fit == AlignUp(FitTo(parts[idx], parts[idx].size))
  <2>1. idx \in DOMAIN parts /\ parts' = [parts EXCEPT ![idx] = Put(parts[idx], start, fit)] /\ size' = size
    BY <1>4 DEF Place
  <2>2. fit \in Nat /\ fit >= parts[idx].size
    BY <1>2, <2>1
  <2> HIDE DEF fit
  <2>3. Current' = [parts |-> [Current.parts EXCEPT ![idx] = Put(Current.parts[idx], start, fit)],
                    fs |-> Current.fs, size |-> size]
    BY <2>1, CurrentFields, CurrentPrimed
  <2>4. idx \in DOMAIN Current.parts /\ fit >= Current.parts[idx].size
    BY <2>1, <2>2, CurrentFields
  <2>5. /\ TableOK(Current') /\ Grows(Current, Current') /\ Stays(Current, Current')
        /\ Len(Current'.parts) = Len(Current.parts)
    BY <1>1, <2>2, <2>3, <2>4, PutKeeps
  <2> QED
    BY <2>5, CurrentFields, CurrentPrimed
<1>5. ASSUME NEW i \in DOMAIN parts, PlaceRoot(i)
      PROVE  /\ TableOK(Current') /\ Grows(Current, Current') /\ Stays(Current, Current')
             /\ Len(parts') = Len(parts)
  <2> DEFINE fit == AlignUp(FitTo(parts[i], parts[i].size))
             end == AlignUp(start + Footer + fit)
             disk == DiskSize(end)
             grown == IF GrowRoot THEN disk - start - Footer ELSE fit
  <2>1. parts' = [parts EXCEPT ![i] = Put(parts[i], start, grown)] /\ size' = disk
    BY <1>5 DEF PlaceRoot
  <2>2. fit \in Nat /\ fit >= parts[i].size /\ parts[i].size \in Nat
    BY <1>2
  <2>3. Footer \in Nat
    BY <1>1, HeaderFits
  <2> HIDE DEF fit
  <2>4. end \in Nat /\ end >= start + Footer + fit
    <3>1. start + Footer + fit \in Nat
      BY <1>1, <2>2, <2>3
    <3> QED
      BY <3>1, AlignToGrows, RelayoutAssumption DEF AlignUp
  <2> HIDE DEF end
  <2>5. disk \in Nat /\ disk >= end
    BY <1>1, <2>4 DEF DiskSize, Larger
  <2> HIDE DEF disk
  <2>6. grown \in Nat /\ grown >= parts[i].size
    BY <1>1, <2>2, <2>3, <2>4, <2>5
  <2> HIDE DEF grown
  <2>7. Current' = [parts |-> [Current.parts EXCEPT ![i] = Put(Current.parts[i], start, grown)],
                    fs |-> Current.fs, size |-> disk]
    BY <2>1, CurrentFields, CurrentPrimed
  <2>8. i \in DOMAIN Current.parts /\ grown >= Current.parts[i].size
    BY <2>6, CurrentFields
  <2>9. /\ TableOK(Current') /\ Grows(Current, Current') /\ Stays(Current, Current')
        /\ Len(Current'.parts) = Len(Current.parts)
    BY <1>1, <2>5, <2>6, <2>7, <2>8, PutKeeps
  <2> QED
    BY <2>9, CurrentFields, CurrentPrimed
<1>6. CASE SortPartitions
  <2>1. PICK order \in [DOMAIN parts -> DOMAIN parts] :
          Sorts(order) /\ parts' = [j \in DOMAIN parts |-> parts[order[j]]]
    BY <1>6 DEF SortPartitions
  <2>2. \A k, j \in DOMAIN parts : k < j => order[k] # order[j]
    BY <2>1 DEF Sorts
  <2>3. size' = size
    BY <1>6 DEF SortPartitions
  <2>4. Current' = [parts |-> [j \in DOMAIN Current.parts |-> Current.parts[order[j]]],
                    fs |-> Current.fs, size |-> Current.size]
    BY <2>1, <2>3, CurrentFields, CurrentPrimed
  <2>5. /\ order \in [DOMAIN Current.parts -> DOMAIN Current.parts]
        /\ \A k, j \in DOMAIN Current.parts : k < j => order[k] # order[j]
    BY <2>2, CurrentFields
  <2>6. /\ TableOK(Current') /\ Grows(Current, Current') /\ Stays(Current, Current')
        /\ Len(Current'.parts) = Len(Current.parts)
    BY <2>4, <2>5, SortKeeps
  <2> QED
    BY <2>6, CurrentFields, CurrentPrimed
<1>7. CASE (\E s \in ImageSizes : Begin(s)) \/ SkipRoot
  BY <1>3, <1>7 DEF Begin, SkipRoot
<1> QED
  BY <1>4, <1>5, <1>6, <1>7 DEF LayOut

\* What EnsureDirectorySizes has done: a mountpoint is still to be enlarged, or
\* it has room for its directories, or none lies on it.
DirsInv ==
    /\ dirs \subseteq DOMAIN fs
    /\ \A m \in DOMAIN fs :
         m \in dirs \/ RequiredOn(fs, m) = 0 \/ VolumeSize(Current, m) >= RequiredOn(fs, m)

\* Grouping the required directories by the file system that holds them.
LEMMA GroupStep ==
    ASSUME GroupDirectories, "/" \in DOMAIN fs, opts.required \in Required
    PROVE  DirsInv'
<1> DEFINE r == opts.required
<1>1. fs' = fs /\ opts' = opts /\ dirs' = {Owner(fs, d) : d \in DOMAIN r}
  BY DEF GroupDirectories, tableVars
<1>2. dirs' \subseteq DOMAIN fs'
  BY <1>1, OwnerMounted
<1>3. ASSUME NEW m \in DOMAIN fs, m \notin dirs' PROVE RequiredOn(fs, m) = 0
  <2>1. \A d \in DOMAIN opts.required : Owner(fs, d) # m
    BY <1>1, <1>3
  <2> QED
    BY <2>1, RequiredOnNat
<1>4. \A m : RequiredOn(fs, m)' = RequiredOn(fs, m)
  BY <1>1 DEF RequiredOn, Owner
<1> QED
  BY <1>1, <1>2, <1>3, <1>4 DEF DirsInv

\* Enlarging one mountpoint takes nothing from the others.
LEMMA EnlargeStep ==
    ASSUME IInv, TableOK(Current), pc = "edit", DirsInv, opts.required \in Required,
           NEW m \in dirs, EnlargeForDirs(m)
    PROVE  /\ IInv' /\ TableOK(Current') /\ Grows(Current, Current') /\ Stays(Current, Current')
           /\ DOMAIN fs' = DOMAIN fs /\ Len(parts') = Len(parts) /\ DirsInv'
<1> DEFINE s == RequiredOn(fs, m)
           u == Resize(Current, m, s)
<1>1. m \in DOMAIN Current.fs /\ s \in Nat
  BY RequiredOnNat, CurrentFields DEF DirsInv
<1>2. /\ TableOK(u) /\ Grows(Current, u) /\ Stays(Current, u) /\ VolumeSize(u, m) >= s
      /\ DOMAIN u.fs = DOMAIN Current.fs /\ SameRoots(Current.parts, u.parts)
  <2> HIDE DEF s
  <2> QED
    BY <1>1, ResizeGrows
<1>3. Become(u) /\ dirs' = dirs \ {m} /\ opts' = opts /\ UNCHANGED layoutVars
  BY DEF EnlargeForDirs
<1> HIDE DEF u
<1>4. IsTable(u)
  BY <1>2 DEF TableOK
<1>5. Current' = u
  BY <1>3, <1>4, Becomes
<1>6. parts' = u.parts /\ fs' = u.fs /\ size' = u.size
  BY <1>3 DEF Become
<1>7. OneRoot(parts)
  BY DEF IInv
<1>8. OneRoot(parts')
  BY <1>2, <1>6, <1>7, SameRootsOne, CurrentFields
<1>9. IInv'
  BY <1>2, <1>3, <1>6, <1>8, EditIInv DEF TableOK
<1>10. DOMAIN fs' = DOMAIN fs /\ Len(parts') = Len(parts)
  BY <1>2, <1>6, CurrentFields DEF SameRoots
<1>11. ASSUME NEW n PROVE RequiredOn(fs, n)' = RequiredOn(fs, n)
  <2>1. \A d : Owner(fs', d) = Owner(fs, d)
    BY <1>10 DEF Owner
  <2> QED
    BY <1>3, <2>1 DEF RequiredOn
<1>12. ASSUME NEW n \in DOMAIN fs, n \notin dirs'
       PROVE  RequiredOn(fs, n) = 0 \/ VolumeSize(u, n) >= RequiredOn(fs, n)
  <2>1. CASE n = m
    BY <1>2, <2>1
  <2>2. CASE n # m
    <3>1. RequiredOn(fs, n) = 0 \/ VolumeSize(Current, n) >= RequiredOn(fs, n)
      BY <1>3, <1>12, <2>2 DEF DirsInv
    <3>2. n \in DOMAIN Current.fs /\ n \in DOMAIN u.fs /\ VolumeSize(u, n) >= VolumeSize(Current, n)
      BY <1>2, CurrentFields DEF Grows
    <3>3. VolumeSize(u, n) \in Int /\ VolumeSize(Current, n) \in Int /\ RequiredOn(fs, n) \in Nat
      BY <1>2, <3>2, VolumeSizeInt, RequiredOnNat
    <3> QED
      BY <3>1, <3>2, <3>3
  <2> QED
    BY <2>1, <2>2
<1>13. dirs' \subseteq DOMAIN fs'
  BY <1>3, <1>10 DEF DirsInv
<1>14. DirsInv'
  <2> SUFFICES ASSUME NEW n \in DOMAIN fs', n \notin dirs'
               PROVE  RequiredOn(fs, n)' = 0 \/ VolumeSize(Current', n) >= RequiredOn(fs, n)'
    BY <1>13 DEF DirsInv
  <2> QED
    BY <1>5, <1>10, <1>11, <1>12
<1> QED
  BY <1>2, <1>5, <1>9, <1>10, <1>14

\* The layout takes nothing from the directories.
LEMMA LayOutStep ==
    ASSUME IInv, TableOK(Current), DirsInv, opts.required \in Required, DiskLayOut
    PROVE  /\ IInv' /\ TableOK(Current') /\ Grows(Current, Current') /\ Stays(Current, Current')
           /\ DOMAIN fs' = DOMAIN fs /\ Len(parts') = Len(parts) /\ DirsInv'
<1>1. LayOut /\ fs' = fs /\ opts' = opts /\ dirs' = dirs
  BY DEF DiskLayOut
<1>2. /\ IInv' /\ TableOK(Current') /\ Grows(Current, Current') /\ Stays(Current, Current')
      /\ Len(parts') = Len(parts)
  BY <1>1, LayOutIInv, LayOutKeeps
<1>3. \A n : RequiredOn(fs, n)' = RequiredOn(fs, n)
  BY <1>1 DEF RequiredOn, Owner
<1>4. ASSUME NEW n \in DOMAIN fs, n \notin dirs
      PROVE  RequiredOn(fs, n) = 0 \/ VolumeSize(Current', n) >= RequiredOn(fs, n)
  <2>1. RequiredOn(fs, n) = 0 \/ VolumeSize(Current, n) >= RequiredOn(fs, n)
    BY <1>4 DEF DirsInv
  <2>2. /\ n \in DOMAIN Current.fs /\ n \in DOMAIN Current'.fs
        /\ VolumeSize(Current', n) >= VolumeSize(Current, n)
    BY <1>2, CurrentFields DEF Grows
  <2>3. VolumeSize(Current', n) \in Int /\ VolumeSize(Current, n) \in Int /\ RequiredOn(fs, n) \in Nat
    BY <1>2, <2>2, VolumeSizeInt, RequiredOnNat
  <2> QED
    BY <2>1, <2>2, <2>3
<1>5. DirsInv'
  <2> SUFFICES ASSUME NEW n \in DOMAIN fs', n \notin dirs'
               PROVE  RequiredOn(fs, n)' = 0 \/ VolumeSize(Current', n) >= RequiredOn(fs, n)'
    BY <1>1 DEF DirsInv
  <2> QED
    BY <1>1, <1>3, <1>4
<1> QED
  BY <1>1, <1>2, <1>5

\* In the finished table every directory has its room: also the mountpoints no
\* directory lies on are not below zero.
LEMMA DirsFit ==
    ASSUME IInv, TableOK(Current), DirsInv, dirs = {}, pc = "done"
    PROVE  DirectoriesFit
<1> SUFFICES ASSUME NEW m \in DOMAIN fs, RequiredOn(fs, m) = 0
             PROVE  VolumeSize(Current, m) >= 0
  BY DEF DirectoriesFit, DirsInv
<1>1. m \in DOMAIN Current.fs
  BY CurrentFields
<1>2. PICK i \in DOMAIN parts : Parent(Current, m) = parts[i]
  BY <1>1, ParentOf, CurrentFields
<1>3. parts[i] \in Partition
  BY DEF IInv, TypeOK
<1>4. parts[i].size \in Nat /\ parts[i].content \in Nat /\ parts[i].luks \in BOOLEAN
  BY <1>3 DEF Partition
<1>5. Needs(parts[i]) <= parts[i].size
  BY DEF IInv, Sound, Good
<1>6. fs[m] \in Volume
  BY <1>1, CurrentFields DEF TableOK, MountsOK
<1>7. Current.fs[m].size \in Nat
  BY <1>6, CurrentFields DEF Volume
<1> QED
  BY <1>2, <1>4, <1>5, <1>7, RelayoutAssumption DEF VolumeSize, Needs

-----------------------------------------------------------------------------
(* Two volumes enlarged one after the other: the order does not matter.   *)

\* The sum of nothing.
LEMMA SumsEmpty == ASSUME NEW S, NEW g, NEW it, Sums(it, g, S) PROVE it[{}] = 0
<1> DEFINE Body(u) == IF u = {} THEN 0 ELSE g[Pick(u)] + it[u \ {Pick(u)}]
<1>1. it = [u \in SUBSET S |-> Body(u)]
  BY DEF Sums
<1>2. Body({}) = 0 /\ {} \in SUBSET S
  OBVIOUS
<1> HIDE DEF Body
<1> QED
  BY <1>1, <1>2

\* Sums of functions that differ in one place differ by that.
LEMMA SumsReplace ==
    ASSUME NEW S, IsFiniteSet(S), NEW g, NEW h, NEW k \in S,
           \A x \in S : g[x] \in Nat /\ h[x] \in Nat, \A x \in S : x # k => g[x] = h[x],
           NEW it, Sums(it, g, S), NEW jt, Sums(jt, h, S)
    PROVE  jt[S] + g[k] = it[S] + h[k]
<1>0. it[{}] = 0 /\ jt[{}] = 0
  BY SumsEmpty
<1> DEFINE d(s) == IF k \in s THEN g[k] ELSE 0
           e(s) == IF k \in s THEN h[k] ELSE 0
           Differ(s) == it[s] \in Nat /\ jt[s] \in Nat /\ jt[s] + d(s) = it[s] + e(s)
           T == {s \in SUBSET S : ~ Differ(s)}
<1>1. T \subseteq SUBSET S
  OBVIOUS
<1>2. T = {}
  <2> SUFFICES ASSUME T # {} PROVE FALSE
    OBVIOUS
  <2> HIDE DEF T
  <2>1. PICK x \in T : \A y \in T : y \subseteq x => y = x
    BY <1>1, SmallestSubset
  <2>2. x \in SUBSET S /\ ~ Differ(x)
    BY <2>1 DEF T
  <2>3. x # {}
    <3>1. CASE x = {}
      <4>1. it[x] = 0 /\ jt[x] = 0
        BY <1>0, <3>1
      <4>2. d(x) = 0 /\ e(x) = 0
        BY <3>1
      <4> QED
        BY <2>2, <4>1, <4>2
    <3> QED
      BY <3>1
  <2> DEFINE a == Pick(x)
             y == x \ {a}
  <2>4. a \in x /\ y \in SUBSET S /\ it[x] = g[a] + it[y] /\ jt[x] = h[a] + jt[y]
    BY <2>2, <2>3, SumsStep
  <2> HIDE DEF a
  <2>5. Differ(y)
    BY <2>1, <2>2, <2>4 DEF T
  <2>6. g[a] \in Nat /\ h[a] \in Nat /\ g[k] \in Nat /\ h[k] \in Nat
    BY <2>2, <2>4
  <2>7. CASE a = k
    <3>1. d(x) = g[k] /\ e(x) = h[k] /\ d(y) = 0 /\ e(y) = 0
      BY <2>4, <2>7
    <3> HIDE DEF d, e, y
    <3> QED
      BY <2>2, <2>4, <2>5, <2>6, <2>7, <3>1
  <2>8. CASE a # k
    <3>1. d(x) = d(y) /\ e(x) = e(y) /\ g[a] = h[a] /\ d(y) \in Nat /\ e(y) \in Nat
      BY <2>2, <2>4, <2>6, <2>8
    <3> HIDE DEF d, e, y
    <3> QED
      BY <2>2, <2>4, <2>5, <2>6, <3>1
  <2> QED
    BY <2>7, <2>8
<1>3. Differ(S)
  BY <1>2
<1> QED
  BY <1>3

\* The same of the sums of the model: a term that grows makes the sum grow, and no term
\* is larger than the sum.
LEMMA SumGrows ==
    ASSUME NEW S, IsFiniteSet(S), NEW g, NEW h, NEW k \in S,
           \A x \in S : g[x] \in Nat /\ h[x] \in Nat, \A x \in S : x # k => g[x] = h[x]
    PROVE  SumFunctionOnSet(h, S) + g[k] = SumFunctionOnSet(g, S) + h[k]
<1> DEFINE it0 == CHOOSE it : Sums(it, g, S)
           jt0 == CHOOSE it : Sums(it, h, S)
<1>1. SumFunctionOnSet(g, S) = it0[S] /\ SumFunctionOnSet(h, S) = jt0[S]
  BY DEF SumFunctionOnSet, FoldFunctionOnSet, MapThenFoldSet, Sums, Pick
<1>2. Sums(it0, g, S) /\ Sums(jt0, h, S)
  BY SumsExist
<1> HIDE DEF it0, jt0
<1> QED
  BY <1>1, <1>2, SumsReplace

\* A sum of sizes is no less than each of them.
LEMMA TermBelow ==
    ASSUME NEW S, IsFiniteSet(S), NEW g, NEW k \in S, \A x \in S : g[x] \in Nat
    PROVE  SumFunctionOnSet(g, S) >= g[k]
<1> DEFINE h == [x \in S |-> IF x = k THEN 0 ELSE g[x]]
<1>1. \A x \in S : h[x] \in Nat /\ (x # k => g[x] = h[x])
  OBVIOUS
<1>2. h[k] = 0
  OBVIOUS
<1> HIDE DEF h
<1>3. SumFunctionOnSet(h, S) + g[k] = SumFunctionOnSet(g, S) + h[k]
  BY <1>1, SumGrows
<1>4. SumFunctionOnSet(h, S) \in Nat /\ SumFunctionOnSet(g, S) \in Nat
  BY <1>1, SumNat
<1> QED
  BY <1>2, <1>3, <1>4

-----------------------------------------------------------------------------

\* A volume that grows makes the content of its partition grow, and is part of it.
LEMMA ContentsGrow ==
    ASSUME NEW f, IsFiniteSet(DOMAIN f), f \in [DOMAIN f -> Volume], NEW m \in DOMAIN f,
           NEW z \in Nat, z >= f[m].size, NEW h, h = [f EXCEPT ![m].size = z]
    PROVE  /\ Contents(h, f[m].on) >= Contents(f, f[m].on)
           /\ Contents(h, f[m].on) >= z
<1> DEFINE id == f[m].on
           S == {n \in DOMAIN f : f[n].on = id}
           T == {n \in DOMAIN h : h[n].on = id}
           g == [n \in S |-> f[n].size]
           k == [n \in T |-> h[n].size]
<1>1. /\ DOMAIN h = DOMAIN f /\ \A n \in DOMAIN f : h[n].on = f[n].on /\ (n # m => h[n] = f[n])
      /\ h[m].size = z /\ h \in [DOMAIN h -> Volume]
  BY DEF Volume
<1>2. T = S /\ m \in S
  BY <1>1
<1>3. Contents(f, id) = SumFunctionOnSet(g, S) /\ Contents(h, id) = SumFunctionOnSet(k, S)
  BY <1>2 DEF Contents, SumFunction
<1>4. IsFiniteSet(S)
  BY FS_Subset
<1>5. \A n \in S : g[n] \in Nat /\ k[n] \in Nat /\ (n # m => g[n] = k[n])
  BY <1>1, <1>2 DEF Volume
<1>6. k[m] = z /\ g[m] = f[m].size /\ g[m] \in Nat
  BY <1>1, <1>2, <1>5
<1> HIDE DEF g, k, S, T
<1>7. SumFunctionOnSet(k, S) + g[m] = SumFunctionOnSet(g, S) + k[m]
  BY <1>2, <1>4, <1>5, SumGrows
<1>8. SumFunctionOnSet(g, S) \in Nat /\ SumFunctionOnSet(k, S) \in Nat
  BY <1>4, <1>5, SumNat
<1>9. SumFunctionOnSet(k, S) >= k[m]
  BY <1>2, <1>4, <1>5, TermBelow
<1> QED
  BY <1>3, <1>6, <1>7, <1>8, <1>9

\* The content of a partition depends on the volumes on it alone.
LEMMA ContentsSame ==
    ASSUME NEW f, NEW h, DOMAIN h = DOMAIN f, NEW id,
           \A n \in DOMAIN f : h[n].on = f[n].on /\ (f[n].on = id => h[n] = f[n])
    PROVE  Contents(h, id) = Contents(f, id)
<1> DEFINE S == {n \in DOMAIN f : f[n].on = id}
           T == {n \in DOMAIN h : h[n].on = id}
<1>1. T = S
  OBVIOUS
<1>2. [n \in S |-> f[n].size] = [n \in T |-> h[n].size]
  BY <1>1
<1> QED
  BY <1>2 DEF Contents

\* The size of a table of which one partition grows.
LEMMA SumSizesGrow ==
    ASSUME NEW ps \in Seq(Partition), NEW i \in DOMAIN ps, NEW p \in Partition, p.size >= ps[i].size,
           NEW qs, qs = [ps EXCEPT ![i] = p]
    PROVE  /\ SumSizes(ps) \in Nat /\ SumSizes(qs) \in Nat /\ SumSizes(qs) >= p.size
           /\ SumSizes(qs) + ps[i].size = SumSizes(ps) + p.size
<1> DEFINE S == DOMAIN ps
           g == [n \in S |-> ps[n].size]
           h == [n \in S |-> qs[n].size]
<1>1. qs \in Seq(Partition) /\ DOMAIN qs = S /\ qs[i] = p /\ \A n \in S : n # i => qs[n] = ps[n]
  BY ExceptSeq
<1>2. IsFiniteSet(S)
  <2>1. S = 1 .. Len(ps) /\ Len(ps) \in Nat
    OBVIOUS
  <2> QED
    BY <2>1, FS_Interval
<1>3. \A n \in S : ps[n].size \in Nat /\ qs[n].size \in Nat
  <2> SUFFICES ASSUME NEW n \in S PROVE ps[n].size \in Nat /\ qs[n].size \in Nat
    OBVIOUS
  <2>1. ps[n] \in Partition /\ qs[n] \in Partition
    BY <1>1
  <2> QED
    BY <2>1, PartitionSizes
<1>4. DOMAIN g = S /\ DOMAIN h = S
  OBVIOUS
<1>5. SumSizes(ps) = SumFunctionOnSet(g, S) /\ SumSizes(qs) = SumFunctionOnSet(h, S)
  BY <1>1, <1>4 DEF SumSizes, SumFunction
<1>6. \A n \in S : g[n] \in Nat /\ h[n] \in Nat /\ (n # i => g[n] = h[n])
  BY <1>1, <1>3
<1>7. g[i] = ps[i].size /\ h[i] = p.size
  BY <1>1
<1> HIDE DEF g, h, S
<1>8. i \in S
  BY DEF S
<1>9. SumFunctionOnSet(h, S) + g[i] = SumFunctionOnSet(g, S) + h[i]
  BY <1>2, <1>6, <1>8, SumGrows
<1>10. SumFunctionOnSet(h, S) >= h[i]
  BY <1>2, <1>6, <1>8, TermBelow
<1> QED
  BY <1>1, <1>5, <1>7, <1>9, <1>10, SumSizesNat

-----------------------------------------------------------------------------

\* The size of a volume of size v on a partition of a kind that has to be s at least.
VolumeFor(kind, v, s) ==
    IF kind = "plain" \/ s <= v THEN v ELSE IF kind = "lvm" THEN AlignTo(s, Extent) ELSE s

\* Partition p, fitted around volumes of size c of which one has to be s.
NeedOf(p, c, s) ==
    Larger(s, c + (IF p.kind = "lvm" THEN VGMetadata ELSE 0)) + (IF p.luks THEN LUKSMetadata ELSE 0)

Fitted(p, c, s) == [p EXCEPT !.content = c, !.size = Larger(p.size, NeedOf(p, c, s))]

\* Table u is t after its partitions have grown, or not.
Sized(t, u) ==
    /\ SumSizes(t.parts) \in Nat /\ SumSizes(u.parts) \in Nat /\ SumSizes(u.parts) >= SumSizes(t.parts)
    /\ u.size = IF SumSizes(u.parts) = SumSizes(t.parts) THEN t.size ELSE Larger(t.size, SumSizes(u.parts))

\* resizeEntityBranch, by what it does to the volume, the partition and the table.
LEMMA ResizeIs ==
    ASSUME NEW t, TableOK(t), NEW m \in DOMAIN t.fs, NEW s \in Nat, NEW u, u = Resize(t, m, s),
           NEW i \in DOMAIN t.parts, t.parts[i].id = t.fs[m].on
    PROVE  LET q == t.parts[i]
           IN  /\ u.fs = [t.fs EXCEPT ![m].size = VolumeFor(q.kind, t.fs[m].size, s)]
               /\ VolumeFor(q.kind, t.fs[m].size, s) \in Nat /\ VolumeFor(q.kind, t.fs[m].size, s) >= t.fs[m].size
               /\ q.kind # "plain" => VolumeFor(q.kind, t.fs[m].size, s) >= s
               /\ Contents(u.fs, q.id) \in Nat
               /\ (q.kind # "plain" /\ s <= t.fs[m].size) => u = t
               /\ ~ (q.kind # "plain" /\ s <= t.fs[m].size) =>
                    u.parts = [t.parts EXCEPT ![i] = Fitted(q, Contents(u.fs, q.id), s)]
               /\ Sized(t, u)
<1> USE RelayoutAssumption
<1>1. /\ Index(t.parts, t.fs[m].on) = i /\ Parent(t, m) = t.parts[i]
      /\ t.parts[i].kind = "plain" =>
             t.fs[m].size = 0 /\ \A n \in DOMAIN t.fs : t.fs[n].on = t.fs[m].on => n = m
  <2>1. Index(t.parts, t.fs[m].on) = i
    BY IndexOf DEF TableOK
  <2> QED
    BY <2>1, ParentOf
<1> DEFINE q == t.parts[i]
           f == EnsureVolume(t, m, s)
           v == VolumeFor(q.kind, t.fs[m].size, s)
           enough == q.kind # "plain" /\ s <= t.fs[m].size
           content == Contents(f, q.id)
           p == [q EXCEPT !.content = content]
           need == NeedOf(q, content, s)
           larger == [p EXCEPT !.size = need]
           ps == [t.parts EXCEPT ![i] = larger]
<1>2. t.parts \in Seq(Partition) /\ q \in Partition /\ t.size \in Nat /\ IsTable(t)
      /\ IsFiniteSet(DOMAIN t.fs) /\ t.fs \in [DOMAIN t.fs -> Volume]
  BY DEF TableOK, MountsOK
<1>3. /\ q.size \in Nat /\ q.kind \in {"plain", "lvm", "btrfs"} /\ q.luks \in BOOLEAN
      /\ q.root \in BOOLEAN /\ q.id \in Nat /\ q.start \in Nat
  BY <1>2 DEF Partition, Kinds
<1>4. /\ f \in [DOMAIN t.fs -> Volume]
      /\ \A n \in DOMAIN t.fs : f[n].on = t.fs[n].on /\ (n # m => f[n] = t.fs[n])
      /\ q.kind = "plain" => f = t.fs
      /\ q.kind # "plain" => f[m].size >= s
  BY <1>1, EnsureVolumeGrows
<1>a. t.fs[m] \in Volume /\ t.fs[m].size \in Nat
  BY <1>2 DEF Volume
<1>b. AlignTo(s, Extent) \in Nat /\ AlignTo(s, Extent) >= s
  BY AlignToGrows
<1>c. v \in Nat /\ v >= t.fs[m].size /\ (q.kind # "plain" => v >= s)
  BY <1>a, <1>b DEF VolumeFor
<1>d. ~ enough => f = [t.fs EXCEPT ![m].size = v]
  <2>1. f = CASE q.kind = "plain" -> t.fs
              [] q.kind = "lvm" -> [t.fs EXCEPT ![m].size = AlignTo(s, Extent)]
              [] q.kind = "btrfs" -> [t.fs EXCEPT ![m].size = s]
    BY <1>1 DEF EnsureVolume
  <2>2. CASE q.kind = "plain"
    <3>1. f = t.fs /\ v = t.fs[m].size
      BY <2>1, <2>2 DEF VolumeFor
    <3>2. t.fs = [t.fs EXCEPT ![m].size = t.fs[m].size]
      BY <1>2 DEF Volume
    <3> QED
      BY <3>1, <3>2
  <2>3. CASE q.kind = "lvm"
    BY <2>1, <2>3 DEF VolumeFor
  <2>4. CASE q.kind = "btrfs"
    BY <2>1, <2>4 DEF VolumeFor
  <2> QED
    BY <1>3, <2>2, <2>3, <2>4
<1>e. enough => t.fs = [t.fs EXCEPT ![m].size = v]
  BY <1>2 DEF VolumeFor, Volume
<1> HIDE DEF f, q, v
<1>5. content \in Nat
  <2>1. DOMAIN f = DOMAIN t.fs
    BY <1>4
  <2>2. f \in [DOMAIN f -> Volume] /\ IsFiniteSet(DOMAIN f)
    BY <1>2, <1>4, <2>1
  <2> QED
    BY <2>2, ContentsNat
<1>f. Contents(t.fs, q.id) \in Nat
  BY <1>2, ContentsNat
<1> HIDE DEF content
<1>6. need \in Nat
  BY <1>3, <1>5 DEF NeedOf, Larger
<1> HIDE DEF need
<1>p. q.kind = "plain" => content = 0
  <2>1. q.kind = "plain" => \A n \in DOMAIN t.fs : t.fs[n].on = q.id => t.fs[n].size = 0
    BY <1>1 DEF q
  <2> QED
    BY <1>2, <1>4, <2>1, ContentsNat DEF content
<1>7. /\ p \in Partition /\ p.size = q.size /\ p.id = q.id /\ p.kind = q.kind /\ p.luks = q.luks
  BY <1>2, <1>3, <1>5, <1>p DEF Partition
<1>8. larger \in Partition /\ larger.size = need
  BY <1>6, <1>7 DEF Partition
<1>9. Resize(t, m, s) =
        CASE p.kind # "plain" /\ s <= t.fs[m].size -> t
          [] OTHER -> IF need <= p.size
                      THEN [t EXCEPT !.fs = f, !.parts[i] = p]
                      ELSE [parts |-> ps, fs |-> f,
                            size |-> Larger(t.size, Larger(need, SumSizes(ps)))]
  BY <1>1, <1>7 DEF Resize, f, content, q, need, NeedOf
<1>10. Fitted(q, content, s) = IF need <= q.size THEN p ELSE larger
  <2>1. CASE need <= q.size
    <3>1. Larger(q.size, need) = q.size
      BY <1>3, <1>6, <2>1 DEF Larger
    <3>2. Fitted(q, content, s) = [q EXCEPT !.content = content, !.size = q.size]
      BY <3>1 DEF Fitted, need
    <3>3. [q EXCEPT !.content = content, !.size = q.size] = p
      BY <1>2 DEF Partition
    <3> QED
      BY <2>1, <3>2, <3>3
  <2>2. CASE ~ (need <= q.size)
    <3>1. Larger(q.size, need) = need
      BY <1>3, <1>6, <2>2 DEF Larger
    <3>2. Fitted(q, content, s) = [q EXCEPT !.content = content, !.size = need]
      BY <3>1 DEF Fitted, need
    <3>3. [q EXCEPT !.content = content, !.size = need] = larger
      BY <1>2 DEF Partition
    <3> QED
      BY <2>2, <3>2, <3>3
  <2> QED
    BY <2>1, <2>2
<1> HIDE DEF p, larger
<1> DEFINE Claim ==
             /\ u.fs = [t.fs EXCEPT ![m].size = v] /\ Contents(u.fs, q.id) \in Nat
             /\ enough => u = t
             /\ ~ enough => u.parts = [t.parts EXCEPT ![i] = Fitted(q, Contents(u.fs, q.id), s)]
             /\ Sized(t, u)
<1>11. ASSUME enough PROVE Claim
  <2>1. u = t
    BY <1>7, <1>9, <1>11
  <2>2. Sized(t, t)
    <3>1. SumSizes(t.parts) \in Nat
      BY <1>2, SumSizesNat
    <3> QED
      BY <3>1 DEF Sized
  <2> QED
    BY <1>e, <1>f, <1>11, <2>1, <2>2
<1>12. ASSUME ~ enough, need <= q.size PROVE Claim
  <2>1. u = [t EXCEPT !.fs = f, !.parts[i] = p]
    BY <1>7, <1>9, <1>12
  <2>2. u.parts = [t.parts EXCEPT ![i] = p] /\ u.fs = f /\ u.size = t.size
    BY <1>2, <2>1 DEF IsTable
  <2>3. p.size >= t.parts[i].size
    BY <1>3, <1>7 DEF q
  <2>4. /\ SumSizes(t.parts) \in Nat /\ SumSizes(u.parts) \in Nat
        /\ SumSizes(u.parts) + t.parts[i].size = SumSizes(t.parts) + p.size
    BY <1>2, <1>7, <2>2, <2>3, SumSizesGrow
  <2>5. SumSizes(u.parts) = SumSizes(t.parts)
    BY <1>3, <1>7, <2>4 DEF q
  <2>6. Sized(t, u)
    BY <2>2, <2>4, <2>5 DEF Sized
  <2>7. u.parts = [t.parts EXCEPT ![i] = Fitted(q, content, s)]
    BY <1>10, <1>12, <2>2
  <2> QED
    BY <1>5, <1>12, <1>d, <2>2, <2>6, <2>7 DEF content
<1>13. ASSUME ~ enough, ~ (need <= q.size) PROVE Claim
  <2>1. u = [parts |-> ps, fs |-> f, size |-> Larger(t.size, Larger(need, SumSizes(ps)))]
    BY <1>7, <1>9, <1>13
  <2>2. u.parts = ps /\ u.fs = f /\ u.size = Larger(t.size, Larger(need, SumSizes(ps)))
    BY <2>1
  <2>3. larger.size >= t.parts[i].size /\ larger.size > t.parts[i].size
    BY <1>3, <1>6, <1>8, <1>13 DEF q
  <2>4. /\ SumSizes(t.parts) \in Nat /\ SumSizes(ps) \in Nat /\ SumSizes(ps) >= need
        /\ SumSizes(ps) + t.parts[i].size = SumSizes(t.parts) + need
    BY <1>2, <1>8, <2>3, SumSizesGrow
  <2>5. SumSizes(ps) > SumSizes(t.parts)
    BY <1>3, <1>6, <1>8, <2>3, <2>4 DEF q
  <2>6. u.size = Larger(t.size, SumSizes(ps))
    BY <1>2, <1>6, <2>2, <2>4 DEF Larger
  <2>7. Sized(t, u)
    BY <2>2, <2>4, <2>5, <2>6 DEF Sized
  <2>8. u.parts = [t.parts EXCEPT ![i] = Fitted(q, content, s)]
    BY <1>10, <1>13, <2>2
  <2> QED
    BY <1>5, <1>13, <1>d, <2>2, <2>7, <2>8 DEF content
<1>14. Claim
  BY <1>11, <1>12, <1>13
<1> HIDE DEF enough
<1> QED
  BY <1>c, <1>14 DEF q, v, enough

\* A partition around volumes that are large enough is fitted to them alone, and to the
\* last content alone when it is fitted twice.
LEMMA FittedTwice ==
    ASSUME NEW p \in Partition, NEW a \in Nat, NEW b \in Nat, NEW c \in Nat, NEW d \in Nat,
           c >= a, d >= b, d >= c
    PROVE  /\ Fitted(p, c, a) = Fitted(p, c, 0)
           /\ Fitted(Fitted(p, c, a), d, b) = Fitted(p, d, 0)
<1> USE RelayoutAssumption
<1> DEFINE vg == IF p.kind = "lvm" THEN VGMetadata ELSE 0
           luks == IF p.luks THEN LUKSMetadata ELSE 0
           q == Fitted(p, c, a)
<1>1. vg \in Nat /\ luks \in Nat /\ p.size \in Nat
  BY DEF Partition
<1>2. NeedOf(p, c, a) = c + vg + luks /\ NeedOf(p, c, 0) = c + vg + luks /\ NeedOf(p, d, 0) = d + vg + luks
  BY <1>1 DEF NeedOf, Larger
<1>3. q.kind = p.kind /\ q.luks = p.luks /\ q.size = Larger(p.size, c + vg + luks)
  BY <1>2 DEF Fitted, Partition
<1>4. NeedOf(q, d, b) = d + vg + luks
  BY <1>1, <1>3 DEF NeedOf, Larger
<1> HIDE DEF vg, luks
<1>5. Fitted(p, c, a) = Fitted(p, c, 0)
  <2>1. NeedOf(p, c, a) = NeedOf(p, c, 0)
    BY <1>2
  <2> QED
    BY <2>1, Zenon DEF Fitted
<1>6. Larger(q.size, d + vg + luks) = Larger(p.size, d + vg + luks)
  BY <1>1, <1>3 DEF Larger
<1>7. Fitted(q, d, b) = [q EXCEPT !.content = d, !.size = Larger(p.size, d + vg + luks)]
  BY <1>4, <1>6 DEF Fitted
<1>8. q = [p EXCEPT !.content = c, !.size = Larger(p.size, c + vg + luks)]
  BY <1>2 DEF Fitted
<1> HIDE DEF q
<1>9. ASSUME NEW x, NEW y PROVE [q EXCEPT !.content = x, !.size = y] = [p EXCEPT !.content = x, !.size = y]
  <2>1. DOMAIN q = DOMAIN p /\ \A k \in DOMAIN p : k \notin {"content", "size"} => q[k] = p[k]
    BY <1>8
  <2> DEFINE r == [q EXCEPT !.content = x, !.size = y]
             o == [p EXCEPT !.content = x, !.size = y]
  <2>2. DOMAIN r = DOMAIN p /\ DOMAIN o = DOMAIN p
    BY <2>1
  <2>3. r = [k \in DOMAIN p |-> r[k]] /\ o = [k \in DOMAIN p |-> o[k]]
    BY <2>1
  <2>4. \A k \in DOMAIN p : r[k] = o[k]
    BY <2>1
  <2> HIDE DEF r, o
  <2>5. r = o
    BY <2>3, <2>4
  <2> QED
    BY <2>5 DEF r, o
<1>10. Fitted(p, d, 0) = [p EXCEPT !.content = d, !.size = Larger(p.size, d + vg + luks)]
  BY <1>2 DEF Fitted
<1> QED
  BY <1>5, <1>7, <1>9, <1>10 DEF q

\* What a table t is, in pieces, after one resize of the volume at m, which is on partition i.
OneResized(t, m, s, u, i) ==
    /\ TableOK(u) /\ DOMAIN u.fs = DOMAIN t.fs /\ DOMAIN u.parts = DOMAIN t.parts
    /\ Len(u.parts) = Len(t.parts)
    /\ \A n \in DOMAIN t.fs : u.fs[n].on = t.fs[n].on /\ (n # m => u.fs[n] = t.fs[n])
    /\ u.fs[m] = [t.fs[m] EXCEPT !.size = VolumeFor(t.parts[i].kind, t.fs[m].size, s)]
    /\ \A k \in DOMAIN t.parts \ {i} : u.parts[k] = t.parts[k]
    /\ u.parts[i].id = t.parts[i].id /\ u.parts[i].kind = t.parts[i].kind
    /\ u.parts[i] = IF t.parts[i].kind # "plain" /\ s <= t.fs[m].size THEN t.parts[i]
                    ELSE Fitted(t.parts[i], Contents(u.fs, t.parts[i].id), s)
    /\ (t.parts[i].kind # "plain" /\ s <= t.fs[m].size) => u = t
    /\ Contents(u.fs, t.parts[i].id) \in Nat
    /\ t.parts[i].kind # "plain" => Contents(u.fs, t.parts[i].id) >= s
    /\ Contents(u.fs, t.parts[i].id) >= Contents(t.fs, t.parts[i].id)
    /\ Sized(t, u)

\* resizeEntityBranch does that and no more.
LEMMA ResizeView ==
    ASSUME NEW t, TableOK(t), NEW m \in DOMAIN t.fs, NEW s \in Nat, NEW u, u = Resize(t, m, s),
           NEW i \in DOMAIN t.parts, t.parts[i].id = t.fs[m].on
    PROVE  OneResized(t, m, s, u, i)
<1> DEFINE q == t.parts[i]
           v == VolumeFor(q.kind, t.fs[m].size, s)
           enough == q.kind # "plain" /\ s <= t.fs[m].size
<1>1. /\ u.fs = [t.fs EXCEPT ![m].size = v] /\ v \in Nat /\ v >= t.fs[m].size
      /\ q.kind # "plain" => v >= s
      /\ Contents(u.fs, q.id) \in Nat /\ (enough => u = t)
      /\ ~ enough => u.parts = [t.parts EXCEPT ![i] = Fitted(q, Contents(u.fs, q.id), s)]
      /\ Sized(t, u)
  BY ResizeIs
<1>2. TableOK(u) /\ DOMAIN u.fs = DOMAIN t.fs /\ DOMAIN u.parts = DOMAIN t.parts
      /\ Len(u.parts) = Len(t.parts)
  BY ResizeGrows DEF SameRoots
<1>3. t.parts \in Seq(Partition) /\ q \in Partition /\ t.fs \in [DOMAIN t.fs -> Volume] /\ IsFiniteSet(DOMAIN t.fs)
  BY DEF TableOK, MountsOK
<1> HIDE DEF v
<1>4. /\ \A n \in DOMAIN t.fs : u.fs[n].on = t.fs[n].on /\ (n # m => u.fs[n] = t.fs[n])
      /\ u.fs[m] = [t.fs[m] EXCEPT !.size = v]
  BY <1>1, <1>3 DEF Volume
<1>5. Contents(u.fs, q.id) >= Contents(t.fs, q.id) /\ Contents(u.fs, q.id) >= v
  <2>1. u.fs = [t.fs EXCEPT ![m].size = v] /\ v \in Nat /\ v >= t.fs[m].size
    BY <1>1
  <2>2. Contents(u.fs, t.fs[m].on) >= Contents(t.fs, t.fs[m].on) /\ Contents(u.fs, t.fs[m].on) >= v
    BY <1>3, <2>1, ContentsGrow
  <2> QED
    BY <2>2
<1>6. v \in Nat /\ (q.kind # "plain" => v >= s)
  BY <1>1
<1>7. q.kind # "plain" => Contents(u.fs, q.id) >= s
  BY <1>1, <1>5, <1>6
<1>8. ASSUME NEW c, NEW z PROVE Fitted(q, c, z).id = q.id /\ Fitted(q, c, z).kind = q.kind
  BY <1>3 DEF Fitted, Partition
<1> HIDE DEF q
<1>9. /\ \A k \in DOMAIN t.parts \ {i} : u.parts[k] = t.parts[k]
      /\ u.parts[i] = IF enough THEN q ELSE Fitted(q, Contents(u.fs, q.id), s)
  <2>1. CASE enough
    BY <1>1, <2>1 DEF q
  <2>2. CASE ~ enough
    <3>1. u.parts = [t.parts EXCEPT ![i] = Fitted(q, Contents(u.fs, q.id), s)]
      BY <1>1, <2>2
    <3> QED
      BY <2>2, <3>1
  <2> QED
    BY <2>1, <2>2
<1>10. u.parts[i].id = q.id /\ u.parts[i].kind = q.kind
  BY <1>8, <1>9
<1> QED
  BY <1>1, <1>2, <1>4, <1>5, <1>7, <1>9, <1>10 DEF q, v, OneResized

\* What a table t is after the volumes at m and n, on the partitions i and j, were resized:
\* a description that does not tell which was resized first.
BothResized(t, m, a, i, n, b, j, v) ==
    LET p == t.parts[i]
        q == t.parts[j]
        first == p.kind # "plain" /\ a <= t.fs[m].size
        second == q.kind # "plain" /\ b <= t.fs[n].size
    IN  /\ TableOK(v) /\ DOMAIN v.fs = DOMAIN t.fs
        /\ DOMAIN v.parts = DOMAIN t.parts /\ Len(v.parts) = Len(t.parts)
        /\ \A k \in DOMAIN t.fs \ {m, n} : v.fs[k] = t.fs[k]
        /\ v.fs[m] = [t.fs[m] EXCEPT !.size = VolumeFor(p.kind, t.fs[m].size, a)]
        /\ v.fs[n] = [t.fs[n] EXCEPT !.size = VolumeFor(q.kind, t.fs[n].size, b)]
        /\ \A k \in DOMAIN t.parts \ {i, j} : v.parts[k] = t.parts[k]
        /\ i # j =>
             /\ v.parts[i] = IF first THEN p ELSE Fitted(p, Contents(v.fs, p.id), a)
             /\ v.parts[j] = IF second THEN q ELSE Fitted(q, Contents(v.fs, q.id), b)
        /\ i = j => v.parts[i] = IF first /\ second THEN p ELSE Fitted(p, Contents(v.fs, p.id), 0)

\* Both volumes of a table, enlarged one after the other: what comes of it does not
\* depend on which was first.
LEMMA OneOrder ==
    ASSUME NEW t, TableOK(t), NEW m \in DOMAIN t.fs, NEW n \in DOMAIN t.fs, m # n,
           NEW a \in Nat, NEW b \in Nat,
           NEW u, u = Resize(t, m, a), NEW v, v = Resize(u, n, b),
           NEW i \in DOMAIN t.parts, t.parts[i].id = t.fs[m].on,
           NEW j \in DOMAIN t.parts, t.parts[j].id = t.fs[n].on
    PROVE  BothResized(t, m, a, i, n, b, j, v) /\ Sized(t, u) /\ Sized(u, v)
<1> DEFINE p == t.parts[i]
           q == t.parts[j]
           first == p.kind # "plain" /\ a <= t.fs[m].size
           second == q.kind # "plain" /\ b <= t.fs[n].size
<1>a. OneResized(t, m, a, u, i)
  BY ResizeView
<1>1. /\ TableOK(u) /\ DOMAIN u.fs = DOMAIN t.fs /\ DOMAIN u.parts = DOMAIN t.parts
      /\ Len(u.parts) = Len(t.parts)
      /\ \A k \in DOMAIN t.fs : u.fs[k].on = t.fs[k].on /\ (k # m => u.fs[k] = t.fs[k])
      /\ u.fs[m] = [t.fs[m] EXCEPT !.size = VolumeFor(p.kind, t.fs[m].size, a)]
      /\ \A k \in DOMAIN t.parts \ {i} : u.parts[k] = t.parts[k]
      /\ u.parts[i].id = p.id /\ u.parts[i].kind = p.kind
      /\ u.parts[i] = IF first THEN p ELSE Fitted(p, Contents(u.fs, p.id), a)
      /\ Contents(u.fs, p.id) \in Nat
      /\ p.kind # "plain" => Contents(u.fs, p.id) >= a
      /\ Contents(u.fs, p.id) >= Contents(t.fs, p.id)
  BY <1>a DEF OneResized
<1>2. n \in DOMAIN u.fs /\ j \in DOMAIN u.parts /\ u.fs[n] = t.fs[n]
  BY <1>1
<1>3. u.parts[j].id = q.id /\ u.parts[j].kind = q.kind /\ u.parts[j].id = u.fs[n].on
  BY <1>1, <1>2
<1>b. OneResized(u, n, b, v, j)
  BY <1>1, <1>2, <1>3, ResizeView
<1> DEFINE r == u.parts[j]
<1>4. /\ TableOK(v) /\ DOMAIN v.fs = DOMAIN u.fs /\ DOMAIN v.parts = DOMAIN u.parts
      /\ Len(v.parts) = Len(u.parts)
      /\ \A k \in DOMAIN u.fs : v.fs[k].on = u.fs[k].on /\ (k # n => v.fs[k] = u.fs[k])
      /\ v.fs[n] = [u.fs[n] EXCEPT !.size = VolumeFor(r.kind, u.fs[n].size, b)]
      /\ \A k \in DOMAIN u.parts \ {j} : v.parts[k] = u.parts[k]
      /\ v.parts[j] = IF r.kind # "plain" /\ b <= u.fs[n].size THEN r ELSE Fitted(r, Contents(v.fs, r.id), b)
      /\ Contents(v.fs, r.id) \in Nat
      /\ r.kind # "plain" => Contents(v.fs, r.id) >= b
      /\ Contents(v.fs, r.id) >= Contents(u.fs, r.id)
  BY <1>b DEF OneResized
<1>5. v.parts[j] = IF second THEN u.parts[j] ELSE Fitted(u.parts[j], Contents(v.fs, q.id), b)
  BY <1>2, <1>3, <1>4
<1>6. v.fs[n] = [t.fs[n] EXCEPT !.size = VolumeFor(q.kind, t.fs[n].size, b)]
  BY <1>2, <1>3, <1>4
<1>7. v.fs[m] = [t.fs[m] EXCEPT !.size = VolumeFor(p.kind, t.fs[m].size, a)]
  BY <1>1, <1>4
<1>8. Sized(t, u)
  BY <1>a DEF OneResized
<1>9. Sized(u, v)
  BY <1>b DEF OneResized
<1>10. p \in Partition /\ q \in Partition /\ DistinctIds(t.parts) /\ t.fs \in [DOMAIN t.fs -> Volume]
  BY DEF TableOK, MountsOK
<1>11. ASSUME i # j
       PROVE  /\ v.parts[i] = IF first THEN p ELSE Fitted(p, Contents(v.fs, p.id), a)
              /\ v.parts[j] = IF second THEN q ELSE Fitted(q, Contents(v.fs, q.id), b)
  <2>1. v.parts[i] = u.parts[i] /\ u.parts[j] = q
    BY <1>1, <1>4, <1>11
  <2>2. p.id # q.id
    BY <1>10, <1>11 DEF DistinctIds
  <2>3. \A k \in DOMAIN u.fs : v.fs[k].on = u.fs[k].on /\ (u.fs[k].on = p.id => v.fs[k] = u.fs[k])
    BY <1>2, <1>4, <2>2
  <2>4. Contents(v.fs, p.id) = Contents(u.fs, p.id)
    BY <1>4, <2>3, ContentsSame
  <2> QED
    BY <1>1, <1>5, <2>1, <2>4
<1>12. ASSUME i = j PROVE v.parts[i] = IF first /\ second THEN p ELSE Fitted(p, Contents(v.fs, p.id), 0)
  <2>1. p.kind # "plain" /\ p = q
    <3>1. CASE p.kind = "plain"
      <4>1. PICK k \in DOMAIN t.parts :
              /\ t.parts[k].id = t.fs[m].on
              /\ t.parts[k].kind = "plain" => \A l \in DOMAIN t.fs : t.fs[l].on = t.fs[m].on => l = m
        BY DEF TableOK, MountsOK
      <4>2. k = i
        BY <4>1, <1>10 DEF DistinctIds
      <4> QED
        BY <1>12, <3>1, <4>1, <4>2
    <3> QED
      BY <1>12, <3>1
  <2> DEFINE c == Contents(u.fs, p.id)
             d == Contents(v.fs, p.id)
  <2>2. c \in Nat /\ d \in Nat /\ c >= a /\ d >= b /\ d >= c
    BY <1>1, <1>3, <1>4, <1>12, <2>1
  <2>3. v.parts[i] = IF second THEN u.parts[i] ELSE Fitted(u.parts[i], d, b)
    BY <1>5, <1>12
  <2>4. u.parts[i] = IF first THEN p ELSE Fitted(p, c, a)
    BY <1>1
  <2>5. second => d = c
    <3> SUFFICES ASSUME second PROVE d = c
      OBVIOUS
    <3>1. u.parts[j].kind # "plain" /\ b <= u.fs[n].size
      BY <1>2, <1>3
    <3>2. (u.parts[j].kind # "plain" /\ b <= u.fs[n].size) => v = u
      BY <1>b DEF OneResized
    <3> QED
      BY <3>1, <3>2
  <2> HIDE DEF c, d, p, first, second
  <2>6. Fitted(p, c, a) = Fitted(p, c, 0) /\ Fitted(Fitted(p, c, a), d, b) = Fitted(p, d, 0)
    BY <1>10, <2>2, FittedTwice
  <2>7. Fitted(p, d, b) = Fitted(p, d, 0)
    <3>1. d >= d
      BY <2>2
    <3> QED
      BY <1>10, <2>2, <3>1, FittedTwice
  <2>8. v.parts[i] = IF first /\ second THEN p ELSE Fitted(p, d, 0)
    BY <2>3, <2>4, <2>5, <2>6, <2>7
  <2> QED
    BY <2>8 DEF d
<1>13. /\ \A k \in DOMAIN t.fs \ {m, n} : v.fs[k] = t.fs[k]
       /\ \A k \in DOMAIN t.parts \ {i, j} : v.parts[k] = t.parts[k]
  BY <1>1, <1>4
<1>14. DOMAIN v.fs = DOMAIN t.fs /\ DOMAIN v.parts = DOMAIN t.parts /\ Len(v.parts) = Len(t.parts)
  BY <1>1, <1>4
<1> QED
  BY <1>1, <1>4, <1>6, <1>7, <1>8, <1>9, <1>11, <1>12, <1>13, <1>14 DEF BothResized

\* The size of the table after two growths depends on the first and the last table alone.
LEMMA SizedTwice ==
    ASSUME NEW t, NEW u, NEW v, NEW x, NEW y, t.size \in Nat,
           Sized(t, u), Sized(u, v), Sized(t, x), Sized(x, y), y.parts = v.parts
    PROVE  y.size = v.size
<1> DEFINE a == SumSizes(t.parts)
           b == SumSizes(u.parts)
           c == SumSizes(v.parts)
           d == SumSizes(x.parts)
<1>1. a \in Nat /\ b \in Nat /\ c \in Nat /\ d \in Nat /\ b >= a /\ c >= b /\ d >= a /\ c >= d
  BY DEF Sized
<1>2. /\ u.size = IF b = a THEN t.size ELSE Larger(t.size, b)
      /\ v.size = IF c = b THEN u.size ELSE Larger(u.size, c)
      /\ x.size = IF d = a THEN t.size ELSE Larger(t.size, d)
      /\ y.size = IF c = d THEN x.size ELSE Larger(x.size, c)
  BY DEF Sized
<1> HIDE DEF a, b, c, d
<1>3. v.size = IF c = a THEN t.size ELSE Larger(t.size, c)
  BY <1>1, <1>2 DEF Larger
<1>4. y.size = IF c = a THEN t.size ELSE Larger(t.size, c)
  BY <1>1, <1>2 DEF Larger
<1> QED
  BY <1>3, <1>4

\* Whichever of two volumes of a table is enlarged first, the table is the same.
LEMMA ResizeCommutes ==
    ASSUME NEW t, TableOK(t), NEW m \in DOMAIN t.fs, NEW n \in DOMAIN t.fs,
           NEW a \in Nat, NEW b \in Nat, m = n => a = b
    PROVE  Resize(Resize(t, m, a), n, b) = Resize(Resize(t, n, b), m, a)
<1>1. CASE m = n
  BY <1>1
<1>2. CASE m # n
  <2> DEFINE u == Resize(t, m, a)
             v == Resize(u, n, b)
             x == Resize(t, n, b)
             y == Resize(x, m, a)
  <2>1. PICK i \in DOMAIN t.parts : t.parts[i].id = t.fs[m].on
    BY DEF TableOK, MountsOK
  <2>2. PICK j \in DOMAIN t.parts : t.parts[j].id = t.fs[n].on
    BY DEF TableOK, MountsOK
  <2>3. BothResized(t, m, a, i, n, b, j, v) /\ Sized(t, u) /\ Sized(u, v)
    <3>1. ASSUME NEW u0, u0 = u, NEW v0, v0 = Resize(u0, n, b)
          PROVE  BothResized(t, m, a, i, n, b, j, v0) /\ Sized(t, u0) /\ Sized(u0, v0)
      <4> HIDE DEF v, x, y
      <4> QED
        BY <1>2, <2>1, <2>2, <3>1, OneOrder
    <3> HIDE DEF u
    <3> QED
      BY <3>1
  <2>4. BothResized(t, n, b, j, m, a, i, y) /\ Sized(t, x) /\ Sized(x, y)
    <3>1. ASSUME NEW u0, u0 = x, NEW v0, v0 = Resize(u0, m, a)
          PROVE  BothResized(t, n, b, j, m, a, i, v0) /\ Sized(t, u0) /\ Sized(u0, v0)
      <4> HIDE DEF u, v, y
      <4> QED
        BY <1>2, <2>1, <2>2, <3>1, OneOrder
    <3> HIDE DEF x
    <3> QED
      BY <3>1
  <2> HIDE DEF u, v, x, y
  <2>5. TableOK(v) /\ TableOK(y) /\ DOMAIN v.fs = DOMAIN t.fs /\ DOMAIN y.fs = DOMAIN t.fs
        /\ DOMAIN v.parts = DOMAIN t.parts /\ DOMAIN y.parts = DOMAIN t.parts
    BY <2>3, <2>4 DEF BothResized
  <2>6. \A k \in DOMAIN t.fs : v.fs[k] = y.fs[k]
    <3>1. v.fs[m] = y.fs[m] /\ v.fs[n] = y.fs[n]
      BY <2>3, <2>4 DEF BothResized
    <3>2. \A k \in DOMAIN t.fs \ {m, n} : v.fs[k] = t.fs[k] /\ y.fs[k] = t.fs[k]
      BY <2>3, <2>4 DEF BothResized
    <3> QED
      BY <3>1, <3>2
  <2>7. v.fs = y.fs
    <3>1. v.fs \in [DOMAIN t.fs -> Volume] /\ y.fs \in [DOMAIN t.fs -> Volume]
      BY <2>5 DEF TableOK, MountsOK
    <3> QED
      BY <2>6, <3>1
  <2>8. \A k \in DOMAIN t.parts : v.parts[k] = y.parts[k]
    <3>1. v.parts[i] = y.parts[i] /\ v.parts[j] = y.parts[j]
      <4>1. CASE i = j
        BY <2>3, <2>4, <2>7, <4>1 DEF BothResized
      <4>2. CASE i # j
        BY <2>3, <2>4, <2>7, <4>2 DEF BothResized
      <4> QED
        BY <4>1, <4>2
    <3>2. \A k \in DOMAIN t.parts \ {i, j} : v.parts[k] = t.parts[k] /\ y.parts[k] = t.parts[k]
      BY <2>3, <2>4 DEF BothResized
    <3> QED
      BY <3>1, <3>2
  <2>9. v.parts = y.parts
    <3>1. v.parts \in Seq(Partition) /\ y.parts \in Seq(Partition)
      BY <2>5 DEF TableOK
    <3>2. Len(v.parts) = Len(y.parts)
      BY <2>3, <2>4 DEF BothResized
    <3>3. \A k \in 1 .. Len(v.parts) : v.parts[k] = y.parts[k]
      BY <2>5, <2>8, <3>1
    <3> QED
      BY <3>1, <3>2, <3>3, SeqEqual
  <2>10. v.size = y.size
    <3>1. t.size \in Nat
      BY DEF TableOK
    <3> QED
      BY <2>3, <2>4, <2>9, <3>1, SizedTwice
  <2>11. IsTable(v) /\ IsTable(y)
    BY <2>5 DEF TableOK
  <2>12. v = y
    BY <2>7, <2>9, <2>10, <2>11, Zenon DEF IsTable
  <2> QED
    BY <2>12 DEF u, v, x, y
<1> QED
  BY <1>1, <1>2
=============================================================================
