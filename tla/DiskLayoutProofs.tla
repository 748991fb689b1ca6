-------------------------- MODULE DiskLayoutProofs --------------------------
(***************************************************************************)
(* NewPartitionTable, for every base table, customization, partitioning    *)
(* mode and directory size: what was asked for is there, nothing shrinks,  *)
(* the table does not grow too long, and its layout is Relayout.           *)
(***************************************************************************)
EXTENDS DiskLayout, DiskTreeProofs

-----------------------------------------------------------------------------
(* What the operations on a table do to it.                                *)

\* The limit on partitions is a number for either type of table.
LEMMA MaxPartitionsNat == MaxPartitions \in Nat
  BY DEF MaxPartitions

\* clampFSSize and alignEntityBranch ask for no less than the blueprint.
LEMMA AlignBranchGrows ==
    ASSUME NEW p \in Partition, NEW s \in Nat
    PROVE  AlignBranch(p, s) \in Nat /\ AlignBranch(p, s) >= s
<1> DEFINE x == IF p.kind = "lvm" THEN AlignTo(s, Extent) ELSE s
<1>1. x \in Nat /\ x >= s
  BY AlignToGrows, RelayoutAssumption
<1>2. AlignBranch(p, s) = AlignTo(x, Grain)
  BY DEF AlignBranch, AlignUp
<1> HIDE DEF x
<1>3. AlignTo(x, Grain) \in Nat /\ AlignTo(x, Grain) >= x
  BY <1>1, AlignToGrows, RelayoutAssumption
<1> QED
  BY <1>1, <1>2, <1>3

\* clampFSSize returns a size.
LEMMA ClampNat ==
    ASSUME NEW m, NEW s \in Nat
    PROVE  Clamp(m, s) \in Nat
  BY DiskLayoutAssumption DEF Clamp, Larger

\* A table that only gets longer leaves everything on the partition it is on.
LEMMA SameParents ==
    ASSUME NEW t, NEW u, TableOK(t), TableOK(u), Stays(t, u),
           \A i \in DOMAIN t.parts : i \in DOMAIN u.parts /\ u.parts[i] = t.parts[i],
           NEW n \in DOMAIN t.fs
    PROVE  Parent(u, n) = Parent(t, n)
<1>1. PICK i \in DOMAIN t.parts : Parent(t, n) = t.parts[i] /\ t.parts[i].id = t.fs[n].on
  BY ParentOf
<1>2. i \in DOMAIN u.parts /\ u.parts[i] = t.parts[i]
  OBVIOUS
<1>3. u.parts[i].id = u.fs[n].on
  BY <1>1, <1>2 DEF Stays
<1>4. Index(u.parts, u.parts[i].id) = i
  BY <1>2, IndexOf DEF TableOK
<1> QED
  BY <1>1, <1>2, <1>3, <1>4 DEF Parent

\* One partition more, which is not the root.
LEMMA OneRootLonger ==
    ASSUME NEW ps \in Seq(Partition), NEW qs \in Seq(Partition), OneRoot(ps), Len(qs) = Len(ps) + 1,
           \A i \in DOMAIN ps : i \in DOMAIN qs /\ qs[i] = ps[i], ~ qs[Len(qs)].root
    PROVE  OneRoot(qs)
<1>1. PICK r \in DOMAIN ps : \A j \in DOMAIN ps : ps[j].root <=> j = r
  BY DEF OneRoot
<1>2. DOMAIN ps = 1 .. Len(ps) /\ DOMAIN qs = 1 .. Len(ps) + 1 /\ Len(ps) \in Nat
  OBVIOUS
<1>3. r \in DOMAIN qs /\ r # Len(qs)
  BY <1>2
<1>4. ASSUME NEW j \in DOMAIN qs PROVE qs[j].root <=> j = r
  <2>1. CASE j = Len(qs)
    BY <1>3, <2>1
  <2>2. CASE j # Len(qs)
    <3>1. j \in DOMAIN ps
      BY <1>2, <2>2
    <3> QED
      BY <1>1, <3>1
  <2> QED
    BY <2>1, <2>2
<1> QED
  BY <1>3, <1>4 DEF OneRoot

\* A /boot that is made, or was there.
LEMMA WithBootKeeps ==
    ASSUME NEW t, TableOK(t), OneRoot(t.parts), "/" \in DOMAIN t.fs, BootApart(t),
           Len(t.parts) <= MaxPartitions,
           "/boot" \in DOMAIN t.fs \/ Len(t.parts) < MaxPartitions,
           NEW u, u = WithBoot(t)
    PROVE  /\ TableOK(u) /\ Grows(t, u) /\ OneRoot(u.parts) /\ Len(u.parts) <= MaxPartitions
           /\ DOMAIN t.fs \subseteq DOMAIN u.fs /\ "/boot" \in DOMAIN u.fs /\ BootApart(u)
           /\ Parent(u, "/") = Parent(t, "/")
<1>1. CASE "/boot" \in DOMAIN t.fs
  <2>1. u = t
    BY <1>1 DEF WithBoot
  <2> QED
    BY <1>1, <2>1, SameKeeps
<1>2. CASE "/boot" \notin DOMAIN t.fs
  <2>1. u = AddPartition(t, "/boot", GiB) /\ GiB \in Nat
    BY <1>2, DiskLayoutAssumption DEF WithBoot
  <2>2. /\ TableOK(u) /\ Grows(t, u) /\ Stays(t, u) /\ Len(u.parts) = Len(t.parts) + 1
        /\ DOMAIN u.fs = DOMAIN t.fs \union {"/boot"}
        /\ Parent(u, "/boot").kind = "plain"
        /\ \A i \in DOMAIN t.parts : i \in DOMAIN u.parts /\ u.parts[i] = t.parts[i]
        /\ u.parts[Len(u.parts)].root = FALSE
    <3>1. TableOK(u) /\ Grows(t, u) /\ Stays(t, u) /\ Longer(t, u, "/boot")
      BY <1>2, <2>1, AddPartitionKeeps
    <3> QED
      BY <3>1 DEF Longer
  <2>3. t.parts \in Seq(Partition) /\ u.parts \in Seq(Partition)
    BY <2>2 DEF TableOK
  <2>4. ~ u.parts[Len(u.parts)].root
    BY <2>2
  <2>5. OneRoot(u.parts)
    BY <2>2, <2>3, <2>4, OneRootLonger
  <2>6. Len(u.parts) <= MaxPartitions
    BY <1>2, <2>2, <2>3, MaxPartitionsNat
  <2>7. Parent(u, "/") = Parent(t, "/")
    BY <2>2, SameParents
  <2> QED
    BY <2>2, <2>5, <2>6, <2>7 DEF BootApart
<1> QED
  BY <1>1, <1>2

\* u is table t with its root partition turned into a container of "kind".
Wrapped(t, u, kind) ==
    /\ DOMAIN u.fs = DOMAIN t.fs /\ SameRoots(t.parts, u.parts) /\ Parent(u, "/").kind = kind
    /\ \A n \in DOMAIN t.fs \ {"/"} : Parent(u, n) = Parent(t, n) /\ u.fs[n] = t.fs[n]

\* ensureLVM and ensureBtrfs: the root file system gets what it had, the other
\* ones are left alone.
LEMMA WrapKeeps ==
    ASSUME NEW t, TableOK(t), "/" \in DOMAIN t.fs,
           Parent(t, "/").kind = "plain", Parent(t, "/").luks = FALSE,
           NEW kind \in {"lvm", "btrfs"}, NEW u, u = Wrap(t, kind)
    PROVE  TableOK(u) /\ Grows(t, u) /\ Wrapped(t, u, kind)
<1> DEFINE i == Index(t.parts, t.fs["/"].on)
           q == t.parts[i]
           s == IF kind = "lvm" THEN AlignTo(q.size, Extent) ELSE q.size
           p == [q EXCEPT !.kind = kind, !.size = 0, !.content = s]
           v == [t.fs["/"] EXCEPT !.size = s]
<1>1. /\ i \in DOMAIN t.parts /\ Parent(t, "/") = q /\ q.id = t.fs["/"].on
      /\ \A n \in DOMAIN t.fs : t.fs[n].on = t.fs["/"].on => n = "/"
  BY ParentOf
<1>2. t.parts \in Seq(Partition) /\ DistinctIds(t.parts) /\ DOMAIN t.parts = 1 .. Len(t.parts)
  BY DEF TableOK
<1>3. q \in Partition /\ q.kind = "plain" /\ q.luks = FALSE
  BY <1>1, <1>2
<1>4. q.size \in Nat
  BY <1>3, PartitionSizes
<1>5. s \in Nat /\ s >= q.size
  BY <1>4, AlignToGrows, RelayoutAssumption
<1>6. t.fs \in [DOMAIN t.fs -> Volume] /\ IsFiniteSet(DOMAIN t.fs)
  BY DEF TableOK, MountsOK
<1>7. t.fs["/"] \in Volume
  BY <1>6
<1>8. /\ IsTable(u) /\ u.size = t.size
      /\ u.parts = [t.parts EXCEPT ![i] = p] /\ u.fs = [t.fs EXCEPT !["/"] = v]
  <2>1. t = [parts |-> t.parts, fs |-> t.fs, size |-> t.size]
    BY DEF TableOK, IsTable
  <2> QED
    BY <2>1 DEF Wrap, IsTable
<1> HIDE DEF s, i
<1>9. p \in Partition /\ p.id = q.id /\ p.root = q.root /\ p.kind = kind /\ p.luks = FALSE
  BY <1>3, <1>5 DEF Partition, Kinds
<1>10. v \in Volume /\ v.on = q.id /\ v.size = s
  BY <1>1, <1>5, <1>7 DEF Volume
<1> HIDE DEF p, v
<1>11. u.parts \in Seq(Partition) /\ Len(u.parts) = Len(t.parts)
  BY <1>1, <1>2, <1>8, <1>9, ExceptSeq
<1>12. /\ DOMAIN u.parts = DOMAIN t.parts /\ u.parts[i] = p
       /\ \A j \in DOMAIN t.parts \ {i} : u.parts[j] = t.parts[j]
  BY <1>1, <1>8
<1>13. /\ DOMAIN u.fs = DOMAIN t.fs /\ u.fs["/"] = v
       /\ \A n \in DOMAIN t.fs \ {"/"} : u.fs[n] = t.fs[n]
  BY <1>8
<1>14. \A j \in DOMAIN t.parts : u.parts[j].id = t.parts[j].id
  BY <1>9, <1>12
<1>15. DistinctIds(u.parts)
  BY <1>2, <1>12, <1>14 DEF DistinctIds
<1>16. u.fs \in [DOMAIN u.fs -> Volume] /\ IsFiniteSet(DOMAIN u.fs)
  BY <1>6, <1>8, <1>10, <1>13
<1>17. Parent(u, "/") = p
  <2>1. u.parts[i].id = u.fs["/"].on
    BY <1>9, <1>10, <1>12, <1>13
  <2> QED
    BY <1>1, <1>12, <1>15, <2>1, IndexOf DEF Parent
<1>18. ASSUME NEW n \in DOMAIN t.fs \ {"/"}
       PROVE  \E j \in DOMAIN t.parts \ {i} :
                /\ Parent(u, n) = Parent(t, n) /\ Parent(t, n) = t.parts[j]
                /\ t.parts[j].id = t.fs[n].on
                /\ t.parts[j].kind = "plain" =>
                     t.fs[n].size = 0 /\ \A k \in DOMAIN t.fs : t.fs[k].on = t.fs[n].on => k = n
  <2>1. PICK j \in DOMAIN t.parts :
          /\ Parent(t, n) = t.parts[j] /\ t.parts[j].id = t.fs[n].on
          /\ t.parts[j].kind = "plain" =>
               t.fs[n].size = 0 /\ \A k \in DOMAIN t.fs : t.fs[k].on = t.fs[n].on => k = n
    BY ParentOf
  <2>2. j # i
    BY <1>1, <2>1
  <2>3. u.parts[j].id = u.fs[n].on
    BY <1>12, <1>13, <2>1, <2>2
  <2>4. Parent(u, n) = u.parts[j]
    BY <1>12, <1>15, <2>3, IndexOf DEF Parent
  <2> QED
    BY <1>12, <2>1, <2>2, <2>4
<1>19. MountsOK(u)
  <2>1. ASSUME NEW m \in DOMAIN t.fs
        PROVE  \E j \in DOMAIN u.parts :
                 /\ u.parts[j].id = u.fs[m].on
                 /\ u.parts[j].kind = "plain" =>
                      u.fs[m].size = 0 /\ \A n \in DOMAIN u.fs : u.fs[n].on = u.fs[m].on => n = m
    <3>1. CASE m = "/"
      BY <1>1, <1>9, <1>10, <1>12, <1>13, <3>1
    <3>2. CASE m # "/"
      <4>1. PICK j \in DOMAIN t.parts \ {i} :
               /\ t.parts[j].id = t.fs[m].on
               /\ t.parts[j].kind = "plain" =>
                    t.fs[m].size = 0 /\ \A k \in DOMAIN t.fs : t.fs[k].on = t.fs[m].on => k = m
        BY <1>18, <3>2
      <4>2. u.fs[m] = t.fs[m] /\ u.parts[j] = t.parts[j] /\ j \in DOMAIN u.parts
        BY <1>12, <1>13, <3>2
      <4>3. \A n \in DOMAIN t.fs : u.fs[n].on = t.fs[n].on
        BY <1>1, <1>10, <1>13
      <4> QED
        BY <1>13, <4>1, <4>2, <4>3
    <3> QED
      BY <3>1, <3>2
  <2> QED
    BY <1>13, <1>16, <2>1 DEF MountsOK
<1>20. TableOK(u)
  BY <1>8, <1>11, <1>15, <1>19 DEF TableOK
<1>21. Grows(t, u)
  <2> SUFFICES ASSUME NEW m \in DOMAIN t.fs PROVE VolumeSize(u, m) >= VolumeSize(t, m)
    BY <1>13 DEF Grows
  <2>1. CASE m = "/"
    BY <1>1, <1>3, <1>4, <1>5, <1>9, <1>10, <1>13, <1>17, <2>1 DEF VolumeSize
  <2>2. CASE m # "/"
    <3>1. VolumeSize(u, m) = VolumeSize(t, m)
      BY <1>13, <1>18, <2>2 DEF VolumeSize
    <3> QED
      BY <3>1, VolumeSizeInt
  <2> QED
    BY <2>1, <2>2
<1>22. SameRoots(t.parts, u.parts)
  BY <1>9, <1>11, <1>12 DEF SameRoots
<1> QED
  BY <1>9, <1>13, <1>17, <1>18, <1>20, <1>21, <1>22 DEF Wrapped

\* A table whose root is, or can be turned into, a container of "kind".
LEMMA ConvertKeeps ==
    ASSUME NEW t, TableOK(t), "/" \in DOMAIN t.fs, OneRoot(t.parts), NEW kind \in {"lvm", "btrfs"},
           Parent(t, "/").kind = kind \/ (Parent(t, "/").kind = "plain" /\ Parent(t, "/").luks = FALSE),
           NEW u, u = IF Parent(t, "/").kind = kind THEN t ELSE Wrap(t, kind)
    PROVE  /\ TableOK(u) /\ Grows(t, u) /\ OneRoot(u.parts) /\ Len(u.parts) = Len(t.parts)
           /\ DOMAIN u.fs = DOMAIN t.fs /\ Parent(u, "/").kind = kind
           /\ BootApart(t) => BootApart(u)
<1>1. CASE Parent(t, "/").kind = kind
  BY <1>1, SameKeeps
<1>2. CASE Parent(t, "/").kind # kind
  <2>1. TableOK(u) /\ Grows(t, u) /\ Wrapped(t, u, kind)
    BY <1>2, WrapKeeps
  <2>2. OneRoot(u.parts) /\ Len(u.parts) = Len(t.parts)
    <3>1. SameRoots(t.parts, u.parts)
      BY <2>1 DEF Wrapped
    <3> QED
      BY <3>1, SameRootsOne DEF SameRoots
  <2>3. DOMAIN u.fs = DOMAIN t.fs /\ Parent(u, "/").kind = kind
    BY <2>1 DEF Wrapped
  <2>4. ASSUME BootApart(t) PROVE BootApart(u)
    <3> SUFFICES ASSUME "/boot" \in DOMAIN u.fs PROVE Parent(u, "/boot").kind = "plain"
      BY DEF BootApart
    <3>1. Parent(t, "/boot").kind = "plain"
      BY <1>2, <2>3, <2>4 DEF BootApart
    <3>2. Parent(u, "/boot") = Parent(t, "/boot")
      BY <2>1, <2>3 DEF Wrapped
    <3> QED
      BY <3>1, <3>2
  <2> QED
    BY <2>1, <2>2, <2>3, <2>4
<1> QED
  BY <1>1, <1>2

\* The result of CreateMountpoint: m is there, and everything else as before.
Created(t, u, m) ==
    /\ OneRoot(u.parts) /\ Len(u.parts) <= MaxPartitions
    /\ DOMAIN u.fs = DOMAIN t.fs \union {m}

\* CreateMountpoint of a volume group, a btrfs, or a table with a free place.
LEMMA CreateVolumeKeeps ==
    ASSUME NEW t, TableOK(t), "/" \in DOMAIN t.fs, OneRoot(t.parts), Len(t.parts) <= MaxPartitions,
           NEW m, m \notin DOMAIN t.fs,
           Parent(t, "/").kind = "plain" => Len(t.parts) # MaxPartitions,
           NEW u, u = CreateVolume(t, m)
    PROVE  TableOK(u) /\ Grows(t, u) /\ Stays(t, u) /\ Created(t, u, m)
<1> DEFINE i == Index(t.parts, t.fs["/"].on)
           q == t.parts[i]
<1>1. i \in DOMAIN t.parts /\ Parent(t, "/") = q /\ q.id = t.fs["/"].on
  BY ParentOf
<1>2. /\ t.parts \in Seq(Partition) /\ DistinctIds(t.parts) /\ DOMAIN t.parts = 1 .. Len(t.parts)
      /\ Len(t.parts) \in Nat /\ t.size \in Nat
  BY DEF TableOK
<1>3. CASE q.kind = "plain"
  <2>1. u = AddPartition(t, m, 0)
    BY <1>3 DEF CreateVolume
  <2>2. TableOK(u) /\ Grows(t, u) /\ Stays(t, u) /\ Longer(t, u, m)
    BY <2>1, AddPartitionKeeps
  <2>3. u.parts \in Seq(Partition)
    BY <2>2 DEF TableOK
  <2>4. OneRoot(u.parts)
    <3>1. m # "/"
      OBVIOUS
    <3> QED
      BY <1>2, <2>2, <2>3, <3>1, OneRootLonger DEF Longer
  <2>5. Len(u.parts) <= MaxPartitions
    BY <1>1, <1>2, <1>3, <2>2, MaxPartitionsNat DEF Longer
  <2> QED
    BY <2>2, <2>4, <2>5 DEF Created, Longer
<1>4. CASE q.kind # "plain"
  <2>1. t = [parts |-> t.parts, fs |-> t.fs, size |-> t.size]
    BY DEF TableOK, IsTable
  <2>2. IsTable(u) /\ u.parts = t.parts /\ u.fs = Mount(t.fs, m, q.id) /\ u.size = t.size
    BY <1>4, <2>1 DEF CreateVolume, IsTable
  <2>3. \A j \in DOMAIN t.parts : Enlarged(t.parts[j], u.parts[j])
    <3> SUFFICES ASSUME NEW j \in DOMAIN t.parts PROVE Enlarged(t.parts[j], u.parts[j])
      OBVIOUS
    <3>1. t.parts[j] \in Partition
      BY <1>2
    <3>2. t.parts[j].size \in Nat
      BY <3>1, PartitionSizes
    <3> QED
      BY <2>2, <3>2 DEF Enlarged
  <2> HIDE DEF i
  <2>4. u.parts \in Seq(Partition) /\ DOMAIN u.parts = DOMAIN t.parts
    BY <1>2, <2>2
  <2>5. TableOK(u) /\ Grows(t, u) /\ Stays(t, u) /\ MountedOn(t, u, m, q.id)
    BY <1>1, <1>4, <2>2, <2>3, <2>4, MountKeeps
  <2> QED
    BY <2>2, <2>5 DEF Created, MountedOn
<1> QED
  BY <1>3, <1>4

-----------------------------------------------------------------------------
(* The inductive invariant.                                                *)

Wish == [mount : STRING, size : Nat]

\* c is in the table, as large as asked for.
Honoured(t, c) == c.mount \in DOMAIN t.fs /\ VolumeSize(t, c.mount) >= Clamp(c.mount, c.size)

In(c, q) == \E k \in DOMAIN q : q[k] = c

TableInv ==
    IInv /\ TableOK(Current) /\ "/" \in DOMAIN fs /\ Len(parts) <= MaxPartitions

ControlInv ==
    /\ opts \in [custom : Customs, mode : Modes, policy : Policies, required : Required]
    /\ todo \in Seq(Wish) /\ newMounts \in Seq(Wish)
    /\ phase \in {"first", "second", "dirs", "layout", "failed"}
    /\ pc # "edit" => phase = "layout"

\* No requested mountpoint is forgotten between the passes.
Progress ==
    \A i \in DOMAIN opts.custom : LET c == opts.custom[i] IN
      /\ phase = "first" => Honoured(Current, c) \/ In(c, newMounts) \/ In(c, todo)
      /\ phase = "second" => Honoured(Current, c) \/ In(c, todo)
      /\ phase \in {"dirs", "layout"} => Honoured(Current, c)

\* The partitioning modes in which the root must be in a container, with /boot.
Contained == opts.mode = "lvm" \/ (opts.mode = "btrfs" /\ opts.policy)

BootInv ==
    /\ phase = "first" =>
         BootApart(Current) /\ (opts.mode = "btrfs" => Parent(Current, "/").kind # "lvm")
    /\ phase \in {"second", "dirs", "layout"} /\ Contained =>
         Parent(Current, "/").kind = opts.mode /\ "/boot" \in DOMAIN fs /\ BootApart(Current)

DiskInv ==
    /\ TableInv /\ ControlInv /\ Progress /\ BootInv
    /\ phase \in {"dirs", "layout"} => DirsInv
    /\ phase = "layout" => dirs = {}

\* What is in a queue is its head or in its tail.
LEMMA HeadOrTail ==
    ASSUME NEW q \in Seq(Wish), q # <<>>, NEW c, In(c, q)
    PROVE  c = Head(q) \/ In(c, Tail(q))
<1>1. PICK k \in DOMAIN q : q[k] = c
  BY DEF In
<1>2. k \in 1 .. Len(q) /\ Len(q) \in Nat /\ Len(q) > 0
  OBVIOUS
<1>3. CASE k = 1
  BY <1>1, <1>3
<1>4. CASE k # 1
  <2>1. k - 1 \in 1 .. Len(q) - 1
    BY <1>2, <1>4
  <2>2. DOMAIN Tail(q) = 1 .. Len(q) - 1 /\ Tail(q)[k - 1] = q[k]
    BY <1>2, <2>1
  <2> QED
    BY <1>1, <2>1, <2>2 DEF In
<1> QED
  BY <1>3, <1>4

\* A queue that gets longer has all it had.
LEMMA AppendIn ==
    ASSUME NEW q \in Seq(Wish), NEW w \in Wish
    PROVE  /\ Append(q, w) \in Seq(Wish) /\ In(w, Append(q, w))
           /\ \A c : In(c, q) => In(c, Append(q, w))
<1> DEFINE r == Append(q, w)
<1>1. /\ r \in Seq(Wish) /\ DOMAIN r = 1 .. Len(q) + 1 /\ DOMAIN q = 1 .. Len(q) /\ Len(q) \in Nat
      /\ r[Len(q) + 1] = w /\ \A k \in DOMAIN q : r[k] = q[k]
  OBVIOUS
<1> HIDE DEF r
<1>2. Len(q) + 1 \in DOMAIN r /\ \A k \in DOMAIN q : k \in DOMAIN r
  BY <1>1
<1>3. In(w, r) /\ \A c : In(c, q) => In(c, r)
  BY <1>1, <1>2, Zenon DEF In
<1> QED
  BY <1>1, <1>3 DEF r

\* What a mountpoint of a sound table is on is a partition of it.
LEMMA ParentIn ==
    ASSUME NEW t, TableOK(t), NEW m \in DOMAIN t.fs
    PROVE  Parent(t, m) \in Partition
<1>1. PICK i \in DOMAIN t.parts : Parent(t, m) = t.parts[i]
  BY ParentOf
<1> QED
  BY <1>1 DEF TableOK

\* What is honoured stays so as long as nothing shrinks.
LEMMA HonouredStays ==
    ASSUME NEW t, NEW u, TableOK(t), TableOK(u), Grows(t, u), NEW c \in Wish, Honoured(t, c)
    PROVE  Honoured(u, c)
<1>1. c.mount \in DOMAIN t.fs /\ VolumeSize(t, c.mount) >= Clamp(c.mount, c.size)
  BY DEF Honoured
<1>2. c.mount \in DOMAIN u.fs /\ VolumeSize(u, c.mount) >= VolumeSize(t, c.mount)
  BY <1>1 DEF Grows
<1>3. VolumeSize(u, c.mount) \in Int /\ VolumeSize(t, c.mount) \in Int
  BY <1>1, <1>2, VolumeSizeInt
<1>4. Clamp(c.mount, c.size) \in Nat
  BY ClampNat DEF Wish
<1> QED
  BY <1>1, <1>2, <1>3, <1>4 DEF Honoured

\* /boot stays where it is when everything does.
LEMMA BootStays ==
    ASSUME NEW t, NEW u, Stays(t, u), "/" \in DOMAIN t.fs
    PROVE  /\ Parent(u, "/").kind = Parent(t, "/").kind
           /\ BootApart(t) /\ ("/boot" \in DOMAIN u.fs => "/boot" \in DOMAIN t.fs) => BootApart(u)
  BY DEF Stays, BootApart

\* A table that replaces the current one.
LEMMA TableEdit ==
    ASSUME TableInv, pc = "edit", UNCHANGED layoutVars, NEW u, TableOK(u), Grows(Current, u),
           OneRoot(u.parts), Len(u.parts) <= MaxPartitions, Become(u)
    PROVE  TableInv' /\ Current' = u
<1>1. Current' = u
  BY Becomes DEF TableOK
<1>2. parts' = u.parts /\ size' = u.size /\ fs' = u.fs
  BY DEF Become
<1>3. parts' \in Seq(Partition) /\ size' \in Nat /\ OneRoot(parts')
  BY <1>2 DEF TableOK
<1>4. IInv'
  BY <1>3, EditIInv DEF TableInv
<1>5. "/" \in DOMAIN fs'
  BY <1>2, CurrentFields DEF TableInv, Grows
<1> QED
  BY <1>1, <1>2, <1>4, <1>5 DEF TableInv, MaxPartitions

\* A step that leaves the table alone.
LEMMA TableSame ==
    ASSUME TableInv, UNCHANGED layoutVars, UNCHANGED tableVars
    PROVE  TableInv' /\ Current' = Current /\ Grows(Current, Current')
<1>1. Current' = Current /\ parts' = parts /\ fs' = fs /\ size' = size
  BY DEF tableVars, Current
<1>2. UNCHANGED vars
  BY DEF tableVars, layoutVars, vars
<1>3. IInv'
  BY <1>2 DEF TableInv, vars, IInv, TypeOK, Loop, Sound, Good, Needs, End, Apart, Placed,
              HeaderSize, Footer
<1> QED
  BY <1>1, <1>3, SameKeeps DEF TableInv, MaxPartitions

-----------------------------------------------------------------------------
(* One lemma for each action.                                              *)

\* The sequence asked for is one of wishes.
LEMMA CustomWishes ==
    ASSUME ControlInv
    PROVE  opts.custom \in Seq(Wish) /\ (\A i \in DOMAIN opts.custom : opts.custom[i] \in Wish)
           /\ opts.required \in Required /\ opts.mode \in Modes /\ opts.policy \in BOOLEAN
<1>1. opts.custom \in Customs /\ opts.required \in Required /\ opts.mode \in Modes /\ opts.policy \in Policies
  BY DEF ControlInv
<1>2. opts.custom \in Seq(Wish) /\ opts.policy \in BOOLEAN
  BY <1>1, DiskLayoutAssumption DEF Wish
<1> QED
  BY <1>1, <1>2

\* NewPartitionTable starts from a base table, which is sound.
LEMMA InitDiskInv == DiskInit => DiskInv
<1> SUFFICES ASSUME DiskInit PROVE DiskInv
  OBVIOUS
<1>1. PICK b \in Bases : parts = b.parts /\ fs = b.fs /\ size = b.size
  BY DEF DiskInit
<1>2. /\ TableOK(b) /\ OneRoot(b.parts) /\ Len(b.parts) <= MaxPartitions
      /\ "/" \in DOMAIN b.fs /\ BootApart(b)
  BY BasesAssumption
<1>3. Current = b
  BY <1>1, <1>2, CurrentFields DEF TableOK, IsTable
<1>4. target = 0 /\ pc = "edit" /\ idx = 0 /\ start = 0
  BY DEF DiskInit
<1>5. TableInv
  <2>1. parts \in Seq(Partition) /\ size \in Nat /\ Len(parts) \in Nat
    BY <1>1, <1>2 DEF TableOK
  <2>2. IInv
    BY <1>1, <1>2, <1>4, <2>1 DEF IInv, TypeOK
  <2> QED
    BY <1>1, <1>2, <1>3, <2>2 DEF TableInv
<1>6. /\ opts \in [custom : Customs, mode : Modes, policy : Policies, required : Required]
      /\ todo = opts.custom /\ newMounts = <<>>
      /\ phase = "failed" \/ (phase = "first" /\ (opts.mode = "btrfs" => ~ HasLVM))
  BY DEF DiskInit
<1>7. opts.custom \in Seq(Wish)
  <2>1. opts.custom \in Customs
    BY <1>6
  <2> QED
    BY <2>1, DiskLayoutAssumption DEF Wish
<1>8. ControlInv
  BY <1>4, <1>6, <1>7 DEF ControlInv
<1>9. Progress
  BY <1>6 DEF Progress, In
<1>10. BootInv
  <2>1. opts.mode = "btrfs" /\ phase = "first" => Parent(Current, "/").kind # "lvm"
    <3>1. PICK i \in DOMAIN parts : Parent(Current, "/") = parts[i]
      BY <1>1, <1>2, <1>3, ParentOf
    <3> QED
      BY <1>6, <3>1 DEF HasLVM
  <2> QED
    BY <1>2, <1>3, <1>6, <2>1 DEF BootInv
<1> QED
  BY <1>5, <1>6, <1>8, <1>9, <1>10 DEF DiskInv

\* An error ends the edits; the table stays what it was.
LEMMA FailStep ==
    ASSUME DiskInv, pc = "edit", Fail, UNCHANGED <<opts, layoutVars>>
    PROVE  DiskInv' /\ Grows(Current, Current')
<1>1. /\ phase' = "failed" /\ UNCHANGED tableVars /\ todo' = todo /\ newMounts' = newMounts
      /\ opts' = opts /\ UNCHANGED layoutVars /\ pc' = pc
  BY DEF Fail, layoutVars
<1>2. TableInv' /\ Grows(Current, Current')
  BY <1>1, TableSame DEF DiskInv
<1>3. ControlInv'
  BY <1>1 DEF DiskInv, ControlInv
<1> QED
  BY <1>1, <1>2, <1>3 DEF DiskInv, Progress, BootInv

\* First pass.
LEMMA EnlargeExistingStep ==
    ASSUME DiskInv, EnlargeExisting, UNCHANGED <<opts, layoutVars>>
    PROVE  DiskInv' /\ Grows(Current, Current')
<1> DEFINE c == Head(todo)
<1>1. /\ phase = "first" /\ phase' = "first" /\ todo # <<>> /\ todo' = Tail(todo) /\ opts' = opts
      /\ UNCHANGED layoutVars /\ pc' = pc
  BY DEF EnlargeExisting, layoutVars
<1>2. pc = "edit" /\ todo \in Seq(Wish) /\ newMounts \in Seq(Wish) /\ TableInv /\ ControlInv
  BY <1>1 DEF DiskInv, ControlInv
<1>3. c \in Wish /\ Tail(todo) \in Seq(Wish)
  BY <1>1, <1>2
<1>4. c.mount \in STRING /\ c.size \in Nat
  BY <1>3 DEF Wish
<1>5. Clamp(c.mount, c.size) \in Nat
  BY <1>4, ClampNat
<1>6. \A i \in DOMAIN opts.custom : opts.custom[i] \in Wish
  BY <1>2, CustomWishes
<1> HIDE DEF c
<1>7. CASE Mounted(c.mount)
  <2> DEFINE x == Clamp(c.mount, c.size)
             s == AlignBranch(Parent(Current, c.mount), x)
             u == Resize(Current, c.mount, s)
  <2>1. Become(u) /\ newMounts' = newMounts
    BY <1>7 DEF EnlargeExisting, c
  <2>2. c.mount \in DOMAIN Current.fs
    BY <1>7, CurrentFields DEF Mounted
  <2>3. s \in Nat /\ s >= x
    <3>1. Parent(Current, c.mount) \in Partition
      BY <1>2, <2>2, ParentIn DEF TableInv
    <3> HIDE DEF x
    <3> QED
      BY <1>5, <3>1, AlignBranchGrows DEF x
  <2> HIDE DEF s
  <2>4. /\ TableOK(u) /\ Grows(Current, u) /\ Stays(Current, u) /\ VolumeSize(u, c.mount) >= s
        /\ DOMAIN u.fs = DOMAIN Current.fs /\ SameRoots(Current.parts, u.parts)
    BY <1>2, <2>2, <2>3, ResizeGrows DEF TableInv
  <2> HIDE DEF u
  <2>5. OneRoot(u.parts) /\ Len(u.parts) <= MaxPartitions
    <3>1. OneRoot(Current.parts) /\ Len(Current.parts) <= MaxPartitions
      BY <1>2, CurrentFields DEF TableInv, IInv
    <3> QED
      BY <2>4, <3>1, SameRootsOne DEF SameRoots
  <2>6. TableInv' /\ Current' = u
    BY <1>1, <1>2, <2>1, <2>4, <2>5, TableEdit
  <2>7. Honoured(u, c)
    <3>1. VolumeSize(u, c.mount) \in Int
      BY <2>2, <2>4, VolumeSizeInt
    <3>2. VolumeSize(u, c.mount) >= x
      BY <1>5, <2>3, <2>4, <3>1
    <3> QED
      BY <2>2, <2>4, <3>2 DEF Honoured
  <2>8. ControlInv'
    BY <1>1, <1>2, <1>3, <2>1 DEF ControlInv
  <2>9. ASSUME NEW i \in DOMAIN opts.custom
        PROVE  Honoured(u, opts.custom[i]) \/ In(opts.custom[i], newMounts) \/ In(opts.custom[i], Tail(todo))
    <3> DEFINE w == opts.custom[i]
    <3>1. w \in Wish
      BY <1>6
    <3>2. Honoured(Current, w) \/ In(w, newMounts) \/ In(w, todo)
      BY <1>1 DEF DiskInv, Progress
    <3> HIDE DEF w
    <3>3. CASE Honoured(Current, w)
      <4>1. Honoured(u, w)
        BY <1>2, <2>4, <3>1, <3>3, HonouredStays DEF TableInv
      <4> QED
        BY <4>1 DEF w
    <3>4. CASE In(w, todo)
      BY <1>1, <1>2, <2>7, <3>4, HeadOrTail DEF c, w
    <3> QED
      BY <3>2, <3>3, <3>4 DEF w
  <2>10. Progress'
    BY <1>1, <2>1, <2>6, <2>9 DEF Progress
  <2>11. BootInv'
    <3>1. "/" \in DOMAIN Current.fs
      BY <1>2, CurrentFields DEF TableInv
    <3>2. Parent(u, "/").kind = Parent(Current, "/").kind /\ (BootApart(Current) => BootApart(u))
      BY <2>4, <3>1, BootStays
    <3> QED
      BY <1>1, <2>6, <3>2 DEF DiskInv, BootInv
  <2> QED
    BY <1>1, <2>4, <2>6, <2>8, <2>10, <2>11 DEF DiskInv
<1>8. CASE ~ Mounted(c.mount)
  <2>1. newMounts' = Append(newMounts, c) /\ UNCHANGED tableVars
    BY <1>8 DEF EnlargeExisting, c
  <2>2. TableInv' /\ Current' = Current /\ Grows(Current, Current')
    BY <1>1, <1>2, <2>1, TableSame
  <2>3. newMounts' \in Seq(Wish) /\ In(c, newMounts') /\ \A w : In(w, newMounts) => In(w, newMounts')
    BY <1>2, <1>3, <2>1, AppendIn
  <2>4. ControlInv'
    BY <1>1, <1>2, <1>3, <2>3 DEF ControlInv
  <2>5. ASSUME NEW i \in DOMAIN opts.custom
        PROVE  Honoured(Current, opts.custom[i]) \/ In(opts.custom[i], newMounts') \/ In(opts.custom[i], Tail(todo))
    <3>1. \/ Honoured(Current, opts.custom[i]) \/ In(opts.custom[i], newMounts)
          \/ In(opts.custom[i], todo)
      BY <1>1 DEF DiskInv, Progress
    <3> QED
      BY <1>1, <1>2, <2>3, <3>1, HeadOrTail DEF c
  <2>6. Progress'
    BY <1>1, <2>2, <2>5 DEF Progress
  <2>7. BootInv'
    BY <1>1, <2>2 DEF DiskInv, BootInv
  <2> QED
    BY <1>1, <2>2, <2>4, <2>6, <2>7 DEF DiskInv
<1> QED
  BY <1>7, <1>8

\* Between the passes: the root is in the container the mode asks for, or the
\* mode asks for none.
LEMMA ConvertedStep ==
    ASSUME DiskInv, phase = "first", todo = <<>>, UNCHANGED <<opts, layoutVars>>,
           phase' = "second", todo' = newMounts, newMounts' = newMounts,
           NEW u, TableOK(u), Grows(Current, u), OneRoot(u.parts), Len(u.parts) <= MaxPartitions,
           Become(u),
           Contained => Parent(u, "/").kind = opts.mode /\ "/boot" \in DOMAIN u.fs /\ BootApart(u)
    PROVE  DiskInv' /\ Grows(Current, Current')
<1>1. pc = "edit" /\ newMounts \in Seq(Wish) /\ TableInv /\ ControlInv /\ UNCHANGED layoutVars /\ pc' = pc
  BY DEF DiskInv, ControlInv, layoutVars
<1>2. TableInv' /\ Current' = u
  BY <1>1, TableEdit
<1>3. ControlInv'
  BY <1>1 DEF ControlInv
<1>4. ASSUME NEW i \in DOMAIN opts.custom
      PROVE  Honoured(u, opts.custom[i]) \/ In(opts.custom[i], newMounts)
  <2>1. Honoured(Current, opts.custom[i]) \/ In(opts.custom[i], newMounts)
    BY DEF DiskInv, Progress, In
  <2>2. opts.custom[i] \in Wish
    BY <1>1, CustomWishes
  <2>3. CASE Honoured(Current, opts.custom[i])
    BY <1>1, <2>2, <2>3, HonouredStays DEF TableInv
  <2> QED
    BY <2>1, <2>3
<1>5. Progress'
  BY <1>2, <1>4 DEF Progress
<1>6. BootInv'
  BY <1>2, CurrentPrimed DEF BootInv, Contained
<1> QED
  BY <1>2, <1>3, <1>5, <1>6 DEF DiskInv

\* ensureLVM, ensureBtrfs, or neither.
LEMMA ConvertStep ==
    ASSUME DiskInv, Convert, UNCHANGED <<opts, layoutVars>>
    PROVE  DiskInv' /\ Grows(Current, Current')
<1> DEFINE t == Current
           root == Parent(t, "/")
<1>1. phase = "first" /\ todo = <<>>
  BY DEF Convert
<1>2. pc = "edit" /\ TableInv /\ ControlInv /\ BootApart(t) /\ (opts.mode = "btrfs" => root.kind # "lvm")
  BY <1>1 DEF DiskInv, ControlInv, BootInv
<1>3. /\ TableOK(t) /\ OneRoot(t.parts) /\ Len(t.parts) <= MaxPartitions
      /\ "/" \in DOMAIN t.fs /\ parts = t.parts /\ fs = t.fs
  BY <1>2, CurrentFields DEF TableInv, IInv
<1>4. root \in Partition
  BY <1>3, ParentIn
<1>5. root.kind \in {"plain", "lvm", "btrfs"} /\ root.luks \in BOOLEAN
  BY <1>4 DEF Partition, Kinds
<1>6. opts.mode \in {"raw", "lvm", "auto-lvm", "btrfs"} /\ opts.policy \in BOOLEAN
  BY <1>2, CustomWishes, DiskLayoutAssumption
<1> HIDE DEF root, t
<1>7. ASSUME NEW kind \in {"lvm", "btrfs"}, NEW b, TableOK(b), Grows(t, b), OneRoot(b.parts),
             Len(b.parts) <= MaxPartitions, "/" \in DOMAIN b.fs, Parent(b, "/") = root,
             root.kind = kind \/ (root.kind = "plain" /\ root.luks = FALSE),
             Contained => opts.mode = kind /\ "/boot" \in DOMAIN b.fs /\ BootApart(b),
             NEW u, u = IF root.kind = kind THEN b ELSE Wrap(b, kind), Become(u),
             phase' = "second", todo' = newMounts, newMounts' = newMounts
      PROVE  DiskInv' /\ Grows(Current, Current')
  <2>1. /\ TableOK(u) /\ Grows(b, u) /\ OneRoot(u.parts) /\ Len(u.parts) = Len(b.parts)
        /\ DOMAIN u.fs = DOMAIN b.fs /\ Parent(u, "/").kind = kind
        /\ BootApart(b) => BootApart(u)
    BY <1>7, ConvertKeeps
  <2>2. Grows(Current, u)
    BY <1>3, <1>7, <2>1, GrowsTrans DEF t
  <2>3. Len(u.parts) <= MaxPartitions
    BY <1>7, <2>1
  <2>4. Contained => Parent(u, "/").kind = opts.mode /\ "/boot" \in DOMAIN u.fs /\ BootApart(u)
    BY <1>7, <2>1
  <2> QED
    BY <1>1, <1>7, <2>1, <2>2, <2>3, <2>4, ConvertedStep
<1>8. CASE EnsureLVM
  <2>1. CASE Fail
    BY <1>2, <2>1, FailStep
  <2>2. CASE ~ Fail
    <3> DEFINE b == WithBoot(t)
    <3>1. /\ BootPossible /\ root.kind # "btrfs" /\ ~ (root.kind = "plain" /\ root.luks)
          /\ Become(IF root.kind = "lvm" THEN b ELSE Wrap(b, "lvm"))
          /\ phase' = "second" /\ todo' = newMounts /\ newMounts' = newMounts
          /\ opts.mode # "btrfs"
      BY <1>6, <1>8, <2>2 DEF EnsureLVM, NeedLVM, t, root
    <3>2. "/boot" \in DOMAIN t.fs \/ Len(t.parts) < MaxPartitions
      BY <1>3, <3>1 DEF BootPossible
    <3>3. /\ TableOK(b) /\ Grows(t, b) /\ OneRoot(b.parts) /\ Len(b.parts) <= MaxPartitions
          /\ DOMAIN t.fs \subseteq DOMAIN b.fs /\ "/boot" \in DOMAIN b.fs /\ BootApart(b)
          /\ Parent(b, "/") = Parent(t, "/")
      BY <1>2, <1>3, <3>2, WithBootKeeps
    <3> HIDE DEF b
    <3>4. "/" \in DOMAIN b.fs /\ Parent(b, "/") = root
      BY <1>3, <3>3 DEF root
    <3>5. root.kind = "lvm" \/ (root.kind = "plain" /\ root.luks = FALSE)
      BY <1>5, <3>1
    <3>6. Contained => opts.mode = "lvm" /\ "/boot" \in DOMAIN b.fs /\ BootApart(b)
      BY <3>1, <3>3 DEF Contained
    <3> QED
      BY <1>7, <3>1, <3>3, <3>4, <3>5, <3>6
  <2> QED
    BY <2>1, <2>2
<1>9. CASE EnsureBtrfs
  <2>1. CASE Fail
    BY <1>2, <2>1, FailStep
  <2>2. CASE ~ Fail
    <3> DEFINE b == IF opts.policy THEN WithBoot(t) ELSE t
    <3>1. /\ opts.policy => BootPossible
          /\ ~ (root.kind = "plain" /\ root.luks)
          /\ Become(IF root.kind = "btrfs" THEN b ELSE Wrap(b, "btrfs"))
          /\ phase' = "second" /\ todo' = newMounts /\ newMounts' = newMounts
          /\ opts.mode = "btrfs"
      BY <1>6, <1>9, <2>2 DEF EnsureBtrfs, t, root
    <3>2. /\ TableOK(b) /\ Grows(t, b) /\ OneRoot(b.parts) /\ Len(b.parts) <= MaxPartitions
          /\ DOMAIN t.fs \subseteq DOMAIN b.fs /\ BootApart(b)
          /\ opts.policy => "/boot" \in DOMAIN b.fs
          /\ Parent(b, "/") = Parent(t, "/")
      <4>1. CASE opts.policy
        <5>1. "/boot" \in DOMAIN t.fs \/ Len(t.parts) < MaxPartitions
          BY <1>3, <3>1, <4>1 DEF BootPossible
        <5> QED
          BY <1>2, <1>3, <4>1, <5>1, WithBootKeeps
      <4>2. CASE ~ opts.policy
        BY <1>2, <1>3, <4>2, SameKeeps
      <4> QED
        BY <4>1, <4>2
    <3> HIDE DEF b
    <3>4. "/" \in DOMAIN b.fs /\ Parent(b, "/") = root
      BY <1>3, <3>2 DEF root
    <3>5. root.kind = "btrfs" \/ (root.kind = "plain" /\ root.luks = FALSE)
      BY <1>2, <1>5, <3>1
    <3>6. Contained => opts.mode = "btrfs" /\ "/boot" \in DOMAIN b.fs /\ BootApart(b)
      BY <3>1, <3>2 DEF Contained
    <3> QED
      BY <1>7, <3>1, <3>2, <3>4, <3>5, <3>6
  <2> QED
    BY <2>1, <2>2
<1>10. CASE KeepKind
  <2>1. /\ phase' = "second" /\ todo' = newMounts /\ newMounts' = newMounts
        /\ UNCHANGED tableVars /\ ~ Contained
    BY <1>10 DEF KeepKind, NeedLVM, Contained
  <2>2. Become(t)
    BY <2>1 DEF Become, t, Current, tableVars
  <2>3. Grows(Current, t)
    BY <1>3, SameKeeps DEF t
  <2> QED
    BY <1>1, <1>3, <2>1, <2>2, <2>3, ConvertedStep
<1> QED
  BY <1>8, <1>9, <1>10 DEF Convert

\* Second pass.
LEMMA ApplyNewStep ==
    ASSUME DiskInv, ApplyNew, UNCHANGED <<opts, layoutVars>>
    PROVE  DiskInv' /\ Grows(Current, Current')
<1> DEFINE c == Head(todo)
           m == c.mount
           t == IF Mounted(m) THEN Current ELSE CreateVolume(Current, m)
           x == Clamp(m, c.size)
           s == AlignBranch(Parent(t, m), x)
           u == Resize(t, m, s)
<1>1. /\ phase = "second" /\ todo # <<>> /\ opts' = opts /\ UNCHANGED layoutVars /\ pc' = pc
  BY DEF ApplyNew, layoutVars
<1>2. pc = "edit" /\ todo \in Seq(Wish) /\ newMounts \in Seq(Wish) /\ TableInv /\ ControlInv
  BY <1>1 DEF DiskInv, ControlInv
<1>3. c \in Wish /\ Tail(todo) \in Seq(Wish)
  BY <1>1, <1>2
<1>4. c.mount \in STRING /\ c.size \in Nat
  BY <1>3 DEF Wish
<1>5. x \in Nat
  BY <1>4, ClampNat
<1>6. /\ TableOK(Current) /\ OneRoot(Current.parts) /\ Len(Current.parts) <= MaxPartitions
      /\ "/" \in DOMAIN Current.fs /\ fs = Current.fs /\ parts = Current.parts
  BY <1>2, CurrentFields DEF TableInv, IInv
<1>7. CASE ~ Mounted(m) /\ CannotCreate
  <2>1. Fail
    BY <1>7 DEF ApplyNew
  <2> QED
    BY <1>1, <1>2, <2>1, FailStep
<1>8. CASE ~ (~ Mounted(m) /\ CannotCreate)
  <2>1. Become(u) /\ todo' = Tail(todo) /\ newMounts' = newMounts /\ phase' = "second"
    BY <1>1, <1>8 DEF ApplyNew
  <2>2. /\ TableOK(t) /\ Grows(Current, t) /\ Stays(Current, t) /\ OneRoot(t.parts)
        /\ Len(t.parts) <= MaxPartitions /\ m \in DOMAIN t.fs
    <3>1. CASE Mounted(m)
      BY <1>6, <3>1, SameKeeps DEF Mounted
    <3>2. CASE ~ Mounted(m)
      <4> DEFINE v == CreateVolume(Current, m)
      <4>1. m \notin DOMAIN Current.fs
        BY <1>6, <3>2 DEF Mounted
      <4>2. Parent(Current, "/").kind = "plain" => Len(Current.parts) # MaxPartitions
        BY <1>6, <1>8, <3>2 DEF CannotCreate
      <4> HIDE DEF m
      <4>3. TableOK(v) /\ Grows(Current, v) /\ Stays(Current, v) /\ Created(Current, v, m)
        BY <1>6, <4>1, <4>2, CreateVolumeKeeps
      <4>4. t = v
        BY <3>2
      <4> HIDE DEF t, v
      <4> QED
        BY <4>3, <4>4 DEF Created
    <3> QED
      BY <3>1, <3>2
  <2> HIDE DEF t, x
  <2>3. s \in Nat /\ s >= x
    <3>1. Parent(t, m) \in Partition
      BY <2>2, ParentIn
    <3> QED
      BY <1>5, <3>1, AlignBranchGrows
  <2> HIDE DEF s
  <2>4. /\ TableOK(u) /\ Grows(t, u) /\ Stays(t, u) /\ VolumeSize(u, m) >= s
        /\ DOMAIN u.fs = DOMAIN t.fs /\ SameRoots(t.parts, u.parts)
    <3> HIDE DEF m
    <3> QED
      BY <2>2, <2>3, ResizeGrows
  <2> HIDE DEF u
  <2>5. OneRoot(u.parts) /\ Len(u.parts) <= MaxPartitions
    BY <2>2, <2>4, SameRootsOne DEF SameRoots
  <2>6. Grows(Current, u)
    BY <1>6, <2>2, <2>4, GrowsTrans
  <2>7. TableInv' /\ Current' = u
    BY <1>1, <1>2, <2>1, <2>4, <2>5, <2>6, TableEdit
  <2>8. Honoured(u, c)
    <3>1. VolumeSize(u, m) \in Int
      BY <2>2, <2>4, VolumeSizeInt
    <3>2. VolumeSize(u, m) >= x
      BY <1>5, <2>3, <2>4, <3>1
    <3> QED
      BY <2>2, <2>4, <3>2 DEF Honoured, x
  <2>9. ControlInv'
    BY <1>1, <1>2, <1>3, <2>1 DEF ControlInv
  <2>10. ASSUME NEW i \in DOMAIN opts.custom
         PROVE  Honoured(u, opts.custom[i]) \/ In(opts.custom[i], Tail(todo))
    <3> DEFINE w == opts.custom[i]
    <3>1. w \in Wish
      BY <1>2, CustomWishes
    <3>2. Honoured(Current, w) \/ In(w, todo)
      BY <1>1 DEF DiskInv, Progress
    <3> HIDE DEF w
    <3>3. CASE Honoured(Current, w)
      <4>1. Honoured(u, w)
        BY <1>6, <2>4, <2>6, <3>1, <3>3, HonouredStays
      <4> QED
        BY <4>1 DEF w
    <3>4. CASE In(w, todo)
      BY <1>1, <1>2, <2>8, <3>4, HeadOrTail DEF w
    <3> QED
      BY <3>2, <3>3, <3>4
  <2>11. Progress'
    BY <1>1, <2>1, <2>7, <2>10 DEF Progress
  <2>12. BootInv'
    <3> SUFFICES ASSUME Contained
                 PROVE  Parent(u, "/").kind = opts.mode /\ "/boot" \in DOMAIN u.fs /\ BootApart(u)
      BY <1>1, <2>1, <2>7, CurrentPrimed DEF BootInv, Contained
    <3>1. Parent(Current, "/").kind = opts.mode /\ "/boot" \in DOMAIN Current.fs /\ BootApart(Current)
      BY <1>1, <1>6 DEF DiskInv, BootInv
    <3>2. "/" \in DOMAIN t.fs /\ "/boot" \in DOMAIN t.fs
      BY <1>6, <2>2, <3>1 DEF Stays
    <3>3. Parent(t, "/").kind = opts.mode /\ BootApart(t)
      BY <1>6, <2>2, <3>1, BootStays
    <3>4. Parent(u, "/").kind = opts.mode /\ BootApart(u)
      BY <2>4, <3>2, <3>3, BootStays
    <3> QED
      BY <2>4, <3>2, <3>4
  <2> QED
    BY <1>1, <2>1, <2>6, <2>7, <2>9, <2>11, <2>12 DEF DiskInv
<1> QED
  BY <1>7, <1>8

\* A step after the passes, in which everything stays and grows.
LEMMA LateStep ==
    ASSUME DiskInv, phase \in {"second", "dirs", "layout"}, phase = "second" => todo = <<>>,
           UNCHANGED <<opts, todo, newMounts>>, phase' \in {"dirs", "layout"},
           pc' # "edit" => phase' = "layout",
           IInv', TableOK(Current'), Grows(Current, Current'), Stays(Current, Current'),
           Len(parts') = Len(parts), DirsInv', phase' = "layout" => dirs' = {}
    PROVE  DiskInv'
<1>1. TableInv /\ ControlInv /\ opts' = opts /\ todo' = todo /\ newMounts' = newMounts
  BY DEF DiskInv
<1>2. "/" \in DOMAIN Current.fs /\ TableOK(Current)
  BY <1>1, CurrentFields DEF TableInv
<1>3. TableInv'
  <2>1. "/" \in DOMAIN fs'
    BY <1>2, CurrentPrimed DEF Stays
  <2> QED
    BY <1>1, <2>1 DEF TableInv, MaxPartitions
<1>4. ControlInv'
  BY <1>1 DEF ControlInv
<1>5. ASSUME NEW i \in DOMAIN opts.custom PROVE Honoured(Current', opts.custom[i])
  <2>1. Honoured(Current, opts.custom[i])
    BY DEF DiskInv, Progress, In
  <2>2. opts.custom[i] \in Wish
    BY <1>1, CustomWishes
  <2> QED
    BY <1>2, <2>1, <2>2, HonouredStays
<1>6. Progress'
  BY <1>1, <1>5 DEF Progress
<1>7. BootInv'
  <2> SUFFICES ASSUME Contained
               PROVE  Parent(Current', "/").kind = opts.mode /\ "/boot" \in DOMAIN fs' /\ BootApart(Current')
    BY <1>1 DEF BootInv, Contained
  <2>1. Parent(Current, "/").kind = opts.mode /\ "/boot" \in DOMAIN Current.fs /\ BootApart(Current)
    BY CurrentFields DEF DiskInv, BootInv
  <2>2. Parent(Current', "/").kind = opts.mode /\ BootApart(Current')
    BY <1>2, <2>1, BootStays
  <2> QED
    BY <2>1, <2>2, CurrentPrimed DEF Stays
<1> QED
  BY <1>3, <1>4, <1>6, <1>7 DEF DiskInv

\* EnsureDirectorySizes and relayout.
LEMMA EnlargeAndLayOut ==
    ASSUME DiskInv, DiskEnlarge
    PROVE  DiskInv' /\ Grows(Current, Current')
<1>1. /\ TableInv /\ ControlInv /\ TableOK(Current) /\ IInv /\ opts.required \in Required
      /\ todo' = todo /\ newMounts' = newMounts
  BY CustomWishes DEF DiskInv, TableInv, DiskEnlarge
<1>2. CASE phase = "second" /\ todo = <<>> /\ GroupDirectories
  <2>1. /\ UNCHANGED tableVars /\ opts' = opts /\ UNCHANGED layoutVars /\ phase' = "dirs"
        /\ pc' = pc /\ pc = "edit"
    BY <1>1, <1>2 DEF GroupDirectories, layoutVars, ControlInv
  <2>2. TableInv' /\ Current' = Current /\ Grows(Current, Current')
    BY <1>1, <2>1, TableSame
  <2>3. DirsInv'
    BY <1>1, <1>2, GroupStep DEF TableInv
  <2>4. Stays(Current, Current') /\ parts' = parts
    BY <1>1, <2>1, <2>2, SameKeeps DEF tableVars
  <2>5. IInv' /\ TableOK(Current')
    BY <2>2 DEF TableInv
  <2> QED
    BY <1>1, <1>2, <2>1, <2>2, <2>3, <2>4, <2>5, LateStep
<1>3. CASE StartLayout
  <2>1. /\ UNCHANGED tableVars /\ opts' = opts /\ UNCHANGED layoutVars /\ phase = "dirs"
        /\ phase' = "layout" /\ dirs = {} /\ dirs' = dirs
    BY <1>3 DEF StartLayout
  <2>2. TableInv' /\ Current' = Current /\ Grows(Current, Current')
    BY <1>1, <2>1, TableSame
  <2>3. DirsInv'
    <3>1. DirsInv /\ fs' = fs
      BY <2>1 DEF DiskInv, tableVars
    <3>2. \A n : RequiredOn(fs, n)' = RequiredOn(fs, n)
      BY <2>1, <3>1 DEF RequiredOn, Owner
    <3> QED
      BY <2>1, <2>2, <3>1, <3>2 DEF DirsInv
  <2>4. Stays(Current, Current') /\ parts' = parts
    BY <1>1, <2>1, <2>2, SameKeeps DEF tableVars
  <2>5. IInv' /\ TableOK(Current')
    BY <2>2 DEF TableInv
  <2> QED
    BY <1>1, <2>1, <2>2, <2>3, <2>4, <2>5, LateStep
<1>4. ASSUME NEW m \in dirs, EnlargeForDirs(m)
      PROVE  DiskInv' /\ Grows(Current, Current')
  <2>1. /\ phase = "dirs" /\ phase' = "dirs" /\ opts' = opts /\ UNCHANGED layoutVars
        /\ pc' = pc /\ pc = "edit" /\ DirsInv
    BY <1>1, <1>4 DEF EnlargeForDirs, layoutVars, ControlInv, DiskInv
  <2>2. /\ IInv' /\ TableOK(Current') /\ Grows(Current, Current') /\ Stays(Current, Current')
        /\ Len(parts') = Len(parts) /\ DirsInv'
    BY <1>1, <1>4, <2>1, EnlargeStep
  <2> QED
    BY <1>1, <2>1, <2>2, LateStep
<1>5. CASE DiskLayOut
  <2>1. /\ phase = "layout" /\ phase' = "layout" /\ opts' = opts /\ dirs' = {} /\ DirsInv
    BY <1>5 DEF DiskLayOut, DiskInv
  <2>2. /\ IInv' /\ TableOK(Current') /\ Grows(Current, Current') /\ Stays(Current, Current')
        /\ Len(parts') = Len(parts) /\ DirsInv'
    BY <1>1, <1>5, <2>1, LayOutStep
  <2> QED
    BY <1>1, <2>1, <2>2, LateStep
<1> QED
  BY <1>2, <1>3, <1>4, <1>5 DEF DiskEnlarge, LayTreeOut

\* A step that changes nothing.
LEMMA StutterStep ==
    ASSUME DiskInv, UNCHANGED diskVars
    PROVE  DiskInv' /\ Grows(Current, Current')
<1>1. /\ UNCHANGED tableVars /\ UNCHANGED layoutVars /\ opts' = opts /\ phase' = phase /\ dirs' = dirs
      /\ todo' = todo /\ newMounts' = newMounts /\ fs' = fs /\ pc' = pc
  BY DEF diskVars, treeVars, vars, tableVars, layoutVars
<1>2. TableInv' /\ Current' = Current /\ Grows(Current, Current')
  BY <1>1, TableSame DEF DiskInv
<1>3. \A n : RequiredOn(fs, n)' = RequiredOn(fs, n)
  BY <1>1 DEF RequiredOn, Owner
<1>4. DirsInv => DirsInv'
  BY <1>1, <1>2, <1>3 DEF DirsInv
<1>5. ControlInv' /\ Progress'
  BY <1>1, <1>2 DEF DiskInv, ControlInv, Progress
<1>6. BootInv'
  BY <1>1, <1>2 DEF DiskInv, BootInv, Contained
<1> QED
  BY <1>1, <1>2, <1>4, <1>5, <1>6 DEF DiskInv

\* Every step keeps the invariant and takes nothing from what is mounted.
LEMMA StepDiskInv ==
    ASSUME DiskInv, [DiskNext]_diskVars
    PROVE  DiskInv' /\ Grows(Current, Current')
<1>1. CASE DiskEdit
  <2>1. CASE EnlargeExisting
    BY <1>1, <2>1, EnlargeExistingStep DEF DiskEdit
  <2>2. CASE Convert
    BY <1>1, <2>2, ConvertStep DEF DiskEdit
  <2>3. CASE ApplyNew
    BY <1>1, <2>3, ApplyNewStep DEF DiskEdit
  <2> QED
    BY <1>1, <2>1, <2>2, <2>3 DEF DiskEdit
<1>2. CASE DiskEnlarge
  BY <1>2, EnlargeAndLayOut
<1>3. CASE UNCHANGED diskVars
  BY <1>3, StutterStep
<1> QED
  BY <1>1, <1>2, <1>3 DEF DiskNext, DiskDone

\* The invariant of NewPartitionTable, from the base table to the layout.
THEOREM DiskInvariant == DiskSpec => []DiskInv
<1>1. ASSUME DiskInv, [DiskNext]_diskVars PROVE DiskInv'
  BY <1>1, StepDiskInv
<1> QED
  BY <1>1, InitDiskInv, PTL DEF DiskSpec

\* For every base table, customization and mode: what the blueprint asks for is
\* in the finished table with the size asked for, and every mountpoint has room
\* for the sum of the directories on it.
THEOREM Honours == DiskSpec => []SizesHonoured
<1>1. DiskInv => SizesHonoured
  <2> SUFFICES ASSUME DiskInv, pc = "done"
               PROVE  /\ \A i \in DOMAIN opts.custom : Honoured(Current, opts.custom[i])
                      /\ DirectoriesFit
    BY CurrentFields DEF SizesHonoured, Honoured, Mounted
  <2>1. phase = "layout"
    BY DEF DiskInv, ControlInv
  <2>2. DirectoriesFit
    BY <2>1, DirsFit DEF DiskInv, TableInv
  <2> QED
    BY <2>1, <2>2 DEF DiskInv, Progress
<1> QED
  BY <1>1, DiskInvariant, PTL

\* No mix of a created /boot and created mountpoints makes a table longer than
\* its type allows: CreateMountpoint refuses in time.
THEOREM NotTooLong == DiskSpec => []PartitionLimit
<1>1. DiskInv => PartitionLimit
  BY DEF DiskInv, TableInv, PartitionLimit
<1> QED
  BY <1>1, DiskInvariant, PTL

\* Whatever the base: a root that is converted to LVM or btrfs ends up there,
\* and /boot where a boot loader reads it.
THEOREM Bootable == DiskSpec => []BootReadable
<1>1. DiskInv => BootReadable
  <2> SUFFICES ASSUME DiskInv, pc = "done", Contained
               PROVE  Parent(Current, "/").kind = opts.mode /\ Mounted("/boot") /\ BootApart(Current)
    BY DEF BootReadable, Contained
  <2>1. phase = "layout"
    BY DEF DiskInv, ControlInv
  <2> QED
    BY <2>1 DEF DiskInv, BootInv, Mounted
<1> QED
  BY <1>1, DiskInvariant, PTL

\* No step, not the conversion of the root partition and not the layout, loses
\* a mountpoint or takes space from one.
THEOREM OnlyGrows == DiskSpec => NothingShrinks
<1> DEFINE Shrinks == ~ \A m \in DOMAIN fs :
             m \in DOMAIN fs' /\ VolumeSize(Current', m) >= VolumeSize(Current, m)
<1>1. ASSUME DiskInv, [DiskNext]_diskVars PROVE ~ Shrinks
  <2>1. Grows(Current, Current')
    BY <1>1, StepDiskInv
  <2> QED
    BY <2>1, CurrentFields, CurrentPrimed DEF Grows
<1> QED
  BY <1>1, DiskInvariant, PTL DEF DiskSpec, NothingShrinks

\* mntSizeMap is filled after the passes: until then there is no mountpoint in it.
NotYetGrouped == phase \notin {"dirs", "layout"} => dirs = {}

\* Nothing before EnsureDirectorySizes touches the map.
LEMMA Grouped == DiskSpec => []NotYetGrouped
<1>1. DiskInit => NotYetGrouped
  BY DEF DiskInit, NotYetGrouped
<1>2. ASSUME NotYetGrouped, [DiskNext]_diskVars PROVE NotYetGrouped'
  <2>1. CASE DiskEdit
    <3>1. phase \notin {"dirs", "layout"} /\ dirs' = dirs
      BY <2>1 DEF DiskEdit, EnlargeExisting, Convert, EnsureLVM, EnsureBtrfs, KeepKind, ApplyNew, Fail
    <3> QED
      BY <1>2, <3>1 DEF NotYetGrouped
  <2>2. CASE DiskEnlarge
    <3>1. phase' \in {"dirs", "layout"}
      BY <2>2 DEF DiskEnlarge, LayTreeOut, GroupDirectories, StartLayout, EnlargeForDirs, DiskLayOut
    <3> QED
      BY <3>1 DEF NotYetGrouped
  <2>3. CASE UNCHANGED diskVars
    BY <1>2, <2>3 DEF NotYetGrouped, diskVars, treeVars
  <2> QED
    BY <1>2, <2>1, <2>2, <2>3 DEF DiskNext, DiskDone
<1> QED
  BY <1>1, <1>2, PTL DEF DiskSpec

\* EnsureDirectorySizes ranges over a map: whatever the tables, the sizes and the
\* order of the iteration, any two of its steps give the same table either way
\* round, rounding, metadata and the growth of the table included.
THEOREM AnyOrder == DiskSpec => []OrderIrrelevant
<1>1. ASSUME DiskInv, NotYetGrouped PROVE OrderIrrelevant
  <2> SUFFICES ASSUME NEW m \in dirs, NEW n \in dirs
               PROVE  EnlargedFor(EnlargedFor(Current, m), n) = EnlargedFor(EnlargedFor(Current, n), m)
    BY DEF OrderIrrelevant
  <2>1. m \in DOMAIN fs /\ n \in DOMAIN fs
    BY <1>1 DEF DiskInv, NotYetGrouped, DirsInv
  <2>2. TableOK(Current) /\ Current.fs = fs /\ opts.required \in Required
    BY <1>1, CurrentFields, CustomWishes DEF DiskInv, TableInv
  <2>3. RequiredOn(fs, m) \in Nat /\ RequiredOn(fs, n) \in Nat
    BY <2>1, <2>2, RequiredOnNat
  <2> QED
    BY <2>1, <2>2, <2>3, ResizeCommutes DEF EnlargedFor
<1> QED
  BY <1>1, DiskInvariant, Grouped, PTL

\* The table NewPartitionTable hands out is laid out without overlaps, and
\* every payload fits into its partition.
THEOREM LaidOut == DiskSpec => [](NoOverlap /\ PayloadsFit)
<1>1. DiskInv => NoOverlap /\ PayloadsFit
  BY DEF DiskInv, TableInv, IInv, Sound, Good, NoOverlap, PayloadsFit
<1> QED
  BY <1>1, DiskInvariant, PTL

-----------------------------------------------------------------------------
(* The layout NewPartitionTable ends with is the one of Relayout.          *)

\* The operators of the two are the same: none depends on what the table is.
LEMMA SameOperators ==
    /\ \A a, b : Layout!Larger(a, b) = Larger(a, b)
    /\ \A a, b : Layout!AlignTo(a, b) = AlignTo(a, b)
    /\ \A a : Layout!AlignUp(a) = AlignUp(a)
    /\ \A p, a : Layout!FitTo(p, a) = FitTo(p, a)
    /\ \A p, a, b : Layout!Put(p, a, b) = Put(p, a, b)
    /\ Layout!HeaderSize = HeaderSize /\ Layout!Footer = Footer /\ Layout!FirstStart = FirstStart
    /\ \A a : Layout!DiskSize(a) = DiskSize(a)
<1>1. \A a, b : Layout!Larger(a, b) = Larger(a, b) /\ Layout!AlignTo(a, b) = AlignTo(a, b)
  BY DEF Layout!Larger, Larger, Layout!AlignTo, AlignTo
<1>2. \A a : Layout!AlignUp(a) = AlignUp(a)
  BY <1>1 DEF Layout!AlignUp, AlignUp
<1>3. \A p, a : Layout!VolumesMinSize(p, a) = VolumesMinSize(p, a)
  BY <1>1 DEF Layout!VolumesMinSize, VolumesMinSize
<1>4. \A p, a : Layout!MinSize(p, a) = MinSize(p, a)
  BY <1>3 DEF Layout!MinSize, MinSize
<1>5. \A p, a : Layout!FitTo(p, a) = FitTo(p, a)
  BY <1>1, <1>4 DEF Layout!FitTo, FitTo
<1>6. \A p, a, b : Layout!Put(p, a, b) = Put(p, a, b)
  BY DEF Layout!Put, Put
<1>7. Layout!HeaderSize = HeaderSize
  BY <1>1 DEF Layout!HeaderSize, HeaderSize
<1>8. Layout!Footer = Footer /\ Layout!FirstStart = FirstStart
  BY <1>2, <1>7 DEF Layout!Footer, Footer, Layout!FirstStart, FirstStart
<1>9. \A a : Layout!DiskSize(a) = DiskSize(a)
  BY <1>1 DEF Layout!DiskSize, DiskSize
<1> QED
  BY <1>1, <1>2, <1>5, <1>6, <1>7, <1>8, <1>9

\* The call of relayout is Relayout's first step on the table made so far.
LEMMA LayOutRefines == LayOut => Layout!LayOut
<1>1. ASSUME NEW s \in ImageSizes, Begin(s) PROVE Layout!Begin(s)
  BY <1>1, SameOperators DEF Begin, Layout!Begin
<1>2. SkipRoot => Layout!SkipRoot
  BY DEF SkipRoot, Layout!SkipRoot
<1>3. Place => Layout!Place
  BY SameOperators DEF Place, Layout!Place
<1>4. SortPartitions => Layout!SortPartitions
  BY DEF SortPartitions, Layout!SortPartitions, Sorts, Layout!Sorts
<1>5. ASSUME NEW i \in DOMAIN parts, PlaceRoot(i) PROVE Layout!PlaceRoot(i)
  BY <1>5, SameOperators DEF PlaceRoot, Layout!PlaceRoot
<1> QED
  BY <1>1, <1>2, <1>3, <1>4, <1>5 DEF LayOut, Layout!LayOut

\* Before the layout the table is one that Relayout may be called on.
LEMMA TableFits == TableInv /\ pc # "done" => parts \in AnyTable /\ size \in Nat
  BY DEF TableInv, IInv, TypeOK, AnyTable

\* NewPartitionTable implements Relayout: all it does before relayout is a
\* caller's edit, relayout is called once and nothing comes after it.
THEOREM LayoutImplemented == DiskSpec => LayoutSpec
<1>1. DiskInit => Layout!Init
  <2> SUFFICES ASSUME DiskInit PROVE Layout!Init
    OBVIOUS
  <2>1. TableInv /\ pc = "edit"
    BY InitDiskInv DEF DiskInv, DiskInit
  <2>2. parts \in AnyTable /\ size \in Nat
    BY <2>1, TableFits
  <2> QED
    BY <2>2 DEF DiskInit, Layout!Init
<1>2. ASSUME DiskInv, DiskInv', [DiskNext]_diskVars PROVE [Layout!Next]_(Layout!vars)
  <2>1. CASE DiskLayOut
    BY <2>1, LayOutRefines DEF DiskLayOut, Layout!Next
  <2>2. ASSUME pc = "edit", UNCHANGED layoutVars PROVE Layout!Edit
    <3>1. pc' = "edit" /\ target' = target /\ idx' = idx /\ start' = start
      BY <2>2 DEF layoutVars
    <3>2. parts' \in Seq(Partition) /\ OneRoot(parts') /\ size' \in Nat
      BY <1>2, <3>1 DEF DiskInv, TableInv, IInv, TypeOK
    <3>3. parts' \in AnyTable
      BY <3>2 DEF AnyTable
    <3> QED
      BY <2>2, <3>1, <3>2, <3>3 DEF Layout!Edit
  <2>3. CASE DiskEdit
    <3>1. phase \in {"first", "second"} /\ UNCHANGED layoutVars
      BY <2>3 DEF DiskEdit, EnlargeExisting, Convert, ApplyNew
    <3>2. pc = "edit"
      BY <1>2, <3>1 DEF DiskInv, ControlInv
    <3> QED
      BY <2>2, <3>1, <3>2 DEF Layout!Next
  <2>4. CASE DiskEnlarge /\ ~ DiskLayOut
    <3>1. phase \in {"second", "dirs"} /\ UNCHANGED layoutVars
      BY <2>4 DEF DiskEnlarge, LayTreeOut, GroupDirectories, StartLayout, EnlargeForDirs
    <3>2. pc = "edit"
      BY <1>2, <3>1 DEF DiskInv, ControlInv
    <3> QED
      BY <2>2, <3>1, <3>2 DEF Layout!Next
  <2>5. CASE UNCHANGED diskVars
    BY <2>5 DEF diskVars, treeVars, vars, Layout!vars
  <2> QED
    BY <1>2, <2>1, <2>3, <2>4, <2>5 DEF DiskNext, DiskDone
<1> QED
  BY <1>1, <1>2, DiskInvariant, PTL DEF DiskSpec, LayoutSpec, Layout!Spec
=============================================================================
