------------------------------ MODULE DiskTree ------------------------------
(***************************************************************************)
(* The tree of entities of pkg/disk above Relayout: what is mounted on     *)
(* which partition, resizeEntityBranch and EnsureDirectorySizes, which     *)
(* both ways of making a partition table end with.                         *)
(***************************************************************************)
EXTENDS Relayout, SequencesExt, FiniteSetsExt

CONSTANTS Required,     \* functions from directories to sizes
          Ancestors     \* of a directory: itself and its parents, up to "/"

ASSUME RequiredAssumption ==
    \A r \in Required :
      /\ IsFiniteSet(DOMAIN r)
      /\ \A d \in DOMAIN r :
           /\ r[d] \in Nat /\ Ancestors[d] \in Seq(STRING)
           /\ \E i \in DOMAIN Ancestors[d] : Ancestors[d][i] = "/"

\* What is mounted where: fs[m].on is the id of a partition, fs[m].size the
\* size of the logical volume or subvolume (0 on a plain partition).
VARIABLES fs,
          opts,         \* what is asked for; opts.required is in Required
          dirs,         \* mountpoints EnsureDirectorySizes has still to enlarge
          phase

layoutVars == <<target, pc, idx, start>>
tableVars == <<parts, size, fs>>
treeVars == <<vars, fs, opts, dirs, phase>>

-----------------------------------------------------------------------------

SumSizes(t) == SumFunction([i \in DOMAIN t |-> t[i].size])
Contents(f, id) == SumFunction([m \in {n \in DOMAIN f : f[n].on = id} |-> f[m].size])
Index(t, id) == CHOOSE i \in DOMAIN t : t[i].id = id

\* A file system or swap: where it is, and the size of its volume.
Volume == [on : Nat, size : Nat]

\* Ids tell partitions apart.
DistinctIds(ps) == \A i, j \in DOMAIN ps : ps[i].id = ps[j].id => i = j

\* A plain partition has one file system, which has no size of its own.
MountsOK(t) ==
    /\ IsFiniteSet(DOMAIN t.fs) /\ t.fs \in [DOMAIN t.fs -> Volume]
    /\ \A m \in DOMAIN t.fs : \E i \in DOMAIN t.parts :
         /\ t.parts[i].id = t.fs[m].on
         /\ t.parts[i].kind = "plain" =>
              t.fs[m].size = 0 /\ \A n \in DOMAIN t.fs : t.fs[n].on = t.fs[m].on => n = m

\* A partition table with what is mounted on it.
IsTable(t) == t = [parts |-> t.parts, fs |-> t.fs, size |-> t.size]

TableOK(t) ==
    /\ IsTable(t)
    /\ t.parts \in Seq(Partition) /\ DistinctIds(t.parts) /\ t.size \in Nat
    /\ MountsOK(t)

Current == [parts |-> parts, fs |-> fs, size |-> size]

Parent(t, m) == t.parts[Index(t.parts, t.fs[m].on)]
Mounted(m) == m \in DOMAIN fs

\* alignEntityBranch: to the extents of a volume group, and to the grain.
AlignBranch(p, s) == AlignUp(IF p.kind = "lvm" THEN AlignTo(s, Extent) ELSE s)

\* EnsureSize of the volume mounted at m: the volumes once it is large enough.
EnsureVolume(t, m, s) ==
    LET p == t.parts[Index(t.parts, t.fs[m].on)]
    IN  CASE p.kind = "plain" -> t.fs
          [] p.kind = "lvm" -> [t.fs EXCEPT ![m].size = AlignTo(s, Extent)]
          [] p.kind = "btrfs" -> [t.fs EXCEPT ![m].size = s]

\* Mutant: a partition that has a size already is taken to be large enough.
Resize_OnlyEmpty(t, m, s) ==
    LET i == Index(t.parts, t.fs[m].on)
        f == EnsureVolume(t, m, s)
        content == Contents(f, t.parts[i].id)
        need == s + content
        p == [t.parts[i] EXCEPT !.content = content, !.size = IF @ = 0 THEN need ELSE @]
        ps == [t.parts EXCEPT ![i] = p]
    IN  IF t.parts[i].kind # "plain" /\ s <= t.fs[m].size THEN t
        ELSE [parts |-> ps, fs |-> f, size |-> Larger(t.size, Larger(need, SumSizes(ps)))]

\* Mutant: the branch is enlarged up to the volume, not the partition around it.
Resize_StopAtVolume(t, m, s) ==
    LET i == Index(t.parts, t.fs[m].on)
        f == EnsureVolume(t, m, s)
    IN  IF t.parts[i].kind # "plain" /\ s <= t.fs[m].size THEN t
        ELSE [t EXCEPT !.fs = f, !.parts[i].content = Contents(f, t.parts[i].id)]

\* resizeEntityBranch from the file system mounted at m up to the table.  A
\* volume that is large enough already ends it, and so does the partition.
Resize(t, m, s) ==
    LET i == Index(t.parts, t.fs[m].on)
        f == EnsureVolume(t, m, s)
        content == Contents(f, t.parts[i].id)
        p == [t.parts[i] EXCEPT !.content = content]
        need == Larger(s, content + (IF p.kind = "lvm" THEN VGMetadata ELSE 0))
                  + (IF p.luks THEN LUKSMetadata ELSE 0)
        ps == [t.parts EXCEPT ![i] = [p EXCEPT !.size = need]]
    IN  CASE p.kind # "plain" /\ s <= t.fs[m].size -> t
          [] OTHER -> IF need <= p.size
                      THEN [t EXCEPT !.fs = f, !.parts[i] = p]
                      ELSE [parts |-> ps, fs |-> f,
                            size |-> Larger(t.size, Larger(need, SumSizes(ps)))]

Become(t) == parts' = t.parts /\ fs' = t.fs /\ size' = t.size

FreshId(t) == 1 + Max({0} \union {t.parts[i].id : i \in DOMAIN t.parts})

\* What is mounted once m is mounted on the partition id, too.
Mount(f, m, id) ==
    [n \in DOMAIN f \union {m} |-> IF n = m THEN [on |-> id, size |-> 0] ELSE f[n]]

\* A partition as it is appended to the table, with m mounted on it.
AddPartition(t, m, s) ==
    [t EXCEPT !.parts = Append(@, [id |-> FreshId(t), start |-> 0, size |-> s, root |-> m = "/",
                                   kind |-> "plain", luks |-> FALSE, content |-> 0]),
              !.fs = Mount(@, m, FreshId(t))]

MaxPartitions == IF Type = "gpt" THEN 128 ELSE 4

-----------------------------------------------------------------------------

\* findDirectoryEntityPath: the mountpoint a directory lies on.
Owner(f, d) ==
    LET a == Ancestors[d]
        found == {i \in DOMAIN a : a[i] \in DOMAIN f}
    IN  a[CHOOSE i \in found : \A j \in found : i <= j]

\* The sizes of all the directories that lie on mountpoint m.
RequiredOn(f, m) ==
    SumFunctionOnSet(opts.required, {d \in DOMAIN opts.required : Owner(f, d) = m})

\* The first loop of EnsureDirectorySizes: the mountpoints to enlarge.
GroupDirectories ==
    /\ dirs' = {Owner(fs, d) : d \in DOMAIN opts.required}
    /\ phase' = "dirs"
    /\ UNCHANGED <<tableVars, opts, layoutVars>>

\* One entry of mntSizeMap, which is iterated in any order.
EnlargeForDirs(m) ==
    /\ phase = "dirs" /\ m \in dirs
    /\ Become(Resize(Current, m, RequiredOn(fs, m)))
    /\ dirs' = dirs \ {m}
    /\ UNCHANGED <<opts, layoutVars, phase>>

StartLayout ==
    /\ phase = "dirs" /\ dirs = {}
    /\ phase' = "layout" /\ UNCHANGED <<tableVars, opts, layoutVars, dirs>>

\* Mutant: the table is laid out before all directories are looked at.
DiskLayOut_Early ==
    phase \in {"dirs", "layout"} /\ LayOut /\ UNCHANGED <<fs, opts, dirs, phase>>

DiskLayOut == phase = "layout" /\ LayOut /\ UNCHANGED <<fs, opts, dirs, phase>>

LayTreeOut == DiskLayOut \/ StartLayout \/ \E m \in dirs : EnlargeForDirs(m)

-----------------------------------------------------------------------------

\* What the file system mounted at m has to itself.
VolumeSize(t, m) ==
    LET p == Parent(t, m)
    IN  IF p.kind = "plain" THEN p.size - (IF p.luks THEN LUKSMetadata ELSE 0)
        ELSE t.fs[m].size

\* Every mountpoint has room for the sum of the directories on it.
DirectoriesFit == \A m \in DOMAIN fs : VolumeSize(Current, m) >= RequiredOn(fs, m)
=============================================================================
