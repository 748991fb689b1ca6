----------------------------- MODULE DiskLayout -----------------------------
(***************************************************************************)
(* NewPartitionTable of pkg/disk/partition_table.go: a base table is       *)
(* adapted to the mountpoints and directory sizes an image asks for, its   *)
(* root partition perhaps converted to LVM or btrfs, and then laid out by  *)
(* Relayout.                                                               *)
(***************************************************************************)
EXTENDS DiskTree

CONSTANTS Bases,        \* base tables: [parts, fs, size]
          Customs,      \* sequences of [mount, size]: the customization
          Modes,        \* of "raw", "lvm", "auto-lvm", "btrfs"
          Policies,     \* values of Policy.EnsureXBOOTLDR
          DefaultFs,    \* "xfs" or "btrfs"
          GiB, BootMin  \* 1 GiB, and the 500 MB clampFSSize asks of /boot

ASSUME DiskLayoutAssumption ==
    /\ Customs \subseteq Seq([mount : STRING, size : Nat])
    /\ Modes \subseteq {"raw", "lvm", "auto-lvm", "btrfs"} /\ Policies \subseteq BOOLEAN
    /\ GiB \in Nat /\ BootMin \in Nat

\* /boot, if there is one, is on a partition of its own or in the root's btrfs.
BootApart(t) ==
    "/boot" \in DOMAIN t.fs =>
      \/ Parent(t, "/boot").kind = "plain"
      \/ Parent(t, "/").kind = "btrfs" /\ t.fs["/boot"].on = t.fs["/"].on

\* Base tables have a root file system and no more partitions than they can
\* hold.
ASSUME BasesAssumption ==
    \A b \in Bases :
      /\ TableOK(b) /\ OneRoot(b.parts) /\ Len(b.parts) <= MaxPartitions
      /\ "/" \in DOMAIN b.fs /\ BootApart(b)

VARIABLES todo,         \* mountpoints the current pass has still to look at
          newMounts     \* newMountpoints: those that the first pass did not find

diskVars == <<treeVars, todo, newMounts>>

-----------------------------------------------------------------------------

\* clampFSSize
Clamp(m, s) == Larger(s, IF m = "/boot" THEN BootMin ELSE GiB)

HasLVM == \E i \in DOMAIN parts : parts[i].kind = "lvm"

Fail == phase' = "failed" /\ UNCHANGED <<tableVars, todo, newMounts, dirs>>

-----------------------------------------------------------------------------

DiskInit ==
    /\ \E b \in Bases : parts = b.parts /\ fs = b.fs /\ size = b.size
    /\ opts \in [custom : Customs, mode : Modes, policy : Policies, required : Required]
    /\ todo = opts.custom /\ newMounts = <<>> /\ dirs = {}
    /\ phase = IF HasLVM /\ opts.mode \in {"raw", "btrfs"} THEN "failed" ELSE "first"
    /\ target = 0 /\ pc = "edit" /\ idx = 0 /\ start = 0

\* First pass of applyCustomization, one mountpoint: enlarge it or remember it.
EnlargeExisting ==
    /\ phase = "first" /\ todo # <<>>
    /\ LET c == Head(todo) IN
         IF Mounted(c.mount)
         THEN /\ Become(Resize(Current, c.mount,
                               AlignBranch(Parent(Current, c.mount), Clamp(c.mount, c.size))))
              /\ UNCHANGED newMounts
         ELSE newMounts' = Append(newMounts, c) /\ UNCHANGED tableVars
    /\ todo' = Tail(todo)
    /\ UNCHANGED <<dirs, phase>>

\* Mutant: the new volume starts empty.
Wrap_ForgetsSize(t, kind) ==
    LET i == Index(t.parts, t.fs["/"].on)
    IN  [t EXCEPT !.parts[i] = [@ EXCEPT !.kind = kind, !.size = 0, !.content = 0]]

\* ensureLVM and ensureBtrfs: the root partition becomes a container of "kind"
\* with "/" in a volume of the size it had; its own size is found again later.
Wrap(t, kind) ==
    LET i == Index(t.parts, t.fs["/"].on)
        s == IF kind = "lvm" THEN AlignTo(t.parts[i].size, Extent) ELSE t.parts[i].size
    IN  [t EXCEPT !.fs["/"].size = s,
                  !.parts[i] = [@ EXCEPT !.kind = kind, !.size = 0, !.content = s]]

\* The table with a /boot, which a firmware can read.
WithBoot(t) ==
    IF "/boot" \in DOMAIN t.fs THEN t ELSE AddPartition(t, "/boot", GiB)

NeedLVM ==
    \/ opts.mode = "lvm"
    \/ opts.mode = "auto-lvm" /\ newMounts # <<>>

\* Whether the partition can take another one, if /boot is missing.
BootPossible == "/boot" \in DOMAIN fs \/ Len(parts) < MaxPartitions

\* Mutant: a missing /boot is not noticed.
EnsureLVM_NoBoot ==
    /\ NeedLVM
    /\ LET root == Parent(Current, "/") IN
         IF root.kind = "btrfs" \/ (root.kind = "plain" /\ root.luks) THEN Fail
         ELSE /\ Become(IF root.kind = "lvm" THEN Current ELSE Wrap(Current, "lvm"))
              /\ phase' = "second" /\ todo' = newMounts /\ UNCHANGED <<newMounts, dirs>>

EnsureLVM ==
    /\ NeedLVM
    /\ LET root == Parent(Current, "/")
           booted == WithBoot(Current)
       IN  IF \/ ~ Mounted("/boot") /\ ~ opts.policy
              \/ ~ BootPossible
              \/ root.kind = "btrfs"
              \/ root.kind = "plain" /\ root.luks
           THEN Fail
           ELSE /\ Become(IF root.kind = "lvm" THEN booted ELSE Wrap(booted, "lvm"))
                /\ phase' = "second" /\ todo' = newMounts /\ UNCHANGED <<newMounts, dirs>>

EnsureBtrfs ==
    /\ opts.mode = "btrfs"
    /\ LET root == Parent(Current, "/")
           booted == IF opts.policy THEN WithBoot(Current) ELSE Current
       IN  IF (opts.policy /\ ~ BootPossible) \/ (root.kind = "plain" /\ root.luks) THEN Fail
           ELSE /\ Become(IF root.kind = "btrfs" THEN booted ELSE Wrap(booted, "btrfs"))
                /\ phase' = "second" /\ todo' = newMounts /\ UNCHANGED <<newMounts, dirs>>

KeepKind ==
    /\ opts.mode # "btrfs" /\ ~ NeedLVM
    /\ phase' = "second" /\ todo' = newMounts /\ UNCHANGED <<tableVars, newMounts, dirs>>

Convert ==
    /\ phase = "first" /\ todo = <<>>
    /\ EnsureLVM \/ EnsureBtrfs \/ KeepKind

\* CreateMountpoint of the innermost container around "/" that has one: a
\* volume group, a btrfs or else the table, which gets a new partition.
CreateVolume(t, m) ==
    LET i == Index(t.parts, t.fs["/"].on)
    IN  IF t.parts[i].kind = "plain" THEN AddPartition(t, m, 0)
        ELSE [t EXCEPT !.fs = Mount(@, m, t.parts[i].id)]

\* Mutant: the number of partitions is not looked at.
CannotCreate_NoLimit ==
    LET kind == Parent(Current, "/").kind
        ptFs == IF opts.mode = "btrfs" THEN "btrfs" ELSE DefaultFs
    IN  (kind = "lvm" /\ ptFs = "btrfs") \/ (kind = "btrfs" /\ ptFs # "btrfs")

\* Volume groups take no btrfs, and a btrfs nothing else; tables fill up.
CannotCreate ==
    LET kind == Parent(Current, "/").kind
        ptFs == IF opts.mode = "btrfs" THEN "btrfs" ELSE DefaultFs
    IN  \/ kind = "lvm" /\ ptFs = "btrfs"
        \/ kind = "btrfs" /\ ptFs # "btrfs"
        \/ kind = "plain" /\ Len(parts) = MaxPartitions

\* Mutant: a created volume keeps the size it was created with.
ApplyNew_NoResize ==
    /\ phase = "second" /\ todo # <<>>
    /\ LET m == Head(todo).mount IN
         Become(IF Mounted(m) THEN Current ELSE CreateVolume(Current, m))
    /\ todo' = Tail(todo)
    /\ UNCHANGED <<newMounts, dirs, phase>>

\* Second pass: each mountpoint is there by now, or is created.
ApplyNew ==
    /\ phase = "second" /\ todo # <<>>
    /\ LET m == Head(todo).mount
           t == IF Mounted(m) THEN Current ELSE CreateVolume(Current, m)
       IN  IF ~ Mounted(m) /\ CannotCreate THEN Fail
           ELSE /\ Become(Resize(t, m, AlignBranch(Parent(t, m), Clamp(m, Head(todo).size))))
                /\ todo' = Tail(todo)
                /\ UNCHANGED <<newMounts, dirs, phase>>

DiskEdit ==
    /\ EnlargeExisting \/ Convert \/ ApplyNew
    /\ UNCHANGED <<opts, layoutVars>>

DiskEnlarge ==
    /\ \/ phase = "second" /\ todo = <<>> /\ GroupDirectories
       \/ LayTreeOut
    /\ UNCHANGED <<todo, newMounts>>

DiskDone == (phase = "failed" \/ pc = "done") /\ UNCHANGED diskVars

DiskNext == DiskEdit \/ DiskEnlarge \/ DiskDone

DiskSpec == DiskInit /\ [][DiskNext]_diskVars

-----------------------------------------------------------------------------

\* "Desired sizes for partitions, partition tables, volumes, directories, etc,
\* are always treated as minimum sizes": in the finished table every requested
\* mountpoint exists and has the size asked for, and every mountpoint has room
\* for the sum of the directories on it.
SizesHonoured ==
    pc = "done" =>
      /\ \A i \in DOMAIN opts.custom : LET c == opts.custom[i] IN
           Mounted(c.mount) /\ VolumeSize(Current, c.mount) >= Clamp(c.mount, c.size)
      /\ DirectoriesFit

\* A table never has more partitions than its type can hold, whatever mix of
\* a created /boot and created mountpoints leads to it.
PartitionLimit == Len(parts) <= MaxPartitions

\* A table with its root converted to LVM, or to btrfs when the policy asks
\* for it, has its root there and a /boot that a boot loader reads: on a
\* partition of its own, or in the btrfs of the root where the base has it.
BootReadable ==
    (pc = "done" /\ (opts.mode = "lvm" \/ (opts.mode = "btrfs" /\ opts.policy))) =>
       /\ Parent(Current, "/").kind = opts.mode
       /\ Mounted("/boot") /\ BootApart(Current)

\* No step, the conversion of the root partition included, loses a mountpoint
\* or takes space from what is mounted.
NothingShrinks ==
    [][\A m \in DOMAIN fs :
         m \in DOMAIN fs' /\ VolumeSize(Current', m) >= VolumeSize(Current, m)]_diskVars

EnlargedFor(t, m) == Resize(t, m, RequiredOn(fs, m))

\* mntSizeMap is iterated in another order every time; whichever of two
\* mountpoints comes first, the table is the same, so that one blueprint always
\* gives one manifest.
OrderIrrelevant ==
    \A m, n \in dirs : EnlargedFor(EnlargedFor(Current, m), n) = EnlargedFor(EnlargedFor(Current, n), m)

\* What relayout is called on and does is Relayout, for which it is proved that
\* partitions are apart and hold their payloads.
AnyTable == {t \in Seq(Partition) : OneRoot(t)}
Layout == INSTANCE Relayout WITH Tables <- AnyTable, DiskSizes <- Nat
LayoutSpec == Layout!Spec
=============================================================================
