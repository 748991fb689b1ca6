----------------------------- MODULE CustomDisk -----------------------------
(***************************************************************************)
(* NewCustomPartitionTable of pkg/disk/partition_table.go: a partition     *)
(* table made of what a blueprint lists, the partitions the boot mode      *)
(* needs, and a /boot and a root file system where the list has none.      *)
(***************************************************************************)
EXTENDS DiskTree

CONSTANTS Requests,     \* partitions to ask for: [kind, size, vols], vols: mount -> size
          Customs,      \* sequences of them
          Boots,        \* of [arch, mode]
          Policies,     \* values of Policy.EnsureXBOOTLDR
          Defaults,     \* whether options.DefaultFSType is set
          ESPSize, BIOSSize, PRePSize, BootSize

\* A partition as it is asked for: a plain one has one file system or none, and
\* sizes of volumes are those of logical volumes.
RequestOK(r) ==
    /\ r.kind \in Kinds /\ r.size \in Nat /\ IsFiniteSet(DOMAIN r.vols)
    /\ \A m \in DOMAIN r.vols :
         r.vols[m] \in Nat /\ (r.kind = "plain" => r.vols[m] = 0 /\ DOMAIN r.vols = {m})

\* A blueprint that is valid lists no mountpoint twice.
ASSUME CustomAssumption ==
    /\ \A r \in Requests : RequestOK(r)
    /\ \A c \in Customs :
         /\ c \in Seq(Requests)
         /\ \A i, j \in DOMAIN c : i # j => DOMAIN c[i].vols \intersect DOMAIN c[j].vols = {}
    /\ Boots \subseteq [arch : {"x86_64", "aarch64", "riscv64", "ppc64le", "s390x"},
                        mode : {"none", "legacy", "uefi", "hybrid"}]
    /\ Policies \subseteq BOOLEAN /\ Defaults \subseteq BOOLEAN
    /\ ESPSize \in Nat /\ BIOSSize \in Nat /\ PRePSize \in Nat /\ BootSize \in Nat

VARIABLES todo,         \* partitions of the blueprint still to be added
          twice         \* mountpoints that were added although they existed

customVars == <<treeVars, todo, twice>>

-----------------------------------------------------------------------------

Plain(m, s) == [kind |-> "plain", size |-> s, vols |-> [n \in {m} |-> 0]]
Bare(s) == [kind |-> "plain", size |-> s, vols |-> [n \in {} |-> 0]]

\* The table with a requested partition at its end.  entityPath finds the
\* first of two volumes with one mountpoint: fs keeps that one.
Added(t, r) ==
    LET id == FreshId(t)
        aligned(m) == IF r.kind = "lvm" THEN AlignTo(r.vols[m], Extent) ELSE r.vols[m]
        f == [m \in DOMAIN t.fs \union DOMAIN r.vols |->
                IF m \in DOMAIN t.fs THEN t.fs[m] ELSE [on |-> id, size |-> aligned(m)]]
    IN  [t EXCEPT !.fs = f,
                  !.parts = Append(@, [id |-> id, start |-> 0, size |-> r.size,
                                       root |-> "/" \in DOMAIN r.vols, kind |-> r.kind,
                                       luks |-> FALSE, content |-> Contents(f, id)])]

\* Two partitions at most are added in one go.
AddAll(rs) ==
    /\ Become(CASE Len(rs) = 0 -> Current
                [] Len(rs) = 1 -> Added(Current, rs[1])
                [] Len(rs) = 2 -> Added(Added(Current, rs[1]), rs[2]))
    /\ twice' = twice \union {m \in DOMAIN fs : \E i \in DOMAIN rs : m \in DOMAIN rs[i].vols}

Asked == opts.custom
AskedPlain(m) == \E i \in DOMAIN Asked : Asked[i].kind = "plain" /\ m \in DOMAIN Asked[i].vols

CustomInit ==
    /\ parts = <<>> /\ fs = <<>> /\ size = 0
    /\ opts \in [custom : Customs, boot : Boots, policy : Policies,
                 default : Defaults, required : Required]
    /\ todo = Asked /\ twice = {} /\ dirs = {} /\ phase = "boot mode"
    /\ target = 0 /\ pc = "edit" /\ idx = 0 /\ start = 0

\* What the firmware of the architecture boots from.
BootPartitions ==
    LET esp == IF AskedPlain("/boot/efi") THEN <<>> ELSE <<Plain("/boot/efi", ESPSize)>>
        bios == <<Bare(BIOSSize)>>
        mode == opts.boot.mode
    IN  CASE mode = "none" \/ opts.boot.arch = "s390x" -> <<>>
          [] mode # "none" /\ opts.boot.arch = "ppc64le" -> <<Bare(PRePSize)>>
          [] mode # "none" /\ opts.boot.arch \in {"aarch64", "riscv64"} -> esp
          [] opts.boot.arch = "x86_64" /\ mode = "legacy" -> bios
          [] opts.boot.arch = "x86_64" /\ mode = "uefi" -> esp
          [] opts.boot.arch = "x86_64" /\ mode = "hybrid" -> bios \o esp

AddPartitionsForBootMode ==
    /\ phase = "boot mode"
    /\ AddAll(BootPartitions)
    /\ phase' = "boot" /\ UNCHANGED todo

\* Mutant: a /boot is made only for a root that is asked for.
NeedsBoot_AskedRoot ==
    /\ ~ AskedPlain("/") /\ ~ AskedPlain("/boot")
    /\ \E i \in DOMAIN Asked :
         /\ Asked[i].kind # "plain" /\ "/" \in DOMAIN Asked[i].vols
         /\ ~ (Asked[i].kind = "btrfs" /\ "/boot" \in DOMAIN Asked[i].vols)

\* needsBoot: "/" is, or will be, on LVM or btrfs.
NeedsBoot ==
    /\ ~ AskedPlain("/") /\ ~ AskedPlain("/boot")
    /\ ~ \E i \in DOMAIN Asked :
           Asked[i].kind = "btrfs" /\ {"/", "/boot"} \subseteq DOMAIN Asked[i].vols
    /\ \E i \in DOMAIN Asked : Asked[i].kind # "plain"

MaybeAddBootPartition ==
    /\ phase = "boot"
    /\ AddAll(IF opts.policy /\ NeedsBoot THEN <<Plain("/boot", BootSize)>> ELSE <<>>)
    /\ phase' = "user" /\ UNCHANGED todo

\* addPlainPartition, addLVMPartition, addBtrfsPartition
AddUserPartition ==
    /\ phase = "user" /\ todo # <<>>
    /\ AddAll(<<Head(todo)>>)
    /\ todo' = Tail(todo) /\ UNCHANGED phase

Volumes == {i \in DOMAIN parts : parts[i].kind # "plain"}

\* The table with "/" in the first container, or else at its end.
WithRoot ==
    LET i == Min(Volumes)
    IN  IF Volumes = {} THEN AddPartition(Current, "/", 0)
        ELSE [Current EXCEPT !.parts[i].root = TRUE,
                             !.fs = Mount(@, "/", parts[i].id)]

\* A root in a btrfs needs no default type: a subvolume has none.
RootPossible ==
    opts.default \/ (Volumes # {} /\ parts[Min(Volumes)].kind = "btrfs")

EnsureRootFilesystem ==
    /\ phase = "user" /\ todo = <<>>
    /\ IF Mounted("/") \/ RootPossible
       THEN Become(IF Mounted("/") THEN Current ELSE WithRoot) /\ phase' = "sized"
       ELSE phase' = "failed" /\ UNCHANGED tableVars
    /\ UNCHANGED <<todo, twice>>

\* A DOS table is refused at the end if it has become too long.
CheckTable ==
    /\ phase = "layout" /\ pc = "done"
    /\ phase' = IF Type = "dos" /\ Len(parts) > MaxPartitions THEN "failed" ELSE "finished"
    /\ UNCHANGED <<tableVars, todo, twice>>

CustomEdit ==
    /\ \/ AddPartitionsForBootMode \/ MaybeAddBootPartition \/ AddUserPartition
       \/ EnsureRootFilesystem \/ CheckTable
    /\ UNCHANGED <<opts, dirs, layoutVars>>

CustomEnlarge ==
    /\ \/ phase = "sized" /\ GroupDirectories
       \/ LayTreeOut
    /\ UNCHANGED <<todo, twice>>

CustomDone == phase \in {"failed", "finished"} /\ UNCHANGED customVars

CustomNext == CustomEdit \/ CustomEnlarge \/ CustomDone

CustomSpec == CustomInit /\ [][CustomNext]_customVars

-----------------------------------------------------------------------------

\* Everything the blueprint lists is in the table, together on a partition of
\* the kind it lists, with the sizes it asks for at the least, also after the
\* sizes of directories and the layout changed them; and there is one root.
AsRequested ==
    phase = "finished" =>
      /\ OneRoot(parts)
      /\ \A i \in DOMAIN Asked : \A m \in DOMAIN Asked[i].vols \ twice :
           /\ Mounted(m) /\ VolumeSize(Current, m) >= Asked[i].vols[m]
           /\ Parent(Current, m).kind = Asked[i].kind /\ Parent(Current, m).size >= Asked[i].size
           /\ \A n \in DOMAIN Asked[i].vols \ twice : fs[n].on = fs[m].on
      /\ DirectoriesFit

\* "We need a /boot partition to boot LVM or Btrfs": when the policy provides
\* for it and the root is on one of them, /boot is on a partition of its own,
\* or on the btrfs of the root.
BootReachable ==
    (phase = "finished" /\ opts.policy /\ Parent(Current, "/").kind # "plain") =>
       /\ Mounted("/boot")
       /\ \/ Parent(Current, "/boot").kind = "plain"
          \/ Parent(Current, "/").kind = "btrfs" /\ fs["/boot"].on = fs["/"].on

\* "create boot partition if it does not already exist": nothing is mounted
\* over what the blueprint or the table has already.
MountedOnce == phase = "finished" => twice = {}
=============================================================================
