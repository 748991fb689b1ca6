-------------------------- MODULE CustomDiskProofs --------------------------
(***************************************************************************)
(* NewCustomPartitionTable, for every valid blueprint, boot mode and       *)
(* directory size: all that is asked for is in the table, the root file    *)
(* system is there once, and the table can be booted.                      *)
(***************************************************************************)
EXTENDS CustomDisk, DiskTreeProofs

-----------------------------------------------------------------------------
(* What adding a partition does to a table.                                *)

\* The root partition is the one "/" is on.
Rooted(t) ==
    \A i \in DOMAIN t.parts :
      /\ t.parts[i].root => "/" \in DOMAIN t.fs /\ t.parts[i].id = t.fs["/"].on
      /\ "/" \in DOMAIN t.fs /\ t.parts[i].id = t.fs["/"].on => t.parts[i].root

\* u is table t with what r asks for.
AddedTo(t, u, r) ==
    /\ DOMAIN u.fs = DOMAIN t.fs \union DOMAIN r.vols
    /\ \A n \in DOMAIN r.vols \ DOMAIN t.fs :
         /\ Parent(u, n).kind = r.kind /\ Parent(u, n).size >= r.size
         /\ u.fs[n].on = FreshId(t) /\ VolumeSize(u, n) >= r.vols[n]
    /\ \A i \in DOMAIN u.parts : u.parts[i].kind # "plain" =>
         r.kind # "plain" \/ \E j \in DOMAIN t.parts : t.parts[j].kind # "plain"
    /\ Rooted(t) /\ ~ ("/" \in DOMAIN t.fs /\ "/" \in DOMAIN r.vols) => Rooted(u)

\* A table with a root file system has one root partition.
LEMMA RootedOne ==
    ASSUME NEW t, TableOK(t), Rooted(t), "/" \in DOMAIN t.fs
    PROVE  OneRoot(t.parts)
<1>1. PICK r \in DOMAIN t.parts : t.parts[r].id = t.fs["/"].on
  BY DEF TableOK, MountsOK
<1>2. \A j \in DOMAIN t.parts : t.parts[j].id = t.parts[r].id => j = r
  BY DEF TableOK, DistinctIds
<1>3. \A j \in DOMAIN t.parts : t.parts[j].root <=> j = r
  BY <1>1, <1>2 DEF Rooted
<1> QED
  BY <1>3 DEF OneRoot

\* addPlainPartition, addLVMPartition and addBtrfsPartition.
LEMMA AddedKeeps ==
    ASSUME NEW t, TableOK(t), NEW r, RequestOK(r), NEW u, u = Added(t, r)
    PROVE  TableOK(u) /\ Grows(t, u) /\ Stays(t, u) /\ AddedTo(t, u, r)
<1> DEFINE id == FreshId(t)
           al(m) == IF r.kind = "lvm" THEN AlignTo(r.vols[m], Extent) ELSE r.vols[m]
           v(m) == [on |-> id, size |-> al(m)]
           f == [m \in DOMAIN t.fs \union DOMAIN r.vols |-> IF m \in DOMAIN t.fs THEN t.fs[m] ELSE v(m)]
           content == Contents(f, id)
           p == [id |-> id, start |-> 0, size |-> r.size, root |-> "/" \in DOMAIN r.vols,
                 kind |-> r.kind, luks |-> FALSE, content |-> content]
           New == DOMAIN r.vols \ DOMAIN t.fs
<1>1. t.parts \in Seq(Partition) /\ IsTable(t) /\ Len(t.parts) \in Nat /\ DOMAIN t.parts = 1 .. Len(t.parts)
  BY DEF TableOK
<1>2. id \in Nat /\ \A i \in DOMAIN t.parts : t.parts[i].id # id
  BY <1>1, FreshIdNew
<1>3. u = [t EXCEPT !.fs = f, !.parts = Append(t.parts, p)]
  BY DEF Added
<1>4. t.fs \in [DOMAIN t.fs -> Volume] /\ IsFiniteSet(DOMAIN t.fs)
  BY DEF TableOK, MountsOK
<1>5. r.kind \in Kinds /\ r.size \in Nat /\ IsFiniteSet(DOMAIN r.vols)
  BY DEF RequestOK
<1>6. ASSUME NEW m \in DOMAIN r.vols
      PROVE  /\ r.vols[m] \in Nat /\ al(m) \in Nat /\ al(m) >= r.vols[m]
             /\ r.kind = "plain" => al(m) = 0 /\ DOMAIN r.vols = {m}
  <2>1. r.vols[m] \in Nat /\ (r.kind = "plain" => r.vols[m] = 0 /\ DOMAIN r.vols = {m})
    BY DEF RequestOK
  <2>2. AlignTo(r.vols[m], Extent) \in Nat /\ AlignTo(r.vols[m], Extent) >= r.vols[m]
    BY <2>1, AlignToGrows, RelayoutAssumption
  <2> QED
    BY <2>1, <2>2
<1> HIDE DEF id, al
<1>7. \A m \in DOMAIN r.vols : v(m) \in Volume /\ v(m).on = id /\ v(m).size = al(m)
  BY <1>2, <1>6 DEF Volume
<1> HIDE DEF v
<1>8. /\ DOMAIN f = DOMAIN t.fs \union DOMAIN r.vols
      /\ \A n \in DOMAIN t.fs : f[n] = t.fs[n]
      /\ \A n \in New : f[n] = v(n)
  OBVIOUS
<1>9. f \in [DOMAIN f -> Volume] /\ IsFiniteSet(DOMAIN f)
  <2>1. \A n \in DOMAIN f : f[n] \in Volume
    BY <1>4, <1>7, <1>8
  <2>2. IsFiniteSet(DOMAIN f)
    BY <1>4, <1>5, <1>8, FS_Union
  <2>3. f = [n \in DOMAIN f |-> f[n]]
    OBVIOUS
  <2> HIDE DEF f
  <2> QED
    BY <2>1, <2>2, <2>3
<1> HIDE DEF f
<1>10. content \in Nat /\ (r.kind = "plain" => content = 0)
  <2>1. ASSUME r.kind = "plain" PROVE \A n \in DOMAIN f : f[n].on = id => f[n].size = 0
    <3> SUFFICES ASSUME NEW n \in DOMAIN f, f[n].on = id PROVE f[n].size = 0
      OBVIOUS
    <3>1. CASE n \in DOMAIN t.fs
      <4>1. PICK i \in DOMAIN t.parts : t.parts[i].id = t.fs[n].on
        BY <3>1 DEF TableOK, MountsOK
      <4> QED
        BY <1>2, <1>8, <3>1, <4>1
    <3>2. CASE n \in New
      BY <1>6, <1>7, <1>8, <2>1, <3>2
    <3> QED
      BY <1>8, <3>1, <3>2
  <2> QED
    BY <1>9, <2>1, ContentsNat
<1> HIDE DEF content
<1>11. p \in Partition
  BY <1>2, <1>5, <1>10 DEF Partition, Kinds
<1>12. /\ p.id = id /\ p.kind = r.kind /\ p.luks = FALSE /\ p.size = r.size
       /\ ("/" \in DOMAIN r.vols => p.root = TRUE) /\ ("/" \notin DOMAIN r.vols => p.root = FALSE)
  <2>1. p.id = id /\ p.kind = r.kind /\ p.luks = FALSE /\ p.size = r.size
    OBVIOUS
  <2>2. ASSUME "/" \in DOMAIN r.vols PROVE p.root = TRUE
    BY <2>2
  <2>3. ASSUME "/" \notin DOMAIN r.vols PROVE p.root = FALSE
    <3>1. ("/" \in DOMAIN r.vols) = FALSE
      BY <2>3
    <3>2. p = [id |-> id, start |-> 0, size |-> r.size, root |-> FALSE,
               kind |-> r.kind, luks |-> FALSE, content |-> content]
      BY <3>1, Zenon
    <3> QED
      BY <3>2, Zenon
  <2> HIDE DEF p
  <2> QED
    BY <2>1, <2>2, <2>3
<1> HIDE DEF p
<1>13. IsTable(u) /\ u.parts = Append(t.parts, p) /\ u.fs = f /\ u.size = t.size
  BY <1>1, <1>3 DEF IsTable
<1>14. DOMAIN u.fs \ DOMAIN t.fs = New
  BY <1>8, <1>13
<1>15. \A n \in DOMAIN u.fs \ DOMAIN t.fs :
         /\ u.fs[n].on = p.id
         /\ p.kind = "plain" => u.fs[n].size = 0 /\ DOMAIN u.fs \ DOMAIN t.fs = {n}
  BY <1>6, <1>7, <1>8, <1>12, <1>13, <1>14
<1>16. /\ u.fs \in [DOMAIN u.fs -> Volume] /\ IsFiniteSet(DOMAIN u.fs)
       /\ \A n \in DOMAIN t.fs : n \in DOMAIN u.fs /\ u.fs[n] = t.fs[n]
  BY <1>8, <1>9, <1>13
<1>17. \A i \in DOMAIN t.parts : t.parts[i].id # p.id
  BY <1>2, <1>12
<1>18. /\ TableOK(u) /\ Grows(t, u) /\ Stays(t, u) /\ Len(u.parts) = Len(t.parts) + 1
       /\ \A n \in DOMAIN u.fs \ DOMAIN t.fs : Parent(u, n) = p
       /\ \A i \in DOMAIN t.parts : i \in DOMAIN u.parts /\ u.parts[i] = t.parts[i]
       /\ u.parts[Len(u.parts)] = p
  BY <1>11, <1>13, <1>15, <1>16, <1>17, AppendKeeps
<1>19. ASSUME NEW n \in New
       PROVE  /\ Parent(u, n).kind = r.kind /\ Parent(u, n).size >= r.size
              /\ u.fs[n].on = FreshId(t) /\ VolumeSize(u, n) >= r.vols[n]
  <2>1. Parent(u, n) = p /\ u.fs[n].on = id /\ u.fs[n].size = al(n) /\ n \in DOMAIN r.vols
    BY <1>7, <1>8, <1>13, <1>14, <1>18
  <2>2. VolumeSize(u, n) >= r.vols[n]
    <3>1. CASE r.kind = "plain"
      <4>1. VolumeSize(u, n) = r.size /\ r.vols[n] = 0
        BY <1>5, <1>12, <2>1, <3>1 DEF VolumeSize, RequestOK
      <4> QED
        BY <1>5, <4>1
    <3>2. CASE r.kind # "plain"
      BY <1>6, <1>12, <2>1, <3>2 DEF VolumeSize
    <3> QED
      BY <3>1, <3>2
  <2> QED
    BY <1>5, <1>12, <2>1, <2>2 DEF id
<1>20. ASSUME NEW i \in DOMAIN u.parts PROVE (i \in DOMAIN t.parts /\ u.parts[i] = t.parts[i]) \/ u.parts[i] = p
  <2>1. u.parts \in Seq(Partition)
    BY <1>18 DEF TableOK
  <2>2. i \in 1 .. Len(t.parts) + 1
    BY <1>1, <1>18, <2>1
  <2> QED
    BY <1>1, <1>18, <2>2
<1>21. ASSUME Rooted(t), ~ ("/" \in DOMAIN t.fs /\ "/" \in DOMAIN r.vols) PROVE Rooted(u)
  <2> SUFFICES ASSUME NEW i \in DOMAIN u.parts
               PROVE  /\ u.parts[i].root => "/" \in DOMAIN u.fs /\ u.parts[i].id = u.fs["/"].on
                      /\ "/" \in DOMAIN u.fs /\ u.parts[i].id = u.fs["/"].on => u.parts[i].root
    BY DEF Rooted
  <2>1. CASE "/" \in DOMAIN r.vols
    <3>1. "/" \in New /\ u.fs["/"].on = p.id
      BY <1>14, <1>15, <1>21, <2>1
    <3>2. CASE u.parts[i] = p
      BY <1>8, <1>12, <1>13, <2>1, <3>1, <3>2
    <3>3. CASE i \in DOMAIN t.parts /\ u.parts[i] = t.parts[i]
      BY <1>17, <1>21, <3>1, <3>3 DEF Rooted
    <3> QED
      BY <1>20, <3>2, <3>3
  <2>2. CASE "/" \notin DOMAIN r.vols
    <3>1. "/" \in DOMAIN u.fs <=> "/" \in DOMAIN t.fs
      BY <1>8, <1>13, <2>2
    <3>2. CASE u.parts[i] = p
      <4>1. ~ p.root
        BY <1>12, <2>2
      <4>2. "/" \in DOMAIN t.fs => u.fs["/"].on # p.id
        <5> SUFFICES ASSUME "/" \in DOMAIN t.fs PROVE u.fs["/"].on # p.id
          OBVIOUS
        <5>1. PICK j \in DOMAIN t.parts : t.parts[j].id = t.fs["/"].on
          BY DEF TableOK, MountsOK
        <5> QED
          BY <1>16, <1>17, <5>1
      <4> QED
        BY <3>1, <3>2, <4>1, <4>2
    <3>3. CASE i \in DOMAIN t.parts /\ u.parts[i] = t.parts[i]
      BY <1>16, <1>21, <3>1, <3>3 DEF Rooted
    <3> QED
      BY <1>20, <3>2, <3>3
  <2> QED
    BY <2>1, <2>2
<1>22. \A i \in DOMAIN u.parts : u.parts[i].kind # "plain" =>
         r.kind # "plain" \/ \E j \in DOMAIN t.parts : t.parts[j].kind # "plain"
  BY <1>12, <1>20
<1> QED
  BY <1>8, <1>13, <1>18, <1>19, <1>21, <1>22 DEF AddedTo

-----------------------------------------------------------------------------
(* The inductive invariant.                                                *)

\* What r asks for is in the table, together, but for the mountpoints in tw.
Fulfilled(t, r, tw) ==
    \A m \in DOMAIN r.vols \ tw :
      /\ m \in DOMAIN t.fs /\ VolumeSize(t, m) >= r.vols[m]
      /\ Parent(t, m).kind = r.kind /\ Parent(t, m).size >= r.size
      /\ \A n \in DOMAIN r.vols \ tw : t.fs[n].on = t.fs[m].on

In(c, q) == \E k \in DOMAIN q : q[k] = c

HasContainer == \E j \in DOMAIN Asked : Asked[j].kind # "plain"

\* The boot loader finds /boot if the root is in a container.
BootFine(t) ==
    opts.policy /\ Parent(t, "/").kind # "plain" =>
      /\ "/boot" \in DOMAIN t.fs
      /\ \/ Parent(t, "/boot").kind = "plain"
         \/ Parent(t, "/").kind = "btrfs" /\ t.fs["/boot"].on = t.fs["/"].on

\* The mountpoints only the blueprint puts into the table before the root is ensured.
Own(m) == m = "/" \/ (m = "/boot" /\ ~ (opts.policy /\ NeedsBoot))

\* Before the blueprint's partitions there are those of the firmware.
Bootish(t) ==
    /\ TableOK(t) /\ Rooted(t) /\ DOMAIN t.fs \subseteq {"/boot/efi"}
    /\ \A i \in DOMAIN t.parts : t.parts[i].kind = "plain"

\* What is still to be added is part of the blueprint, each mountpoint once.
TodoInv ==
    /\ todo \in Seq(Requests)
    /\ \A k \in DOMAIN todo : \E j \in DOMAIN Asked : todo[k] = Asked[j]
    /\ \A k, l \in DOMAIN todo : k # l => DOMAIN todo[k].vols \intersect DOMAIN todo[l].vols = {}

OnceInv ==
    \A m \in {"/", "/boot"} : Own(m) =>
      /\ m \notin twice
      /\ m \in DOMAIN fs => \A k \in DOMAIN todo : m \notin DOMAIN todo[k].vols

UserInv ==
    /\ TableOK(Current) /\ Rooted(Current)
    /\ \A i \in DOMAIN parts : parts[i].kind # "plain" => HasContainer
    /\ TodoInv /\ OnceInv
    /\ \A i \in DOMAIN Asked : Fulfilled(Current, Asked[i], twice) \/ In(Asked[i], todo)
    /\ opts.policy /\ NeedsBoot => "/boot" \in DOMAIN fs /\ Parent(Current, "/boot").kind = "plain"

LateInv ==
    /\ IInv /\ TableOK(Current) /\ "/" \in DOMAIN fs /\ OneRoot(parts)
    /\ \A i \in DOMAIN Asked : Fulfilled(Current, Asked[i], twice)
    /\ BootFine(Current)

Early == {"boot mode", "boot", "user"}
Late == {"sized", "dirs", "layout", "finished"}

CInv ==
    /\ opts \in [custom : Customs, boot : Boots, policy : Policies,
                 default : Defaults, required : Required]
    /\ phase \in Early \union Late \union {"failed"}
    /\ pc # "edit" => phase \in {"layout", "finished", "failed"}
    /\ phase \in Early => target = 0 /\ idx = 0 /\ start = 0
    /\ phase \in {"boot mode", "boot"} => Bootish(Current) /\ todo = Asked /\ twice = {}
    /\ phase = "boot mode" => DOMAIN fs = {}
    /\ phase = "user" => UserInv
    /\ phase \in Late => LateInv
    /\ phase \in {"dirs", "layout", "finished"} => DirsInv
    /\ phase \in {"layout", "finished"} => dirs = {}
    /\ phase = "finished" => pc = "done"

\* The options of a call.
LEMMA OptsFacts ==
    ASSUME CInv
    PROVE  /\ Asked \in Seq(Requests) /\ \A i \in DOMAIN Asked : Asked[i] \in Requests /\ RequestOK(Asked[i])
           /\ \A i, j \in DOMAIN Asked : i # j => DOMAIN Asked[i].vols \intersect DOMAIN Asked[j].vols = {}
           /\ opts.required \in Required /\ opts.boot \in Boots
<1>1. Asked \in Customs /\ opts.required \in Required /\ opts.boot \in Boots
  BY DEF CInv, Asked
<1>2. Asked \in Seq(Requests)
  BY <1>1, CustomAssumption
<1>3. \A i \in DOMAIN Asked : Asked[i] \in Requests
  BY <1>2
<1> QED
  BY <1>1, <1>2, <1>3, CustomAssumption

\* What is fulfilled stays so as long as everything stays and grows.
LEMMA FulfilledStays ==
    ASSUME NEW t, NEW u, TableOK(t), TableOK(u), Grows(t, u), Stays(t, u),
           NEW r, RequestOK(r), NEW tw, NEW tx, tw \subseteq tx, Fulfilled(t, r, tw)
    PROVE  Fulfilled(u, r, tx)
<1> SUFFICES ASSUME NEW m \in DOMAIN r.vols \ tx
             PROVE  /\ m \in DOMAIN u.fs /\ VolumeSize(u, m) >= r.vols[m]
                    /\ Parent(u, m).kind = r.kind /\ Parent(u, m).size >= r.size
                    /\ \A n \in DOMAIN r.vols \ tx : u.fs[n].on = u.fs[m].on
  BY DEF Fulfilled
<1>1. /\ m \in DOMAIN t.fs /\ VolumeSize(t, m) >= r.vols[m]
      /\ Parent(t, m).kind = r.kind /\ Parent(t, m).size >= r.size
      /\ \A n \in DOMAIN r.vols \ tx : n \in DOMAIN t.fs /\ t.fs[n].on = t.fs[m].on
  BY DEF Fulfilled
<1>2. /\ m \in DOMAIN u.fs /\ VolumeSize(u, m) >= VolumeSize(t, m)
      /\ Parent(u, m).kind = Parent(t, m).kind /\ Parent(u, m).size >= Parent(t, m).size
      /\ \A n \in DOMAIN r.vols \ tx : u.fs[n].on = t.fs[n].on
  BY <1>1 DEF Grows, Stays
<1>3. VolumeSize(u, m) \in Int /\ VolumeSize(t, m) \in Int /\ r.vols[m] \in Nat /\ r.size \in Nat
  BY <1>1, <1>2, VolumeSizeInt DEF RequestOK
<1>4. Parent(t, m).size \in Nat /\ Parent(u, m).size \in Nat
  BY <1>1, <1>2, ParentSize
<1>5. VolumeSize(u, m) >= r.vols[m] /\ Parent(u, m).size >= r.size
  BY <1>1, <1>2, <1>3, <1>4
<1> QED
  BY <1>1, <1>2, <1>5

\* So does what the boot loader needs.
LEMMA BootFineStays ==
    ASSUME NEW t, NEW u, Stays(t, u), "/" \in DOMAIN t.fs, BootFine(t)
    PROVE  BootFine(u)
  BY DEF Stays, BootFine

\* Nothing is in the table at first.
LEMMA InitCInv == CustomInit => CInv
<1> SUFFICES ASSUME CustomInit PROVE CInv
  OBVIOUS
<1>1. /\ parts = <<>> /\ fs = <<>> /\ size = 0 /\ todo = Asked /\ twice = {} /\ phase = "boot mode"
      /\ target = 0 /\ pc = "edit" /\ idx = 0 /\ start = 0
      /\ opts \in [custom : Customs, boot : Boots, policy : Policies,
                   default : Defaults, required : Required]
  BY DEF CustomInit
<1>2. DOMAIN fs = {} /\ DOMAIN parts = {} /\ parts \in Seq(Partition) /\ fs \in [DOMAIN fs -> Volume]
  <2>1. ASSUME NEW S, NEW q, q = <<>> PROVE q \in Seq(S) /\ DOMAIN q = {} /\ q \in [DOMAIN q -> S]
    <3>1. q \in Seq(S) /\ Len(q) = 0
      BY <2>1, EmptySeq
    <3>2. DOMAIN q = 1 .. 0 /\ q \in [1 .. 0 -> S]
      BY <3>1, LenProperties
    <3>3. 1 .. 0 = {}
      OBVIOUS
    <3> QED
      BY <3>1, <3>2, <3>3
  <2> QED
    BY <1>1, <2>1
<1>3. IsFiniteSet(DOMAIN fs)
  BY <1>2, FS_EmptySet
<1>4. TableOK(Current)
  <2>1. IsTable(Current)
    BY CurrentFields DEF IsTable
  <2>2. MountsOK(Current) /\ DistinctIds(Current.parts)
    BY <1>2, <1>3, CurrentFields DEF DistinctIds, MountsOK
  <2>3. size \in Nat
    BY <1>1
  <2> QED
    BY <1>2, <2>1, <2>2, <2>3, CurrentFields DEF TableOK
<1>5. Bootish(Current)
  BY <1>2, <1>4, CurrentFields DEF Bootish, Rooted
<1> QED
  BY <1>1, <1>2, <1>5 DEF CInv, Early, Late

-----------------------------------------------------------------------------
(* The steps of the construction.                                          *)

\* What the firmware needs.
FirmwareParts == {Plain("/boot/efi", ESPSize), Bare(BIOSSize), Bare(PRePSize)}

\* The partitions of addPartitionsForBootMode are requests like those of a blueprint.
LEMMA FirmwareOK ==
    ASSUME NEW r \in FirmwareParts
    PROVE  RequestOK(r) /\ r.kind = "plain" /\ DOMAIN r.vols \subseteq {"/boot/efi"}
<1>1. CASE r = Plain("/boot/efi", ESPSize)
  <2>1. /\ r.kind = "plain" /\ r.size = ESPSize /\ DOMAIN r.vols = {"/boot/efi"}
        /\ \A m \in DOMAIN r.vols : r.vols[m] = 0
    BY <1>1 DEF Plain
  <2>2. IsFiniteSet(DOMAIN r.vols)
    BY <2>1, FS_Singleton
  <2> QED
    BY <2>1, <2>2, CustomAssumption DEF RequestOK, Kinds
<1>2. ASSUME NEW z \in Nat, r = Bare(z)
      PROVE  RequestOK(r) /\ r.kind = "plain" /\ DOMAIN r.vols = {}
  <2>1. r.kind = "plain" /\ r.size = z /\ DOMAIN r.vols = {}
    BY <1>2 DEF Bare
  <2>2. IsFiniteSet(DOMAIN r.vols)
    BY <2>1, FS_EmptySet
  <2> QED
    BY <2>1, <2>2 DEF RequestOK, Kinds
<1> QED
  BY <1>1, <1>2, CustomAssumption DEF FirmwareParts

\* A table of partitions of the firmware stays one.
LEMMA FirmwareAdded ==
    ASSUME NEW t, Bootish(t), NEW r \in FirmwareParts, NEW u, u = Added(t, r)
    PROVE  Bootish(u)
<1>1. RequestOK(r) /\ r.kind = "plain" /\ DOMAIN r.vols \subseteq {"/boot/efi"} /\ TableOK(t)
  BY FirmwareOK DEF Bootish
<1>2. TableOK(u) /\ AddedTo(t, u, r)
  BY <1>1, AddedKeeps
<1> QED
  BY <1>1, <1>2 DEF Bootish, AddedTo

\* One or two of them, or none.
LEMMA BootPartitionsOK ==
    ASSUME CInv
    PROVE  /\ BootPartitions \in Seq(FirmwareParts) /\ Len(BootPartitions) \in 0 .. 2
<1> DEFINE e == Plain("/boot/efi", ESPSize)
           b == Bare(BIOSSize)
           c == Bare(PRePSize)
           esp == IF AskedPlain("/boot/efi") THEN <<>> ELSE <<e>>
<1>1. e \in FirmwareParts /\ b \in FirmwareParts /\ c \in FirmwareParts
  BY DEF FirmwareParts
<1>2. /\ opts.boot.arch \in {"x86_64", "aarch64", "riscv64", "ppc64le", "s390x"}
      /\ opts.boot.mode \in {"none", "legacy", "uefi", "hybrid"}
  BY OptsFacts, CustomAssumption
<1>3. BootPartitions \in {<<>>, <<c>>, esp, <<b>>, <<b>> \o esp}
  BY <1>2 DEF BootPartitions
<1> HIDE DEF e, b, c
<1>4. esp \in Seq(FirmwareParts) /\ Len(esp) \in 0 .. 1
  BY <1>1
<1>5. <<b>> \in Seq(FirmwareParts) /\ Len(<<b>>) = 1 /\ <<c>> \in Seq(FirmwareParts) /\ Len(<<c>>) = 1
  BY <1>1
<1> HIDE DEF esp
<1>6. <<b>> \o esp \in Seq(FirmwareParts) /\ Len(<<b>> \o esp) \in 0 .. 2
  BY <1>4, <1>5, ConcatProperties
<1>7. <<>> \in Seq(FirmwareParts) /\ Len(<<>>) = 0
  OBVIOUS
<1> QED
  <2> DEFINE rs == BootPartitions
             d == <<b>> \o esp
  <2>1. rs = <<>> \/ rs = <<c>> \/ rs = esp \/ rs = <<b>> \/ rs = d
    BY <1>3
  <2>2. d \in Seq(FirmwareParts) /\ Len(d) \in 0 .. 2
    BY <1>6
  <2> HIDE DEF d, rs
  <2>3. rs \in Seq(FirmwareParts) /\ Len(rs) \in 0 .. 2
    <3>1. CASE rs = <<>>
      BY <1>7, <3>1
    <3>2. CASE rs = <<c>>
      BY <1>5, <3>2
    <3>3. CASE rs = <<b>>
      BY <1>5, <3>3
    <3>4. CASE rs = esp \/ rs = d
      BY <1>4, <2>2, <3>4
    <3> QED
      BY <2>1, <3>1, <3>2, <3>3, <3>4, Zenon
  <2> QED
    BY <2>3 DEF rs

\* addPartitionsForBootMode
LEMMA BootModeStep ==
    ASSUME CInv, AddPartitionsForBootMode, UNCHANGED <<opts, dirs, layoutVars>>
    PROVE  CInv'
<1> DEFINE rs == BootPartitions
           a == Added(Current, rs[1])
           u == CASE Len(rs) = 0 -> Current
                  [] Len(rs) = 1 -> a
                  [] Len(rs) = 2 -> Added(a, rs[2])
<1>1. rs \in Seq(FirmwareParts) /\ Len(rs) \in {0, 1, 2}
  BY BootPartitionsOK
<1>2. /\ phase = "boot mode" /\ phase' = "boot" /\ todo' = todo /\ opts' = opts /\ Become(u)
      /\ target' = target /\ pc' = pc /\ idx' = idx /\ start' = start
      /\ twice' = twice \union {m \in DOMAIN fs : \E i \in DOMAIN rs : m \in DOMAIN rs[i].vols}
  BY DEF AddPartitionsForBootMode, AddAll, layoutVars
<1>3. Bootish(Current) /\ todo = Asked /\ twice = {} /\ DOMAIN fs = {} /\ pc = "edit"
      /\ target = 0 /\ idx = 0 /\ start = 0
  BY <1>2 DEF CInv, Early
<1> HIDE DEF rs
<1>4. Len(rs) >= 1 => Bootish(a)
  <2> SUFFICES ASSUME Len(rs) >= 1 PROVE Bootish(a)
    OBVIOUS
  <2>1. rs[1] \in FirmwareParts
    BY <1>1
  <2> QED
    BY <1>3, <2>1, FirmwareAdded
<1>5. Bootish(u)
  <2>1. CASE Len(rs) = 0
    BY <1>3, <2>1
  <2>2. CASE Len(rs) = 1
    BY <1>4, <2>2
  <2>3. CASE Len(rs) = 2
    <3>1. rs[2] \in FirmwareParts /\ Bootish(a)
      BY <1>1, <1>4, <2>3
    <3> HIDE DEF a
    <3>2. Bootish(Added(a, rs[2]))
      BY <3>1, FirmwareAdded
    <3> QED
      BY <2>3, <3>2
  <2> QED
    BY <1>1, <2>1, <2>2, <2>3
<1> HIDE DEF u
<1>6. Current' = u
  BY <1>2, <1>5, Becomes DEF Bootish, TableOK
<1>7. Bootish(Current')
  BY <1>5, <1>6
<1>8. todo' = Asked' /\ twice' = {}
  BY <1>2, <1>3 DEF Asked
<1> QED
  BY <1>2, <1>3, <1>7, <1>8 DEF CInv, Early, Late

\* What is asked does not change.
LEMMA SameAsked ==
    ASSUME opts' = opts
    PROVE  /\ Asked' = Asked /\ NeedsBoot' = NeedsBoot /\ HasContainer' = HasContainer
           /\ \A m : Own(m)' = Own(m)
           /\ \A t : BootFine(t)' = BootFine(t)
<1>1. Asked' = Asked
  BY DEF Asked
<1>2. NeedsBoot' = NeedsBoot /\ HasContainer' = HasContainer
  BY <1>1 DEF NeedsBoot, HasContainer, AskedPlain
<1> QED
  BY <1>1, <1>2 DEF Own, BootFine

\* maybeAddBootPartition
LEMMA MaybeBootStep ==
    ASSUME CInv, MaybeAddBootPartition, UNCHANGED <<opts, dirs, layoutVars>>
    PROVE  CInv'
<1> DEFINE need == opts.policy /\ NeedsBoot
           r == Plain("/boot", BootSize)
           rs == IF need THEN <<r>> ELSE <<>>
           u == IF need THEN Added(Current, r) ELSE Current
           More == {m \in DOMAIN fs : \E i \in DOMAIN rs : m \in DOMAIN rs[i].vols}
<1>1. /\ phase = "boot" /\ phase' = "user" /\ todo' = todo /\ opts' = opts
      /\ target' = target /\ pc' = pc /\ idx' = idx /\ start' = start
      /\ twice' = twice \union More
      /\ Become(CASE Len(rs) = 0 -> Current [] Len(rs) = 1 -> Added(Current, rs[1])
                  [] Len(rs) = 2 -> Added(Added(Current, rs[1]), rs[2]))
  BY DEF MaybeAddBootPartition, AddAll, layoutVars
<1>2. /\ Bootish(Current) /\ todo = Asked /\ twice = {} /\ pc = "edit"
      /\ target = 0 /\ idx = 0 /\ start = 0
  BY <1>1 DEF CInv, Early
<1>3. Become(u)
  <2>1. CASE need
    <3>1. Len(rs) = 1 /\ rs[1] = r
      BY <2>1
    <3> HIDE DEF rs
    <3> QED
      BY <1>1, <2>1, <3>1
  <2>2. CASE ~ need
    <3>1. Len(rs) = 0
      BY <2>2
    <3> HIDE DEF rs
    <3> QED
      BY <1>1, <2>2, <3>1
  <2> QED
    BY <2>1, <2>2
<1>4. r.kind = "plain" /\ DOMAIN r.vols = {"/boot"} /\ r.size = BootSize /\ r.vols["/boot"] = 0
  BY DEF Plain
<1>5. RequestOK(r)
  <2>1. IsFiniteSet(DOMAIN r.vols)
    BY <1>4, FS_Singleton
  <2> HIDE DEF r
  <2> QED
    BY <1>4, <2>1, CustomAssumption DEF RequestOK, Kinds
<1> HIDE DEF r
<1>6. twice' = {}
  <2>1. \A i \in DOMAIN rs : rs[i] = r
    <3>1. CASE need
      <4>1. rs = <<r>>
        BY <3>1
      <4> HIDE DEF rs
      <4> QED
        BY <4>1
    <3>2. CASE ~ need
      <4>1. rs = <<>>
        BY <3>2
      <4> HIDE DEF rs
      <4> QED
        BY <4>1
    <3> QED
      BY <3>1, <3>2
  <2>2. DOMAIN fs \subseteq {"/boot/efi"}
    BY <1>2, CurrentFields DEF Bootish
  <2> HIDE DEF rs
  <2>3. More = {}
    BY <1>4, <2>1, <2>2
  <2> QED
    BY <1>1, <1>2, <2>3
<1> HIDE DEF need
<1>7. /\ TableOK(u) /\ Rooted(u) /\ "/" \notin DOMAIN u.fs
      /\ \A i \in DOMAIN u.parts : u.parts[i].kind = "plain"
      /\ need => "/boot" \in DOMAIN u.fs /\ Parent(u, "/boot").kind = "plain"
      /\ ~ need => "/boot" \notin DOMAIN u.fs
  <2>1. CASE need
    <3>1. TableOK(u) /\ AddedTo(Current, u, r)
      BY <1>2, <1>5, <2>1, AddedKeeps DEF Bootish
    <3> HIDE DEF u
    <3> QED
      BY <1>2, <1>4, <2>1, <3>1 DEF Bootish, AddedTo
  <2>2. CASE ~ need
    BY <1>2, <2>2 DEF Bootish
  <2> QED
    BY <2>1, <2>2
<1> HIDE DEF u
<1>8. Current' = u /\ fs' = u.fs /\ parts' = u.parts
  BY <1>3, <1>7, Becomes DEF TableOK, Become
<1>9. Asked' = Asked /\ NeedsBoot' = NeedsBoot /\ \A m : Own(m)' = Own(m)
  BY <1>1, SameAsked
<1>10. TodoInv'
  BY <1>1, <1>2, <1>9, OptsFacts DEF TodoInv
<1>11. OnceInv'
  BY <1>6, <1>7, <1>8, <1>9 DEF OnceInv, Own, need
<1>12. UserInv'
  <2>1. \A i \in DOMAIN Asked' : In(Asked'[i], todo')
    BY <1>1, <1>2, <1>9 DEF In
  <2> QED
    BY <1>1, <1>7, <1>8, <1>9, <1>10, <1>11, <2>1 DEF UserInv, need
<1> QED
  BY <1>1, <1>2, <1>12 DEF CInv, Early, Late

\* The queue of what is still to be added.
LEMMA HeadOrTail ==
    ASSUME NEW q \in Seq(Requests), q # <<>>
    PROVE  /\ Head(q) = q[1] /\ 1 \in DOMAIN q /\ Tail(q) \in Seq(Requests)
           /\ \A k \in DOMAIN Tail(q) : k + 1 \in DOMAIN q /\ k + 1 # 1 /\ Tail(q)[k] = q[k + 1]
           /\ \A c : In(c, q) => c = Head(q) \/ In(c, Tail(q))
<1>1. Len(q) \in Nat /\ Len(q) > 0 /\ DOMAIN q = 1 .. Len(q) /\ Head(q) = q[1]
  OBVIOUS
<1>2. /\ Tail(q) \in Seq(Requests) /\ DOMAIN Tail(q) = 1 .. Len(q) - 1
      /\ \A k \in 1 .. Len(q) - 1 : Tail(q)[k] = q[k + 1]
  BY <1>1
<1>3. \A k \in DOMAIN Tail(q) : k + 1 \in DOMAIN q /\ k + 1 # 1 /\ Tail(q)[k] = q[k + 1]
  BY <1>1, <1>2
<1>4. ASSUME NEW c, In(c, q) PROVE c = Head(q) \/ In(c, Tail(q))
  <2>1. PICK k \in DOMAIN q : q[k] = c
    BY <1>4 DEF In
  <2>2. CASE k = 1
    BY <1>1, <2>1, <2>2
  <2>3. CASE k # 1
    <3>1. k - 1 \in 1 .. Len(q) - 1 /\ (k - 1) + 1 = k
      BY <1>1, <2>3
    <3> QED
      BY <1>2, <2>1, <3>1 DEF In
  <2> QED
    BY <2>2, <2>3
<1> QED
  BY <1>1, <1>2, <1>3, <1>4

\* addPlainPartition, addLVMPartition, addBtrfsPartition
LEMMA UserStep ==
    ASSUME CInv, AddUserPartition, UNCHANGED <<opts, dirs, layoutVars>>
    PROVE  CInv'
<1> DEFINE r == Head(todo)
           u == Added(Current, r)
           More == {m \in DOMAIN fs : m \in DOMAIN r.vols}
<1>1. /\ phase = "user" /\ phase' = "user" /\ todo # <<>> /\ todo' = Tail(todo) /\ opts' = opts
      /\ target' = target /\ pc' = pc /\ idx' = idx /\ start' = start
  BY DEF AddUserPartition, layoutVars
<1>2. UserInv /\ pc = "edit" /\ target = 0 /\ idx = 0 /\ start = 0
  BY <1>1 DEF CInv, Early
<1>3. Become(u) /\ twice' = twice \union More
  <2>1. AddAll(<<r>>)
    BY DEF AddUserPartition
  <2> HIDE DEF r
  <2> DEFINE rs == <<r>>
  <2>2. Len(rs) = 1 /\ rs[1] = r /\ DOMAIN rs = {1}
    OBVIOUS
  <2> HIDE DEF rs
  <2>3. AddAll(rs)
    BY <2>1 DEF rs
  <2> QED
    BY <2>2, <2>3 DEF AddAll
<1>4. TableOK(Current) /\ Rooted(Current) /\ TodoInv /\ OnceInv
  BY <1>2 DEF UserInv
<1>5. /\ r = todo[1] /\ 1 \in DOMAIN todo /\ todo' \in Seq(Requests)
      /\ \A k \in DOMAIN todo' : k + 1 \in DOMAIN todo /\ k + 1 # 1 /\ todo'[k] = todo[k + 1]
      /\ \A c : In(c, todo) => c = r \/ In(c, todo')
  BY <1>1, <1>4, HeadOrTail DEF TodoInv
<1> HIDE DEF r
<1>6. PICK a \in DOMAIN Asked : r = Asked[a]
  BY <1>4, <1>5 DEF TodoInv
<1>7. RequestOK(r)
  BY <1>6, OptsFacts
<1>8. TableOK(u) /\ Grows(Current, u) /\ Stays(Current, u) /\ AddedTo(Current, u, r)
  BY <1>4, <1>7, AddedKeeps
<1> HIDE DEF u
<1>9. Current' = u /\ fs' = u.fs /\ parts' = u.parts
  BY <1>3, <1>8, Becomes DEF TableOK, Become
<1>10. DOMAIN fs' = DOMAIN fs \union DOMAIN r.vols
  BY <1>8, <1>9, CurrentFields DEF AddedTo
<1>11. \A m \in {"/", "/boot"} : Own(m) => m \notin twice /\ ~ (m \in DOMAIN fs /\ m \in DOMAIN r.vols)
  BY <1>4, <1>5 DEF OnceInv
<1>12. Rooted(u)
  <2>1. ~ ("/" \in DOMAIN fs /\ "/" \in DOMAIN r.vols)
    BY <1>11 DEF Own
  <2> QED
    BY <1>4, <1>8, <2>1, CurrentFields DEF AddedTo
<1>13. \A i \in DOMAIN u.parts : u.parts[i].kind # "plain" => HasContainer
  <2>1. r.kind # "plain" => HasContainer
    BY <1>6 DEF HasContainer
  <2>2. \A i \in DOMAIN Current.parts : Current.parts[i].kind # "plain" => HasContainer
    BY <1>2, CurrentFields DEF UserInv
  <2> QED
    BY <1>8, <2>1, <2>2 DEF AddedTo
<1>14. Asked' = Asked /\ NeedsBoot' = NeedsBoot /\ HasContainer' = HasContainer /\ \A m : Own(m)' = Own(m)
  BY <1>1, SameAsked
<1>15. TodoInv'
  <2>1. \A k \in DOMAIN todo' : \E j \in DOMAIN Asked : todo'[k] = Asked[j]
    BY <1>4, <1>5 DEF TodoInv
  <2>2. ASSUME NEW k \in DOMAIN todo', NEW l \in DOMAIN todo', k # l
        PROVE  DOMAIN todo'[k].vols \intersect DOMAIN todo'[l].vols = {}
    <3>1. k \in Nat /\ l \in Nat
      BY <1>5
    <3>2. k + 1 # l + 1
      BY <2>2, <3>1
    <3> QED
      BY <1>4, <1>5, <3>2 DEF TodoInv
  <2> QED
    BY <1>5, <1>14, <2>1, <2>2 DEF TodoInv
<1>16. \A k \in DOMAIN todo' : DOMAIN todo'[k].vols \intersect DOMAIN r.vols = {}
  BY <1>4, <1>5 DEF TodoInv
<1>17. OnceInv'
  <2> SUFFICES ASSUME NEW m \in {"/", "/boot"}, Own(m)
               PROVE  /\ m \notin twice'
                      /\ m \in DOMAIN fs' => \A k \in DOMAIN todo' : m \notin DOMAIN todo'[k].vols
    BY <1>14 DEF OnceInv
  <2>1. m \notin twice'
    BY <1>3, <1>11
  <2>2. ASSUME m \in DOMAIN fs', NEW k \in DOMAIN todo' PROVE m \notin DOMAIN todo'[k].vols
    <3>1. CASE m \in DOMAIN fs
      BY <1>4, <1>5, <3>1 DEF OnceInv
    <3>2. CASE m \in DOMAIN r.vols
      BY <1>16, <3>2
    <3> QED
      BY <1>10, <2>2, <3>1, <3>2
  <2> QED
    BY <2>1, <2>2
<1>18. Fulfilled(u, r, twice')
  <2>1. \A m \in DOMAIN r.vols \ twice' : m \in DOMAIN r.vols \ DOMAIN Current.fs
    BY <1>3, CurrentFields
  <2> QED
    BY <1>8, <2>1 DEF AddedTo, Fulfilled
<1>19. ASSUME NEW i \in DOMAIN Asked PROVE Fulfilled(u, Asked[i], twice') \/ In(Asked[i], todo')
  <2> DEFINE w == Asked[i]
  <2>1. RequestOK(w) /\ (Fulfilled(Current, w, twice) \/ In(w, todo))
    BY <1>2, OptsFacts DEF UserInv
  <2> HIDE DEF w
  <2>2. CASE Fulfilled(Current, w, twice)
    <3>1. twice \subseteq twice'
      BY <1>3
    <3>2. Fulfilled(u, w, twice')
      BY <1>4, <1>8, <2>1, <2>2, <3>1, FulfilledStays
    <3> QED
      BY <3>2 DEF w
  <2>3. CASE In(w, todo)
    <3>1. w = r \/ In(w, todo')
      BY <1>5, <2>3
    <3> QED
      BY <1>18, <3>1 DEF w
  <2> QED
    BY <2>1, <2>2, <2>3
<1>20. opts.policy /\ NeedsBoot => "/boot" \in DOMAIN u.fs /\ Parent(u, "/boot").kind = "plain"
  BY <1>2, <1>8, CurrentFields DEF UserInv, Stays
<1>21. UserInv'
  BY <1>1, <1>8, <1>9, <1>12, <1>13, <1>14, <1>15, <1>17, <1>19, <1>20 DEF UserInv
<1> QED
  BY <1>1, <1>2, <1>21 DEF CInv, Early, Late

\* The table has its root file system.
RootSet(u) ==
    /\ "/" \in DOMAIN u.fs /\ OneRoot(u.parts)
    /\ Parent(u, "/").kind # "plain" => HasContainer

\* A root in the first container, or on a partition of its own.
LEMMA WithRootKeeps ==
    ASSUME TableOK(Current), Rooted(Current), "/" \notin DOMAIN fs,
           \A i \in DOMAIN parts : parts[i].kind # "plain" => HasContainer,
           NEW u, u = WithRoot
    PROVE  TableOK(u) /\ Grows(Current, u) /\ Stays(Current, u) /\ RootSet(u)
<1>1. /\ parts \in Seq(Partition) /\ Len(parts) \in Nat /\ DOMAIN parts = 1 .. Len(parts)
      /\ DistinctIds(parts)
  BY CurrentFields DEF TableOK
<1>2. "/" \notin DOMAIN Current.fs /\ \A j \in DOMAIN parts : ~ parts[j].root
  BY CurrentFields DEF Rooted
<1>3. CASE Volumes = {}
  <2>1. u = AddPartition(Current, "/", 0)
    BY <1>3 DEF WithRoot
  <2>2. TableOK(u) /\ Grows(Current, u) /\ Stays(Current, u) /\ Longer(Current, u, "/")
    BY <1>2, <2>1, AddPartitionKeeps
  <2>3. /\ Len(u.parts) = Len(parts) + 1 /\ "/" \in DOMAIN u.fs /\ Parent(u, "/").kind = "plain"
        /\ \A j \in DOMAIN parts : u.parts[j] = parts[j]
        /\ u.parts[Len(parts) + 1].root = TRUE
    BY <2>2, CurrentFields DEF Longer
  <2>4. DOMAIN u.parts = 1 .. Len(parts) + 1
    BY <1>1, <2>2, <2>3 DEF TableOK
  <2>5. \A j \in DOMAIN u.parts : u.parts[j].root <=> j = Len(parts) + 1
    <3> SUFFICES ASSUME NEW j \in DOMAIN u.parts PROVE u.parts[j].root <=> j = Len(parts) + 1
      OBVIOUS
    <3>1. j \in DOMAIN parts \/ j = Len(parts) + 1
      BY <1>1, <2>4
    <3>2. CASE j \in DOMAIN parts
      BY <1>1, <1>2, <2>3, <3>2
    <3>3. CASE j = Len(parts) + 1
      BY <2>3, <3>3
    <3> QED
      BY <3>1, <3>2, <3>3
  <2>6. OneRoot(u.parts)
    BY <1>1, <2>4, <2>5 DEF OneRoot
  <2> QED
    BY <2>2, <2>3, <2>6 DEF RootSet
<1>4. CASE Volumes # {}
  <2> DEFINE i == Min(Volumes)
             p == parts[i]
             q == [p EXCEPT !.root = TRUE]
             ps == [parts EXCEPT ![i] = q]
  <2>1. i \in DOMAIN parts /\ p.kind # "plain"
    <3>1. Volumes \subseteq DOMAIN parts /\ Volumes \subseteq Nat /\ IsFiniteSet(DOMAIN parts)
      BY <1>1, FS_Interval DEF Volumes
    <3>2. IsFiniteSet(Volumes)
      BY <3>1, FS_Subset
    <3>3. \E x \in Volumes : \A y \in Volumes : x <= y
      BY <1>4, <3>1, <3>2, MaxIn
    <3>4. i \in Volumes
      BY <3>3 DEF Min
    <3> QED
      BY <3>4 DEF Volumes
  <2>2. u = [parts |-> ps, fs |-> Mount(fs, "/", p.id), size |-> size]
    BY <1>4 DEF WithRoot, Current
  <2> HIDE DEF i
  <2>3. p \in Partition
    BY <1>1, <2>1
  <2>4. /\ q \in Partition /\ q.id = p.id /\ q.kind = p.kind /\ q.luks = p.luks /\ q.size = p.size
        /\ q.root = TRUE
    BY <2>3 DEF Partition
  <2>5. /\ ps \in Seq(Partition) /\ DOMAIN ps = DOMAIN parts /\ ps[i] = q
        /\ \A j \in DOMAIN parts : j # i => ps[j] = parts[j]
    <3> HIDE DEF q
    <3> QED
      BY <1>1, <2>1, <2>4
  <2> HIDE DEF q, ps
  <2>6. IsTable(u) /\ u.parts = ps /\ u.fs = Mount(Current.fs, "/", p.id) /\ u.size = Current.size
    BY <2>2, CurrentFields DEF IsTable
  <2>7. \A j \in DOMAIN parts : Enlarged(parts[j], ps[j])
    <3> SUFFICES ASSUME NEW j \in DOMAIN parts PROVE Enlarged(parts[j], ps[j])
      OBVIOUS
    <3>1. parts[j] \in Partition
      BY <1>1
    <3>2. parts[j].size \in Nat
      BY <3>1, PartitionSizes
    <3>3. CASE j = i
      BY <2>4, <2>5, <3>2, <3>3 DEF Enlarged
    <3>4. CASE j # i
      BY <2>5, <3>2, <3>4 DEF Enlarged
    <3> QED
      BY <3>3, <3>4
  <2>8. /\ i \in DOMAIN Current.parts /\ Current.parts[i].kind # "plain" /\ p = Current.parts[i]
        /\ u.parts \in Seq(Partition) /\ DOMAIN u.parts = DOMAIN Current.parts
        /\ \A j \in DOMAIN Current.parts : Enlarged(Current.parts[j], u.parts[j])
    BY <2>1, <2>5, <2>6, <2>7, CurrentFields
  <2>9. TableOK(u) /\ Grows(Current, u) /\ Stays(Current, u) /\ MountedOn(Current, u, "/", p.id)
    BY <1>2, <2>6, <2>8, MountKeeps
  <2>10. \A j \in DOMAIN ps : ps[j].root <=> j = i
    BY <1>2, <2>4, <2>5
  <2>11. OneRoot(u.parts)
    BY <2>1, <2>5, <2>6, <2>10 DEF OneRoot
  <2> QED
    BY <2>1, <2>9, <2>11 DEF RootSet, MountedOn
<1> QED
  BY <1>3, <1>4

\* /boot is there for a root in a container: maybeAddBootPartition made it, or
\* the blueprint has it.
LEMMA BootIsFine ==
    ASSUME NEW u, RootSet(u), \A i \in DOMAIN Asked : Fulfilled(u, Asked[i], twice), OnceInv,
           opts.policy /\ NeedsBoot => "/boot" \in DOMAIN u.fs /\ Parent(u, "/boot").kind = "plain"
    PROVE  BootFine(u)
<1> SUFFICES ASSUME opts.policy, Parent(u, "/").kind # "plain"
             PROVE  /\ "/boot" \in DOMAIN u.fs
                    /\ \/ Parent(u, "/boot").kind = "plain"
                       \/ Parent(u, "/").kind = "btrfs" /\ u.fs["/boot"].on = u.fs["/"].on
  BY DEF BootFine
<1>1. HasContainer /\ "/" \notin twice
  BY DEF RootSet, OnceInv, Own
<1>2. CASE NeedsBoot
  BY <1>2
<1>3. CASE ~ NeedsBoot
  <2>1. "/boot" \notin twice
    BY <1>3 DEF OnceInv, Own
  <2>2. ASSUME NEW i \in DOMAIN Asked, Asked[i].kind = "plain", "/" \in DOMAIN Asked[i].vols PROVE FALSE
    BY <1>1, <2>2 DEF Fulfilled
  <2>3. ASSUME NEW i \in DOMAIN Asked, Asked[i].kind = "plain", "/boot" \in DOMAIN Asked[i].vols
        PROVE  "/boot" \in DOMAIN u.fs /\ Parent(u, "/boot").kind = "plain"
    BY <2>1, <2>3 DEF Fulfilled
  <2>4. ASSUME NEW i \in DOMAIN Asked, Asked[i].kind = "btrfs", {"/", "/boot"} \subseteq DOMAIN Asked[i].vols
        PROVE  /\ "/boot" \in DOMAIN u.fs /\ Parent(u, "/").kind = "btrfs"
               /\ u.fs["/boot"].on = u.fs["/"].on
    BY <1>1, <2>1, <2>4 DEF Fulfilled
  <2>5. \/ AskedPlain("/") \/ AskedPlain("/boot")
        \/ \E i \in DOMAIN Asked : Asked[i].kind = "btrfs" /\ {"/", "/boot"} \subseteq DOMAIN Asked[i].vols
    BY <1>1, <1>3 DEF NeedsBoot, HasContainer
  <2> QED
    BY <2>2, <2>3, <2>4, <2>5 DEF AskedPlain
<1> QED
  BY <1>2, <1>3

\* ensureRootFilesystem
LEMMA EnsureRootStep ==
    ASSUME CInv, EnsureRootFilesystem, UNCHANGED <<opts, dirs, layoutVars>>
    PROVE  CInv'
<1> DEFINE u == IF Mounted("/") THEN Current ELSE WithRoot
<1>1. /\ phase = "user" /\ todo = <<>> /\ todo' = todo /\ twice' = twice /\ opts' = opts
      /\ target' = target /\ pc' = pc /\ idx' = idx /\ start' = start
  BY DEF EnsureRootFilesystem, layoutVars
<1>2. UserInv /\ pc = "edit" /\ target = 0 /\ idx = 0 /\ start = 0
  BY <1>1 DEF CInv, Early
<1>3. CASE ~ (Mounted("/") \/ RootPossible)
  <2>1. phase' = "failed"
    BY <1>3 DEF EnsureRootFilesystem
  <2> QED
    BY <1>1, <1>2, <2>1 DEF CInv, Early, Late
<1>4. CASE Mounted("/") \/ RootPossible
  <2>1. Become(u) /\ phase' = "sized"
    BY <1>4 DEF EnsureRootFilesystem
  <2>2. /\ TableOK(Current) /\ Rooted(Current) /\ OnceInv
        /\ \A i \in DOMAIN parts : parts[i].kind # "plain" => HasContainer
    BY <1>2 DEF UserInv
  <2>3. TableOK(u) /\ Grows(Current, u) /\ Stays(Current, u) /\ RootSet(u)
    <3>1. CASE Mounted("/")
      <4>1. "/" \in DOMAIN Current.fs /\ u = Current
        BY <3>1, CurrentFields DEF Mounted
      <4>2. OneRoot(Current.parts)
        BY <2>2, <4>1, RootedOne
      <4>3. PICK i \in DOMAIN Current.parts : Parent(Current, "/") = Current.parts[i]
        BY <2>2, <4>1, ParentOf
      <4>4. Parent(Current, "/").kind # "plain" => HasContainer
        BY <2>2, <4>3, CurrentFields
      <4> QED
        BY <2>2, <4>1, <4>2, <4>4, SameKeeps DEF RootSet
    <3>2. CASE ~ Mounted("/")
      <4>1. "/" \notin DOMAIN fs /\ u = WithRoot
        BY <3>2 DEF Mounted
      <4> HIDE DEF u
      <4> QED
        BY <2>2, <4>1, WithRootKeeps
    <3> QED
      BY <3>1, <3>2
  <2> HIDE DEF u
  <2>4. Current' = u /\ fs' = u.fs /\ parts' = u.parts /\ size' = u.size
    BY <2>1, <2>3, Becomes DEF TableOK, Become
  <2>5. ASSUME NEW i \in DOMAIN Asked PROVE Fulfilled(u, Asked[i], twice)
    <3> DEFINE w == Asked[i]
    <3>1. RequestOK(w) /\ (Fulfilled(Current, w, twice) \/ In(w, todo))
      BY <1>2, OptsFacts DEF UserInv
    <3>2. ~ In(w, todo)
      <4>1. todo \in Seq(Requests) /\ Len(todo) = 0
        BY <1>1, <1>2 DEF UserInv, TodoInv
      <4>2. DOMAIN todo = {}
        BY <4>1
      <4> QED
        BY <4>2 DEF In
    <3> HIDE DEF w
    <3>3. Fulfilled(u, w, twice)
      BY <2>2, <2>3, <3>1, <3>2, FulfilledStays
    <3> QED
      BY <3>3 DEF w
  <2>6. opts.policy /\ NeedsBoot => "/boot" \in DOMAIN u.fs /\ Parent(u, "/boot").kind = "plain"
    BY <1>2, <2>3, CurrentFields DEF UserInv, Stays
  <2>7. BootFine(u)
    BY <2>2, <2>3, <2>5, <2>6, BootIsFine
  <2>8. IInv'
    <3>1. parts' \in Seq(Partition) /\ size' \in Nat /\ OneRoot(parts')
      BY <2>3, <2>4 DEF TableOK, RootSet
    <3>2. Len(parts') \in Nat
      BY <3>1
    <3> QED
      BY <1>1, <1>2, <3>1, <3>2 DEF IInv, TypeOK
  <2>9. Asked' = Asked /\ \A t : BootFine(t)' = BootFine(t)
    BY <1>1, SameAsked
  <2>10. LateInv'
    <3>1. BootFine(Current)'
      BY <1>1, <2>4, <2>7 DEF BootFine
    <3> QED
      BY <1>1, <2>3, <2>4, <2>5, <2>8, <2>9, <3>1 DEF LateInv, RootSet
  <2> QED
    BY <1>1, <1>2, <2>1, <2>10 DEF CInv, Early, Late
<1> QED
  BY <1>3, <1>4

-----------------------------------------------------------------------------
(* Directories and layout.                                                 *)

\* Sorting the partitions leaves one root.
LEMMA SortOneRoot ==
    ASSUME IInv, OneRoot(parts), SortPartitions
    PROVE  OneRoot(parts')
<1> DEFINE N == Len(parts)
<1>1. parts \in Seq(Partition) /\ N \in Nat /\ DOMAIN parts = 1 .. N
  BY DEF IInv, TypeOK
<1>2. PICK order \in [DOMAIN parts -> DOMAIN parts] :
        Sorts(order) /\ parts' = [j \in DOMAIN parts |-> parts[order[j]]]
  BY DEF SortPartitions
<1>3. \A i, j \in 1 .. N : order[i] = order[j] => i = j
  <2>1. ASSUME NEW i \in 1 .. N, NEW j \in 1 .. N, order[i] = order[j] PROVE i = j
    <3>1. i < j \/ j < i \/ i = j
      BY <1>1
    <3> QED
      BY <1>1, <1>2, <2>1, <3>1 DEF Sorts
  <2> QED
    BY <2>1
<1>4. \A i \in 1 .. N : \E j \in 1 .. N : order[j] = i
  <2>1. order \in [1 .. N -> 1 .. N]
    BY <1>1
  <2>2. order \in Injection(1 .. N, 1 .. N)
    BY <1>3, <2>1, Zenon DEF Injection, IsInjective
  <2>3. IsFiniteSet(1 .. N) /\ Cardinality(1 .. N) = Cardinality(1 .. N)
    BY <1>1, FS_Interval
  <2>4. order \in Surjection(1 .. N, 1 .. N)
    BY <2>2, <2>3, FS_Injection
  <2> QED
    BY <2>4 DEF Surjection
<1>5. PICK r \in DOMAIN parts : \A j \in DOMAIN parts : parts[j].root <=> j = r
  BY DEF OneRoot
<1>6. PICK k \in 1 .. N : order[k] = r
  BY <1>1, <1>4, <1>5
<1>7. DOMAIN parts' = 1 .. N /\ \A j \in 1 .. N : parts'[j] = parts[order[j]] /\ order[j] \in DOMAIN parts
  BY <1>1, <1>2
<1>8. \A j \in 1 .. N : parts'[j].root <=> j = k
  BY <1>3, <1>5, <1>6, <1>7
<1> QED
  BY <1>7, <1>8 DEF OneRoot

\* A step after the root is ensured, in which everything stays and grows.
LEMMA LateStep ==
    ASSUME CInv, phase \in Late, phase' \in Late, UNCHANGED <<opts, twice>>,
           IInv', TableOK(Current'), Grows(Current, Current'), Stays(Current, Current'), OneRoot(parts'),
           pc' # "edit" => phase' \in {"layout", "finished"},
           phase' \in {"dirs", "layout", "finished"} => DirsInv',
           phase' \in {"layout", "finished"} => dirs' = {}, phase' = "finished" => pc' = "done"
    PROVE  CInv'
<1>1. LateInv /\ opts' = opts /\ twice' = twice
  BY DEF CInv
<1>2. TableOK(Current) /\ "/" \in DOMAIN Current.fs /\ BootFine(Current)
  BY <1>1, CurrentFields DEF LateInv
<1>3. "/" \in DOMAIN fs'
  BY <1>2, CurrentPrimed DEF Stays
<1>4. Asked' = Asked
  BY <1>1, SameAsked
<1>5. ASSUME NEW i \in DOMAIN Asked PROVE Fulfilled(Current', Asked[i], twice)
  <2>1. RequestOK(Asked[i]) /\ Fulfilled(Current, Asked[i], twice)
    BY <1>1, OptsFacts DEF LateInv
  <2> QED
    BY <1>2, <2>1, FulfilledStays
<1>6. BootFine(Current')
  BY <1>2, BootFineStays
<1>7. LateInv'
  <2>1. BootFine(Current)'
    BY <1>1, <1>6 DEF BootFine
  <2> QED
    BY <1>1, <1>3, <1>4, <1>5, <2>1 DEF LateInv
<1>8. phase' \notin Early /\ phase' \notin {"boot mode", "boot", "user"}
  BY DEF Early, Late
<1> QED
  BY <1>1, <1>7, <1>8 DEF CInv

\* What does not change the table.
LEMMA LateSame ==
    ASSUME CInv, phase \in Late, UNCHANGED tableVars, UNCHANGED layoutVars, opts' = opts
    PROVE  /\ IInv' /\ TableOK(Current') /\ Grows(Current, Current') /\ Stays(Current, Current')
           /\ OneRoot(parts') /\ pc' = pc /\ (DirsInv /\ dirs' = dirs => DirsInv')
<1>1. IInv /\ TableOK(Current) /\ OneRoot(parts)
  BY DEF CInv, LateInv
<1>2. /\ parts' = parts /\ size' = size /\ fs' = fs
      /\ target' = target /\ pc' = pc /\ idx' = idx /\ start' = start
  BY DEF tableVars, layoutVars
<1>3. Current' = Current
  BY <1>2, CurrentFields, CurrentPrimed
<1>4. IInv'
  BY <1>1, <1>2 DEF IInv, TypeOK, Loop, Placed, Good, Sound, HeaderSize, Footer
<1>5. \A n : RequiredOn(fs, n)' = RequiredOn(fs, n)
  BY <1>2 DEF RequiredOn, Owner
<1>6. DirsInv /\ dirs' = dirs => DirsInv'
  BY <1>2, <1>3, <1>5 DEF DirsInv
<1> QED
  BY <1>1, <1>2, <1>3, <1>4, <1>6, SameKeeps

\* EnsureDirectorySizes and relayout.
LEMMA CustomEnlargeStep ==
    ASSUME CInv, CustomEnlarge
    PROVE  CInv'
<1>1. UNCHANGED twice /\ opts.required \in Required
  BY OptsFacts DEF CustomEnlarge
<1>2. CASE phase = "sized" /\ GroupDirectories
  <2>1. /\ UNCHANGED tableVars /\ opts' = opts /\ UNCHANGED layoutVars /\ phase' = "dirs"
        /\ phase \in Late /\ phase' \in Late
    BY <1>2 DEF GroupDirectories, Late
  <2>2. LateInv /\ pc = "edit"
    BY <1>2 DEF CInv, Late
  <2>3. DirsInv'
    BY <1>1, <1>2, <2>2, GroupStep DEF LateInv
  <2>4. /\ IInv' /\ TableOK(Current') /\ Grows(Current, Current') /\ Stays(Current, Current')
        /\ OneRoot(parts') /\ pc' = pc
    BY <2>1, LateSame
  <2> QED
    BY <1>1, <2>1, <2>2, <2>3, <2>4, LateStep
<1>3. CASE StartLayout
  <2>1. /\ UNCHANGED tableVars /\ opts' = opts /\ UNCHANGED layoutVars /\ phase = "dirs"
        /\ phase' = "layout" /\ dirs = {} /\ dirs' = dirs /\ phase \in Late /\ phase' \in Late
    BY <1>3 DEF StartLayout, Late
  <2>2. DirsInv
    BY <2>1 DEF CInv
  <2>3. /\ IInv' /\ TableOK(Current') /\ Grows(Current, Current') /\ Stays(Current, Current')
        /\ OneRoot(parts') /\ pc' = pc /\ DirsInv'
    BY <2>1, <2>2, LateSame
  <2> QED
    BY <1>1, <2>1, <2>3, LateStep
<1>4. ASSUME NEW m \in dirs, EnlargeForDirs(m) PROVE CInv'
  <2>1. /\ phase = "dirs" /\ phase' = "dirs" /\ opts' = opts /\ UNCHANGED layoutVars
        /\ pc' = pc /\ phase \in Late /\ phase' \in Late
    BY <1>4 DEF EnlargeForDirs, layoutVars, Late
  <2>2. LateInv /\ DirsInv /\ pc = "edit"
    BY <2>1 DEF CInv
  <2>3. /\ IInv' /\ TableOK(Current') /\ Grows(Current, Current') /\ Stays(Current, Current') /\ DirsInv'
    BY <1>1, <1>4, <2>2, EnlargeStep DEF LateInv
  <2>4. OneRoot(parts')
    BY <2>1, <2>2, <2>3 DEF IInv
  <2> QED
    BY <1>1, <2>1, <2>2, <2>3, <2>4, LateStep
<1>5. CASE DiskLayOut
  <2>1. /\ phase = "layout" /\ phase' = "layout" /\ opts' = opts /\ dirs' = dirs /\ LayOut
        /\ phase \in Late /\ phase' \in Late
    BY <1>5 DEF DiskLayOut, Late
  <2>2. LateInv /\ DirsInv /\ dirs = {}
    BY <2>1 DEF CInv
  <2>3. /\ IInv' /\ TableOK(Current') /\ Grows(Current, Current') /\ Stays(Current, Current') /\ DirsInv'
    BY <1>1, <1>5, <2>2, LayOutStep DEF LateInv
  <2>4. OneRoot(parts')
    <3>1. CASE SortPartitions
      BY <2>2, <3>1, SortOneRoot DEF LateInv
    <3>2. CASE ~ SortPartitions
      <4>1. pc' # "done"
        BY <2>1, <3>2 DEF LayOut, Begin, SkipRoot, Place, PlaceRoot
      <4> QED
        BY <2>3, <4>1 DEF IInv
    <3> QED
      BY <3>1, <3>2
  <2> QED
    BY <1>1, <2>1, <2>2, <2>3, <2>4, LateStep
<1> QED
  BY <1>2, <1>3, <1>4, <1>5 DEF CustomEnlarge, LayTreeOut

\* The check at the end.
LEMMA CheckStep ==
    ASSUME CInv, CheckTable, UNCHANGED <<opts, dirs, layoutVars>>
    PROVE  CInv'
<1>1. /\ phase = "layout" /\ pc = "done" /\ UNCHANGED tableVars /\ twice' = twice /\ opts' = opts
      /\ dirs' = dirs /\ UNCHANGED layoutVars /\ phase' \in {"failed", "finished"} /\ pc' = pc
  BY DEF CheckTable, layoutVars
<1>2. CASE phase' = "failed"
  BY <1>1, <1>2 DEF CInv, Early, Late
<1>3. CASE phase' = "finished"
  <2>1. phase \in Late /\ phase' \in Late /\ DirsInv /\ dirs = {}
    BY <1>1, <1>3 DEF CInv, Late
  <2>2. /\ IInv' /\ TableOK(Current') /\ Grows(Current, Current') /\ Stays(Current, Current')
        /\ OneRoot(parts') /\ DirsInv'
    BY <1>1, <2>1, LateSame
  <2> QED
    BY <1>1, <1>3, <2>1, <2>2, LateStep
<1> QED
  BY <1>1, <1>2, <1>3

\* A step that changes nothing.
LEMMA CustomStutter ==
    ASSUME CInv, UNCHANGED customVars
    PROVE  CInv'
<1>1. /\ UNCHANGED tableVars /\ UNCHANGED layoutVars /\ opts' = opts /\ phase' = phase /\ dirs' = dirs
      /\ todo' = todo /\ twice' = twice /\ parts' = parts /\ fs' = fs /\ size' = size
      /\ pc' = pc /\ idx' = idx /\ target' = target /\ start' = start
  BY DEF customVars, treeVars, vars, tableVars, layoutVars
<1>2. CASE phase \in Late
  <2>1. /\ IInv' /\ TableOK(Current') /\ Grows(Current, Current') /\ Stays(Current, Current')
        /\ OneRoot(parts') /\ (DirsInv => DirsInv')
    BY <1>1, <1>2, LateSame
  <2>2. /\ phase \in {"dirs", "layout", "finished"} => DirsInv
        /\ phase \in {"layout", "finished"} => dirs = {}
        /\ phase = "finished" => pc = "done"
        /\ pc # "edit" => phase \in {"layout", "finished"}
    BY <1>2 DEF CInv, Late
  <2> QED
    BY <1>1, <1>2, <2>1, <2>2, LateStep
<1>3. CASE phase \notin Late
  <2>1. Current' = Current
    BY <1>1, CurrentFields, CurrentPrimed
  <2>2. Asked' = Asked /\ NeedsBoot' = NeedsBoot /\ HasContainer' = HasContainer /\ \A m : Own(m)' = Own(m)
    BY <1>1, SameAsked
  <2>3. UserInv => UserInv'
    BY <1>1, <2>1, <2>2 DEF UserInv, TodoInv, OnceInv
  <2> QED
    BY <1>1, <1>3, <2>1, <2>2, <2>3 DEF CInv, Late
<1> QED
  BY <1>2, <1>3

-----------------------------------------------------------------------------

\* The invariant of NewCustomPartitionTable, from the empty table to the layout.
THEOREM CustomInvariant == CustomSpec => []CInv
<1>1. ASSUME CInv, [CustomNext]_customVars PROVE CInv'
  <2>1. CASE CustomEdit
    <3>1. UNCHANGED <<opts, dirs, layoutVars>>
      BY <2>1 DEF CustomEdit
    <3>2. CASE AddPartitionsForBootMode
      BY <1>1, <3>1, <3>2, BootModeStep
    <3>3. CASE MaybeAddBootPartition
      BY <1>1, <3>1, <3>3, MaybeBootStep
    <3>4. CASE AddUserPartition
      BY <1>1, <3>1, <3>4, UserStep
    <3>5. CASE EnsureRootFilesystem
      BY <1>1, <3>1, <3>5, EnsureRootStep
    <3>6. CASE CheckTable
      BY <1>1, <3>1, <3>6, CheckStep
    <3> QED
      BY <2>1, <3>2, <3>3, <3>4, <3>5, <3>6 DEF CustomEdit
  <2>2. CASE CustomEnlarge
    BY <1>1, <2>2, CustomEnlargeStep
  <2>3. CASE UNCHANGED customVars
    BY <1>1, <2>3, CustomStutter
  <2> QED
    BY <1>1, <2>1, <2>2, <2>3 DEF CustomNext, CustomDone
<1> QED
  BY <1>1, InitCInv, PTL DEF CustomSpec

\* Whatever a valid blueprint lists is in the finished table, together on a
\* partition of the kind and size asked for, every mountpoint has room for the
\* directories on it, and the table has one root.
THEOREM Delivered == CustomSpec => []AsRequested
<1>1. CInv => AsRequested
  <2> SUFFICES ASSUME CInv, phase = "finished"
               PROVE  /\ OneRoot(parts) /\ DirectoriesFit
                      /\ \A i \in DOMAIN Asked : Fulfilled(Current, Asked[i], twice)
    BY CurrentFields DEF AsRequested, Fulfilled, Mounted
  <2>1. LateInv /\ DirsInv /\ dirs = {} /\ pc = "done"
    BY DEF CInv, Late
  <2>2. DirectoriesFit
    BY <2>1, DirsFit DEF LateInv
  <2> QED
    BY <2>1, <2>2 DEF LateInv
<1> QED
  BY <1>1, CustomInvariant, PTL

\* A root in a volume group or a btrfs has a /boot the boot loader reads, when
\* the policy provides for one: made for it, or listed in the blueprint.
THEOREM BootThere == CustomSpec => []BootReachable
<1>1. CInv => BootReachable
  BY CurrentFields DEF CInv, Late, LateInv, BootFine, BootReachable, Mounted
<1> QED
  BY <1>1, CustomInvariant, PTL

\* A blueprint's table, too, is laid out with its partitions apart from each
\* other and large enough for what is on them.
THEOREM CustomLaidOut == CustomSpec => [](phase = "finished" => NoOverlap /\ PayloadsFit)
<1>1. CInv => (phase = "finished" => NoOverlap /\ PayloadsFit)
  <2> SUFFICES ASSUME CInv, phase = "finished" PROVE NoOverlap /\ PayloadsFit
    OBVIOUS
  <2>1. Sound
    BY DEF CInv, Late, LateInv, IInv
  <2> QED
    BY <2>1 DEF Sound, Good, NoOverlap, PayloadsFit
<1> QED
  BY <1>1, CustomInvariant, PTL
=============================================================================
