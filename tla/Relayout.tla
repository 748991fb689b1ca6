------------------------------ MODULE Relayout ------------------------------
(***************************************************************************)
(* PartitionTable.relayout of pkg/disk/partition_table.go: the partitions, *)
(* edited until then, get their start and final size one by one, the one   *)
(* that holds "/" last; the disk grows to what they need and the root      *)
(* partition to what the disk leaves.  Sizes are in units of 128 bytes,    *)
(* one entry of a GPT.                                                     *)
(***************************************************************************)
EXTENDS Naturals, Sequences

CONSTANTS Type,            \* "gpt" or "dos"
          Sector, Grain,   \* pt.SectorSize, pt.grainSize()
          StartOffset, AbsoluteStartOffset, ExtraPadding,
          GrowRoot,        \* pt.growRootToFillDisk()
          Extent,          \* LVMDefaultExtentSize
          VGMetadata, LUKSMetadata,   \* what MetadataSize returns
          Tables,          \* the partitions relayout may be called on
          DiskSizes,       \* values of pt.Size before it
          ImageSizes       \* its argument

Kinds == {"plain", "lvm", "btrfs"}

\* A partition: "content" is the sum of the sizes of its logical volumes or
\* subvolumes, "luks" says that a LUKS container is around its payload.
Partition ==
    {p \in [id : Nat, start : Nat, size : Nat, root : BOOLEAN,
            kind : Kinds, luks : BOOLEAN, content : Nat] :
       p.kind = "plain" => p.content = 0}

OneRoot(t) == \E i \in DOMAIN t : \A j \in DOMAIN t : t[j].root <=> j = i

ASSUME RelayoutAssumption ==
    /\ Type \in {"gpt", "dos"}
    /\ Sector \in Nat /\ Grain \in Nat \ {0}
    /\ StartOffset \in Nat /\ AbsoluteStartOffset \in BOOLEAN /\ ExtraPadding \in Nat
    /\ GrowRoot \in BOOLEAN
    /\ Extent \in Nat \ {0} /\ VGMetadata \in Nat /\ LUKSMetadata \in Nat
    /\ DiskSizes \subseteq Nat /\ ImageSizes \subseteq Nat

ASSUME TablesAssumption == \A t \in Tables : t \in Seq(Partition) /\ OneRoot(t)

VARIABLES parts,    \* pt.Partitions
          size,     \* pt.Size
          target,   \* the size asked for
          pc, idx,  \* idx: the partition the loop is at
          start     \* where the next partition goes

vars == <<parts, size, target, pc, idx, start>>

-----------------------------------------------------------------------------

Larger(a, b) == IF a > b THEN a ELSE b

AlignTo(s, grain) == IF s % grain = 0 THEN s ELSE (s - (s % grain)) + grain

AlignUp(s) == AlignTo(s, Grain)

\* The MBR or GPT header, and the 128 entries of a GPT or more.
HeaderSize == Sector + IF Type = "dos" THEN 0 ELSE Larger(128, Len(parts))

\* The second GPT header.
Footer == (IF Type = "gpt" THEN AlignUp(HeaderSize) ELSE 0) + ExtraPadding

FirstStart ==
    AlignUp(IF AbsoluteStartOffset /\ StartOffset > HeaderSize
            THEN StartOffset ELSE HeaderSize + StartOffset)

\* minSize of the payload, given the size wanted for it.
VolumesMinSize(p, s) ==
    CASE p.kind = "lvm" -> AlignTo(Larger(p.content + VGMetadata, s), Extent)
      [] p.kind = "btrfs" -> Larger(p.content, s)
      [] p.kind = "plain" -> 0

MinSize(p, s) == VolumesMinSize(p, s) + IF p.luks THEN LUKSMetadata ELSE 0

\* A partition at its place.
Put(p, at, s) == [p EXCEPT !.start = at, !.size = s]

\* Mutant: the payload is not asked what it needs.
FitTo_IgnorePayload(p, s) == s

FitTo(p, s) == Larger(MinSize(p, s), s)

-----------------------------------------------------------------------------

Init ==
    /\ parts \in Tables /\ size \in DiskSizes
    /\ target = 0 /\ pc = "edit" /\ idx = 0 /\ start = 0

\* The caller prepares the table: it adds, converts and enlarges.
Edit ==
    /\ pc = "edit"
    /\ parts' \in Tables /\ size' \in DiskSizes
    /\ UNCHANGED <<target, pc, idx, start>>

Begin(s) ==
    /\ pc = "edit"
    /\ target' = AlignUp(s)
    /\ start' = FirstStart /\ idx' = 1 /\ pc' = "place"
    /\ UNCHANGED <<parts, size>>

\* The partition with "/" is kept for the end.
SkipRoot ==
    /\ pc = "place" /\ idx \in DOMAIN parts /\ parts[idx].root
    /\ idx' = idx + 1
    /\ UNCHANGED <<parts, size, target, pc, start>>

\* Mutant: the next start does not count what alignment added.
Place_AdvanceUnaligned ==
    /\ pc = "place" /\ idx \in DOMAIN parts /\ ~ parts[idx].root
    /\ LET fit == FitTo(parts[idx], parts[idx].size) IN
         /\ parts' = [parts EXCEPT ![idx] = Put(@, start, AlignUp(fit))]
         /\ start' = start + fit
    /\ idx' = idx + 1
    /\ UNCHANGED <<size, target, pc>>

Place ==
    /\ pc = "place" /\ idx \in DOMAIN parts /\ ~ parts[idx].root
    /\ LET fit == AlignUp(FitTo(parts[idx], parts[idx].size)) IN
         /\ parts' = [parts EXCEPT ![idx] = Put(@, start, fit)]
         /\ start' = start + fit
    /\ idx' = idx + 1
    /\ UNCHANGED <<size, target, pc>>

\* The disk: what was asked, what the partitions need, what it was already.
DiskSize(end) == Larger(size, Larger(target, end))

\* Mutant: the root partition is cut to the size asked for.
PlaceRoot_Shrink(i) ==
    /\ pc = "place" /\ idx = Len(parts) + 1 /\ parts[i].root
    /\ size' = Larger(size, target)
    /\ parts' = [parts EXCEPT ![i] =
                   Put(@, start, IF GrowRoot THEN size' - start - Footer ELSE parts[i].size)]
    /\ pc' = "sort"
    /\ UNCHANGED <<target, idx, start>>

\* The partition with "/": place it, settle the size of the disk, grow it.
PlaceRoot(i) ==
    /\ pc = "place" /\ idx = Len(parts) + 1 /\ parts[i].root
    /\ LET fit == AlignUp(FitTo(parts[i], parts[i].size))
           disk == DiskSize(AlignUp(start + Footer + fit))
       IN  /\ size' = disk
           /\ parts' = [parts EXCEPT ![i] =
                          Put(@, start, IF GrowRoot THEN disk - start - Footer ELSE fit)]
    /\ pc' = "sort"
    /\ UNCHANGED <<target, idx, start>>

\* order lists the partitions by start; equal starts may come either way.
Sorts(order) ==
    \A i, j \in DOMAIN parts :
      i < j => order[i] # order[j] /\ parts[order[i]].start <= parts[order[j]].start

\* Mutant: the table stays in the order it was written in.
SortPartitions_Forgotten == pc = "sort" /\ pc' = "done" /\ UNCHANGED <<parts, size, target, idx, start>>

SortPartitions ==
    /\ pc = "sort"
    /\ \E order \in [DOMAIN parts -> DOMAIN parts] :
         Sorts(order) /\ parts' = [i \in DOMAIN parts |-> parts[order[i]]]
    /\ pc' = "done"
    /\ UNCHANGED <<size, target, idx, start>>

Done == pc = "done" /\ UNCHANGED vars

LayOut ==
    \/ \E s \in ImageSizes : Begin(s)
    \/ SkipRoot \/ Place \/ SortPartitions
    \/ \E i \in DOMAIN parts : PlaceRoot(i)

Next == Edit \/ LayOut \/ Done

Spec == Init /\ [][Next]_vars

-----------------------------------------------------------------------------

End(p) == p.start + p.size

Apart(p, q) == End(p) <= q.start \/ End(q) <= p.start

\* What the payload of a partition occupies.
Needs(p) ==
    p.content + (IF p.kind = "lvm" THEN VGMetadata ELSE 0) + (IF p.luks THEN LUKSMetadata ELSE 0)

\* Type invariant.
TypeOK ==
    /\ parts \in Seq(Partition) /\ size \in Nat /\ target \in Nat /\ start \in Nat
    /\ pc \in {"edit", "place", "sort", "done"}
    /\ idx \in 0 .. Len(parts) + 1

\* No partition overlaps a header, the padding or another partition, and the
\* last ends inside the disk.
NoOverlap ==
    pc = "done" =>
      /\ \A i \in DOMAIN parts :
           HeaderSize <= parts[i].start /\ End(parts[i]) + Footer <= size
      /\ \A i, j \in DOMAIN parts : i # j => Apart(parts[i], parts[j])

\* Every payload fits into its partition, also after the root partition was
\* given the rest of the disk.
PayloadsFit == pc = "done" => \A i \in DOMAIN parts : Needs(parts[i]) <= parts[i].size

\* "The partition or volume container that contains '/' is always last in the
\* partition table layout": so it is unless a partition is empty.
RootLast ==
    pc = "done" =>
      \/ parts[Len(parts)].root
      \/ \E i \in DOMAIN parts : ~ parts[i].root /\ parts[i].size = 0
=============================================================================
