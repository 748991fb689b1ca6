--------------------------- MODULE RelayoutProofs ---------------------------
(***************************************************************************)
(* Proofs about Relayout, for every partition table, grain, offset and     *)
(* image size: the partitions of a finished layout are apart from each     *)
(* other, from the headers and from the padding, and hold their payloads.  *)
(***************************************************************************)
EXTENDS Relayout, SequenceTheorems, FiniteSetTheorems, TLAPS

\* Aligning never loses anything.
LEMMA AlignToGrows ==
    ASSUME NEW s \in Nat, NEW g \in Nat \ {0}
    PROVE  AlignTo(s, g) \in Nat /\ AlignTo(s, g) >= s
<1>1. s % g \in 0 .. g - 1
  OBVIOUS
<1>2. s - (s % g) + g \in Int /\ s - (s % g) + g >= s
  BY <1>1
<1> QED
  BY <1>2 DEF AlignTo

\* The size fitTo chooses has room for the payload and is what was asked, at least.
LEMMA FitToGrows ==
    ASSUME NEW p \in Partition, NEW s \in Nat
    PROVE  FitTo(p, s) \in Nat /\ FitTo(p, s) >= s /\ FitTo(p, s) >= Needs(p)
<1> USE RelayoutAssumption
<1> DEFINE v == VolumesMinSize(p, s)
           vg == IF p.kind = "lvm" THEN VGMetadata ELSE 0
           luks == IF p.luks THEN LUKSMetadata ELSE 0
<1>1. p.content \in Nat /\ p.kind \in {"plain", "lvm", "btrfs"} /\ p.luks \in BOOLEAN
  BY DEF Partition, Kinds
<1>2. vg \in Nat /\ luks \in Nat
  BY <1>1
<1>3. CASE p.kind = "lvm"
  <2>1. Larger(p.content + VGMetadata, s) \in Nat
        /\ Larger(p.content + VGMetadata, s) >= p.content + VGMetadata
    BY <1>1 DEF Larger
  <2>2. v = AlignTo(Larger(p.content + VGMetadata, s), Extent)
    BY <1>3 DEF VolumesMinSize
  <2>3. v \in Nat /\ v >= p.content + VGMetadata
    BY <1>1, <2>1, <2>2, AlignToGrows
  <2>4. MinSize(p, s) = v + luks /\ Needs(p) = p.content + VGMetadata + luks
    BY <1>3 DEF MinSize, Needs
  <2> HIDE DEF v, luks
  <2> QED
    BY <1>1, <1>2, <2>3, <2>4 DEF FitTo, Larger
<1>4. CASE p.kind = "btrfs"
  <2>1. v = Larger(p.content, s) /\ Needs(p) = p.content + luks
    BY <1>1, <1>2, <1>4 DEF VolumesMinSize, Needs
  <2>2. MinSize(p, s) = v + luks
    BY DEF MinSize
  <2> HIDE DEF v, luks
  <2> QED
    BY <1>1, <1>2, <2>1, <2>2 DEF FitTo, Larger
<1>5. CASE p.kind = "plain"
  <2>1. v = 0 /\ Needs(p) = luks
    BY <1>1, <1>2, <1>5 DEF VolumesMinSize, Needs, Partition
  <2>2. MinSize(p, s) = v + luks
    BY DEF MinSize
  <2> HIDE DEF v, luks
  <2> QED
    BY <1>1, <1>2, <2>1, <2>2 DEF FitTo, Larger
<1> QED
  BY <1>1, <1>3, <1>4, <1>5 DEF Partition, Kinds

\* Giving partition i a start and a size leaves everything else as it is.
LEMMA Resized ==
    ASSUME NEW t \in Seq(Partition), NEW i \in DOMAIN t, NEW s \in Nat, NEW z \in Nat,
           NEW u, u = [t EXCEPT ![i] = Put(t[i], s, z)]
    PROVE  /\ u \in Seq(Partition) /\ Len(u) = Len(t) /\ DOMAIN u = DOMAIN t
           /\ u[i].start = s /\ u[i].size = z /\ Needs(u[i]) = Needs(t[i])
           /\ \A j \in DOMAIN t \ {i} : u[j] = t[j]
           /\ \A j \in DOMAIN t : u[j].root = t[j].root
<1> DEFINE p == t[i]
           q == Put(p, s, z)
<1>1. p \in Partition /\ DOMAIN t = 1 .. Len(t) /\ Len(t) \in Nat
  OBVIOUS
<1>2. /\ q \in Partition /\ q.start = s /\ q.size = z /\ q.root = p.root
      /\ q.kind = p.kind /\ q.luks = p.luks /\ q.content = p.content
  BY <1>1 DEF Partition, Put
<1>3. u = [t EXCEPT ![i] = q]
  OBVIOUS
<1>4. DOMAIN u = DOMAIN t /\ u[i] = q /\ \A j \in DOMAIN t \ {i} : u[j] = t[j]
  BY <1>3
<1>5. u \in Seq(Partition) /\ Len(u) = Len(t)
  <2>1. i \in 1 .. Len(t)
    BY <1>1
  <2>2. [t EXCEPT ![i] = q] \in Seq(Partition) /\ Len([t EXCEPT ![i] = q]) = Len(t)
    BY <1>2, <2>1, ExceptSeq
  <2> QED
    BY <1>3, <2>2
<1>6. Needs(q) = Needs(p)
  BY <1>2 DEF Needs
<1> QED
  BY <1>2, <1>4, <1>5, <1>6

\* A partition's place and size are naturals.
LEMMA PartitionSizes ==
    ASSUME NEW p \in Partition
    PROVE  p.start \in Nat /\ p.size \in Nat /\ p.content \in Nat
    BY DEF Partition

\* The headers, the footer and the first start are sizes, and the first
\* partition starts behind the header.
LEMMA HeaderFits ==
    ASSUME parts \in Seq(Partition)
    PROVE  HeaderSize \in Nat /\ Footer \in Nat /\ FirstStart \in Nat /\ FirstStart >= HeaderSize
<1> USE RelayoutAssumption
<1>1. HeaderSize \in Nat
  BY DEF HeaderSize, Larger
<1>2. \A s \in Nat : AlignUp(s) \in Nat /\ AlignUp(s) >= s
  BY AlignToGrows DEF AlignUp
<1>3. Footer \in Nat
  <2>1. AlignUp(HeaderSize) \in Nat
    BY <1>1, <1>2
  <2>2. ExtraPadding \in Nat
    OBVIOUS
  <2> QED
    BY <2>1, <2>2 DEF Footer
<1>4. FirstStart \in Nat /\ FirstStart >= HeaderSize
  <2> DEFINE base == IF AbsoluteStartOffset /\ StartOffset > HeaderSize
                     THEN StartOffset ELSE HeaderSize + StartOffset
  <2>1. base \in Nat /\ base >= HeaderSize
    BY <1>1
  <2>2. FirstStart = AlignUp(base)
    BY DEF FirstStart
  <2> HIDE DEF base
  <2> QED
    BY <1>1, <1>2, <2>1, <2>2
<1> QED
  BY <1>1, <1>3, <1>4

-----------------------------------------------------------------------------

\* The partitions the loop has dealt with.
Placed == {i \in DOMAIN parts : i < idx /\ ~ parts[i].root}

\* A partition lies behind the first header and holds its payload.
Good(p) == HeaderSize <= p.start /\ Needs(p) <= p.size

Sound ==
    /\ \A i \in DOMAIN parts : Good(parts[i]) /\ End(parts[i]) + Footer <= size
    /\ \A i, j \in DOMAIN parts : i # j => Apart(parts[i], parts[j])

\* While the loop runs, what it has placed ends before the cursor.
Loop ==
    /\ HeaderSize <= start
    /\ \A i \in Placed : Good(parts[i]) /\ End(parts[i]) <= start
    /\ \A i, j \in Placed : i # j => Apart(parts[i], parts[j])

\* The inductive invariant.
IInv ==
    /\ TypeOK
    /\ pc # "done" => OneRoot(parts)
    /\ pc = "edit" => idx = 0
    /\ pc = "place" => Loop
    /\ pc \in {"sort", "done"} => Sound

\* The initial states are typed: nothing is laid out yet.
LEMMA InitIInv == Init => IInv
<1> USE RelayoutAssumption, TablesAssumption
<1> SUFFICES ASSUME Init PROVE IInv
  OBVIOUS
<1>1. parts \in Seq(Partition) /\ OneRoot(parts) /\ Len(parts) \in Nat
  BY DEF Init
<1>2. size \in Nat /\ target = 0 /\ start = 0 /\ idx = 0 /\ pc = "edit"
  BY DEF Init
<1> QED
  BY <1>1, <1>2 DEF IInv, TypeOK

\* Before the layout: the caller's edits keep the table a table.
LEMMA EditStep == IInv /\ Edit => IInv'
<1> USE RelayoutAssumption, TablesAssumption
<1> SUFFICES ASSUME IInv, Edit PROVE IInv'
  OBVIOUS
<1>1. parts' \in Seq(Partition) /\ OneRoot(parts') /\ Len(parts') \in Nat
  BY DEF Edit
<1>2. size' \in Nat /\ target' = target /\ start' = start /\ idx' = idx /\ pc' = "edit"
  BY DEF Edit
<1>3. idx = 0
  BY DEF IInv, Edit
<1> QED
  BY <1>1, <1>2, <1>3 DEF IInv, TypeOK, Edit

\* The loop starts behind the header with nothing placed.
LEMMA BeginStep == ASSUME IInv, NEW s \in ImageSizes, Begin(s) PROVE IInv'
<1> USE RelayoutAssumption
<1>1. parts \in Seq(Partition) /\ size \in Nat /\ OneRoot(parts) /\ Len(parts) \in Nat
  BY DEF IInv, TypeOK, Begin
<1>2. HeaderSize' = HeaderSize /\ parts' = parts /\ size' = size
  BY DEF Begin, HeaderSize
<1>3. start' \in Nat /\ start' >= HeaderSize
  BY <1>1, HeaderFits DEF Begin
<1>4. target' \in Nat
  BY AlignToGrows DEF Begin, AlignUp
<1>5. idx' = 1 /\ pc' = "place"
  BY DEF Begin
<1>6. Placed' = {}
  BY <1>1, <1>2, <1>5 DEF Placed
<1> QED
  BY <1>1, <1>2, <1>3, <1>4, <1>5, <1>6, HeaderFits DEF IInv, TypeOK, Loop

\* Passing over the root partition places nothing.
LEMMA SkipRootStep == ASSUME IInv, SkipRoot PROVE IInv'
<1>1. parts \in Seq(Partition) /\ Len(parts) \in Nat /\ idx \in Nat
  BY DEF IInv, TypeOK
<1>2. parts' = parts /\ start' = start /\ HeaderSize' = HeaderSize /\ idx' = idx + 1 /\ pc' = pc
  BY DEF SkipRoot, HeaderSize
<1>3. Placed' = Placed
  BY <1>1, <1>2 DEF Placed, SkipRoot
<1>4. Loop
  BY DEF IInv, SkipRoot
<1>5. Loop'
  BY <1>2, <1>3, <1>4 DEF Loop, Good, Needs, End, Apart
<1>6. TypeOK'
  BY <1>1, <1>2 DEF IInv, TypeOK, SkipRoot
<1> QED
  BY <1>2, <1>5, <1>6 DEF IInv, SkipRoot

\* A partition is placed at the cursor, which moves to its end.
LEMMA PlaceStep == ASSUME IInv, Place PROVE IInv'
<1> DEFINE p == parts[idx]
           fit == AlignUp(FitTo(p, p.size))
<1> USE RelayoutAssumption
<1>1. /\ parts \in Seq(Partition) /\ Len(parts) \in Nat /\ idx \in Nat /\ start \in Nat
      /\ idx \in DOMAIN parts /\ DOMAIN parts = 1 .. Len(parts) /\ OneRoot(parts) /\ pc = "place"
  BY DEF IInv, TypeOK, Place
<1>2. p \in Partition /\ p.size \in Nat /\ ~ p.root
  <2>1. p \in Partition
    BY <1>1
  <2> QED
    BY <2>1 DEF Place, Partition
<1>3. fit \in Nat /\ fit >= Needs(p)
  <2>1. FitTo(p, p.size) \in Nat /\ FitTo(p, p.size) >= Needs(p) /\ Needs(p) \in Nat
    BY <1>2, FitToGrows DEF Partition, Needs
  <2> QED
    BY <2>1, AlignToGrows DEF AlignUp
<1> HIDE DEF fit
<1>4. parts' = [parts EXCEPT ![idx] = Put(parts[idx], start, fit)]
  BY DEF Place, fit
<1>5. start' = start + fit /\ idx' = idx + 1 /\ pc' = "place" /\ size' = size /\ target' = target
  BY DEF Place, fit
<1>6. /\ parts' \in Seq(Partition) /\ Len(parts') = Len(parts) /\ DOMAIN parts' = DOMAIN parts
      /\ parts'[idx].start = start /\ parts'[idx].size = fit /\ Needs(parts'[idx]) = Needs(p)
      /\ \A j \in DOMAIN parts \ {idx} : parts'[j] = parts[j]
      /\ \A j \in DOMAIN parts : parts'[j].root = parts[j].root
  <2>1. parts \in Seq(Partition) /\ idx \in DOMAIN parts /\ start \in Nat
    BY <1>1
  <2> QED
    BY <2>1, <1>3, <1>4, Resized
<1>7. HeaderSize' = HeaderSize /\ HeaderSize \in Nat
  BY <1>1, <1>6, HeaderFits DEF HeaderSize
<1>8. Placed' = Placed \cup {idx} /\ idx \notin Placed /\ Placed \subseteq DOMAIN parts
  BY <1>1, <1>2, <1>5, <1>6 DEF Placed
<1>9. Loop
  BY <1>1 DEF IInv
<1>10. ASSUME NEW i \in DOMAIN parts PROVE parts[i].start \in Nat /\ parts[i].size \in Nat
  <2>1. parts[i] \in Partition
    BY <1>1
  <2> QED
    BY <2>1, PartitionSizes
<1>11. \A i \in Placed : parts'[i] = parts[i]
  BY <1>6, <1>8
<1>12. Loop'
  <2>1. HeaderSize' <= start'
    BY <1>1, <1>3, <1>5, <1>7, <1>9 DEF Loop
  <2>2. ASSUME NEW i \in Placed'
        PROVE  Good(parts[i])' /\ (End(parts[i]) <= start)'
    <3>1. CASE i = idx
      BY <1>1, <1>3, <1>5, <1>6, <1>7, <1>9, <3>1 DEF Loop, Good, End
    <3>2. CASE i \in Placed
      <4>1. End(parts[i]) <= start /\ Good(parts[i]) /\ End(parts[i]) \in Nat
        BY <1>8, <1>9, <1>10, <3>2 DEF Loop, End
      <4>2. Good(parts[i])'
        BY <4>1, <1>7, <1>11, <3>2 DEF Good, Needs
      <4>3. End(parts'[i]) = End(parts[i])
        BY <1>11, <3>2
      <4> QED
        BY <4>1, <4>2, <4>3, <1>1, <1>3, <1>5
    <3> QED
      BY <1>8, <3>1, <3>2
  <2>3. ASSUME NEW i \in Placed, NEW j \in Placed, i # j
        PROVE  Apart(parts'[i], parts'[j])
    <3>1. Apart(parts[i], parts[j])
      BY <1>9, <2>3 DEF Loop
    <3>2. parts'[i] = parts[i] /\ parts'[j] = parts[j]
      BY <1>11
    <3> QED
      BY <3>1, <3>2
  <2>4. ASSUME NEW i \in Placed
        PROVE  Apart(parts'[i], parts'[idx]) /\ Apart(parts'[idx], parts'[i])
    BY <1>6, <1>9, <1>11 DEF Loop, Apart, End
  <2>5. \A i, j \in Placed' : i # j => Apart(parts'[i], parts'[j])
    BY <1>8, <2>3, <2>4
  <2> QED
    BY <2>1, <2>2, <2>5 DEF Loop
<1>13. TypeOK'
  BY <1>1, <1>3, <1>5, <1>6 DEF IInv, TypeOK
<1>14. OneRoot(parts')
  <2>1. PICK r \in DOMAIN parts : \A j \in DOMAIN parts : parts[j].root <=> j = r
    BY <1>1 DEF OneRoot
  <2>2. \A j \in DOMAIN parts' : parts'[j].root <=> j = r
    BY <1>6, <2>1, Zenon
  <2> QED
    BY <1>6, <2>1, <2>2 DEF OneRoot
<1> QED
  BY <1>5, <1>12, <1>13, <1>14 DEF IInv

\* The root partition goes last; the disk is made large enough for it and the
\* footer, so giving it the rest of the disk does not shrink it.
LEMMA PlaceRootStep == ASSUME IInv, NEW r \in DOMAIN parts, PlaceRoot(r) PROVE IInv'
<1> DEFINE p == parts[r]
           fit == AlignUp(FitTo(p, p.size))
           end == AlignUp(start + Footer + fit)
           disk == DiskSize(end)
           grown == IF GrowRoot THEN disk - start - Footer ELSE fit
<1> USE RelayoutAssumption
<1>1. /\ parts \in Seq(Partition) /\ Len(parts) \in Nat /\ start \in Nat /\ size \in Nat
      /\ target \in Nat /\ idx = Len(parts) + 1
      /\ DOMAIN parts = 1 .. Len(parts) /\ OneRoot(parts) /\ pc = "place"
  BY DEF IInv, TypeOK, PlaceRoot
<1>2. p \in Partition /\ p.size \in Nat /\ p.root
  <2>1. p \in Partition
    BY <1>1
  <2> QED
    BY <2>1 DEF PlaceRoot, Partition
<1>3. fit \in Nat /\ fit >= Needs(p) /\ Needs(p) \in Nat
  <2>1. FitTo(p, p.size) \in Nat /\ FitTo(p, p.size) >= Needs(p) /\ Needs(p) \in Nat
    BY <1>2, FitToGrows DEF Partition, Needs
  <2> QED
    BY <2>1, AlignToGrows DEF AlignUp
<1>4. Footer \in Nat /\ HeaderSize \in Nat
  BY <1>1, HeaderFits
<1> HIDE DEF fit
<1>5. end \in Nat /\ end >= start + Footer + fit
  <2>1. start + Footer + fit \in Nat
    BY <1>1, <1>3, <1>4
  <2>2. \A s \in Nat : AlignUp(s) \in Nat /\ AlignUp(s) >= s
    BY AlignToGrows DEF AlignUp
  <2> QED
    BY <2>1, <2>2
<1> HIDE DEF end
<1>6. disk \in Nat /\ disk >= end
  BY <1>1, <1>5 DEF DiskSize, Larger
<1>7. /\ parts' = [parts EXCEPT ![r] = Put(parts[r], start, grown)]
      /\ size' = disk /\ target' = target /\ start' = start /\ idx' = idx /\ pc' = "sort"
  BY DEF PlaceRoot, fit, end
<1> HIDE DEF disk
<1>8. grown \in Nat /\ grown >= Needs(p) /\ start + grown + Footer <= disk
  BY <1>1, <1>3, <1>4, <1>5, <1>6
<1> HIDE DEF grown
<1>9. /\ parts' \in Seq(Partition) /\ Len(parts') = Len(parts) /\ DOMAIN parts' = DOMAIN parts
      /\ parts'[r].start = start /\ parts'[r].size = grown /\ Needs(parts'[r]) = Needs(p)
      /\ \A j \in DOMAIN parts \ {r} : parts'[j] = parts[j]
      /\ \A j \in DOMAIN parts : parts'[j].root = parts[j].root
  <2>1. parts \in Seq(Partition) /\ start \in Nat /\ grown \in Nat
    BY <1>1, <1>8
  <2>2. parts' = [parts EXCEPT ![r] = Put(parts[r], start, grown)]
    BY <1>7
  <2> QED
    BY <2>1, <2>2, Resized
<1>10. HeaderSize' = HeaderSize /\ Footer' = Footer
  BY <1>9 DEF HeaderSize, Footer
<1>11. Placed = DOMAIN parts \ {r}
  <2>1. PICK q \in DOMAIN parts : \A j \in DOMAIN parts : parts[j].root <=> j = q
    BY <1>1 DEF OneRoot
  <2>2. q = r
    BY <1>2, <2>1
  <2> QED
    BY <1>1, <2>1, <2>2 DEF Placed
<1>12. Loop
  BY <1>1 DEF IInv
<1>13. ASSUME NEW i \in DOMAIN parts PROVE parts[i].start \in Nat /\ parts[i].size \in Nat
  <2>1. parts[i] \in Partition
    BY <1>1
  <2> QED
    BY <2>1, PartitionSizes
<1>14. ASSUME NEW i \in DOMAIN parts
       PROVE  Good(parts[i])' /\ (End(parts[i]) + Footer <= size)'
  <2>1. CASE i = r
    BY <1>1, <1>4, <1>7, <1>8, <1>9, <1>10, <1>12, <2>1 DEF Loop, Good, End
  <2>2. CASE i # r
    <3>1. i \in Placed /\ parts'[i] = parts[i]
      BY <1>9, <1>11, <2>2
    <3>2. End(parts[i]) <= start /\ Good(parts[i]) /\ End(parts[i]) \in Nat
      BY <1>12, <1>13, <3>1 DEF Loop, End
    <3>3. Good(parts[i])'
      BY <1>10, <3>1, <3>2 DEF Good, Needs
    <3>4. End(parts'[i]) = End(parts[i])
      BY <3>1
    <3>5. End(parts[i]) + Footer <= disk
      BY <1>1, <1>3, <1>4, <1>5, <1>6, <3>2
    <3> QED
      BY <1>7, <1>10, <3>3, <3>4, <3>5
  <2> QED
    BY <2>1, <2>2
<1>15. ASSUME NEW i \in DOMAIN parts, NEW j \in DOMAIN parts, i # j
       PROVE  Apart(parts'[i], parts'[j])
  <2>1. CASE i # r /\ j # r
    <3>1. i \in Placed /\ j \in Placed /\ parts'[i] = parts[i] /\ parts'[j] = parts[j]
      BY <1>9, <1>11, <2>1
    <3>2. Apart(parts[i], parts[j])
      BY <1>12, <1>15, <3>1 DEF Loop
    <3> QED
      BY <3>1, <3>2
  <2>2. CASE i = r
    <3>1. j \in Placed /\ parts'[j] = parts[j] /\ parts'[i].start = start
      BY <1>9, <1>11, <1>15, <2>2
    <3> QED
      BY <1>12, <3>1 DEF Loop, Apart, End
  <2>3. CASE j = r
    <3>1. i \in Placed /\ parts'[i] = parts[i] /\ parts'[j].start = start
      BY <1>9, <1>11, <1>15, <2>3
    <3> QED
      BY <1>12, <3>1 DEF Loop, Apart, End
  <2> QED
    BY <2>1, <2>2, <2>3
<1>16. Sound'
  BY <1>9, <1>14, <1>15 DEF Sound
<1>17. TypeOK'
  BY <1>1, <1>6, <1>7, <1>9 DEF IInv, TypeOK
<1>18. OneRoot(parts')
  <2>1. PICK q \in DOMAIN parts : \A j \in DOMAIN parts : parts[j].root <=> j = q
    BY <1>1 DEF OneRoot
  <2>2. \A j \in DOMAIN parts' : parts'[j].root <=> j = q
    BY <1>9, <2>1, Zenon
  <2> QED
    BY <1>9, <2>1, <2>2 DEF OneRoot
<1> QED
  BY <1>7, <1>16, <1>17, <1>18 DEF IInv

\* Sorting moves whole partitions.
LEMMA SortStep == ASSUME IInv, SortPartitions PROVE IInv'
<1>1. PICK order \in [DOMAIN parts -> DOMAIN parts] :
        Sorts(order) /\ parts' = [i \in DOMAIN parts |-> parts[order[i]]]
  BY DEF SortPartitions
<1>2. parts \in Seq(Partition) /\ Len(parts) \in Nat /\ DOMAIN parts = 1 .. Len(parts) /\ Sound
  BY DEF IInv, TypeOK, SortPartitions
<1>3. parts' \in Seq(Partition) /\ DOMAIN parts' = DOMAIN parts /\ Len(parts') = Len(parts)
  <2>1. parts' \in [1 .. Len(parts) -> Partition]
    BY <1>1, <1>2
  <2>2. parts' \in Seq(Partition)
    BY <1>2, <2>1, SeqDef
  <2> QED
    BY <1>1, <1>2, <2>1, <2>2, LenProperties
<1>4. HeaderSize' = HeaderSize /\ Footer' = Footer /\ size' = size
  BY <1>3 DEF HeaderSize, Footer, SortPartitions
<1>5. \A i \in DOMAIN parts : order[i] \in DOMAIN parts /\ parts'[i] = parts[order[i]]
  BY <1>1
<1>6. ASSUME NEW i \in DOMAIN parts, NEW j \in DOMAIN parts, i # j
      PROVE  Apart(parts'[i], parts'[j])
  <2>1. order[i] # order[j]
    BY <1>1, <1>2, <1>6 DEF Sorts
  <2>2. Apart(parts[order[i]], parts[order[j]])
    BY <1>2, <1>5, <2>1 DEF Sound
  <2> QED
    BY <1>5, <2>2
<1>7. ASSUME NEW i \in DOMAIN parts
      PROVE  Good(parts[i])' /\ (End(parts[i]) + Footer <= size)'
  <2>1. Good(parts[order[i]]) /\ End(parts[order[i]]) + Footer <= size
    BY <1>2, <1>5 DEF Sound
  <2> QED
    BY <1>4, <1>5, <2>1 DEF Good, Needs, End
<1>8. Sound'
  BY <1>3, <1>6, <1>7 DEF Sound
<1>9. TypeOK'
  BY <1>2, <1>3 DEF IInv, TypeOK, SortPartitions
<1> QED
  BY <1>8, <1>9 DEF IInv, SortPartitions

\* Every step keeps the invariant.
THEOREM Invariant == Spec => []IInv
<1>1. ASSUME IInv, [Next]_vars PROVE IInv'
  <2>1. CASE Edit
    BY <1>1, <2>1, EditStep
  <2>2. CASE \E s \in ImageSizes : Begin(s)
    BY <1>1, <2>2, BeginStep
  <2>3. CASE SkipRoot
    BY <1>1, <2>3, SkipRootStep
  <2>4. CASE Place
    BY <1>1, <2>4, PlaceStep
  <2>5. CASE SortPartitions
    BY <1>1, <2>5, SortStep
  <2>6. CASE \E i \in DOMAIN parts : PlaceRoot(i)
    BY <1>1, <2>6, PlaceRootStep
  <2>7. CASE UNCHANGED vars
    BY <1>1, <2>7 DEF vars, IInv, TypeOK, Loop, Sound, Good, Needs, End, Apart, Placed,
                      HeaderSize, Footer
  <2> QED
    BY <1>1, <2>1, <2>2, <2>3, <2>4, <2>5, <2>6, <2>7 DEF Next, LayOut, Done
<1> QED
  BY <1>1, InitIInv, PTL DEF Spec

\* Every state of the layout is typed: no size computed with a subtraction
\* (root.Size = pt.Size - root.Start - footer) ever falls below zero.
THEOREM TypeCorrect == Spec => []TypeOK
<1>1. IInv => TypeOK
  BY DEF IInv
<1> QED
  BY <1>1, Invariant, PTL

\* A finished table: partitions apart from each other, the headers and the
\* padding, whatever grain, offset, padding, image size and table.
THEOREM Disjoint == Spec => []NoOverlap
<1>1. IInv => NoOverlap
  BY DEF IInv, Sound, Good, NoOverlap
<1> QED
  BY <1>1, Invariant, PTL

\* A finished table: every partition holds the volumes and the metadata of its
\* payload, also after the root partition took the rest of the disk.
THEOREM Roomy == Spec => []PayloadsFit
<1>1. IInv => PayloadsFit
  BY DEF IInv, Sound, Good, PayloadsFit
<1> QED
  BY <1>1, Invariant, PTL

-----------------------------------------------------------------------------
(* Where the root partition ends up.  Until the sort it is behind all the  *)
(* others, which only an empty partition survives.                         *)

RootBehind ==
    \E r \in DOMAIN parts :
      /\ parts[r].root
      /\ \A j \in DOMAIN parts \ {r} : ~ parts[j].root /\ End(parts[j]) <= parts[r].start

RootInv == (pc = "sort" => RootBehind) /\ RootLast

\* The root partition is put where the cursor stands after all the others.
LEMMA PlaceRootBehind == ASSUME IInv, NEW r \in DOMAIN parts, PlaceRoot(r) PROVE RootBehind'
<1>1. /\ parts \in Seq(Partition) /\ Len(parts) \in Nat /\ DOMAIN parts = 1 .. Len(parts)
      /\ idx = Len(parts) + 1 /\ OneRoot(parts) /\ Loop /\ parts[r].root
  BY DEF IInv, TypeOK, PlaceRoot
<1>2. PICK z : parts' = [parts EXCEPT ![r] = Put(parts[r], start, z)]
  BY DEF PlaceRoot
<1>3. DOMAIN parts' = DOMAIN parts /\ \A j \in DOMAIN parts \ {r} : parts'[j] = parts[j]
  BY <1>2
<1>4. parts'[r].start = start /\ parts'[r].root
  <2>1. parts'[r] = Put(parts[r], start, z)
    BY <1>2
  <2>2. parts[r] \in Partition
    BY <1>1
  <2> QED
    BY <1>1, <2>1, <2>2 DEF Put, Partition
<1>5. \A j \in DOMAIN parts \ {r} : ~ parts[j].root /\ j \in Placed
  <2>1. \A j \in DOMAIN parts \ {r} : ~ parts[j].root
    BY <1>1 DEF OneRoot
  <2> QED
    BY <1>1, <2>1 DEF Placed
<1>6. \A j \in DOMAIN parts \ {r} : End(parts[j]) <= start
  BY <1>1, <1>5 DEF Loop
<1> QED
  BY <1>3, <1>4, <1>5, <1>6 DEF RootBehind, End

\* Sorted by start, the last partition is that one or starts with it and is
\* empty: an ordering without repetition leaves no partition out.
LEMMA SortRootLast == ASSUME IInv, RootBehind, SortPartitions PROVE RootLast'
<1> DEFINE N == Len(parts)
<1>1. PICK order \in [DOMAIN parts -> DOMAIN parts] :
        Sorts(order) /\ parts' = [i \in DOMAIN parts |-> parts[order[i]]]
  BY DEF SortPartitions
<1>2. PICK r \in DOMAIN parts :
        /\ parts[r].root
        /\ \A j \in DOMAIN parts \ {r} : ~ parts[j].root /\ End(parts[j]) <= parts[r].start
  BY DEF RootBehind
<1>3. parts \in Seq(Partition) /\ N \in Nat /\ DOMAIN parts = 1 .. N
  BY DEF IInv, TypeOK
<1>4. DOMAIN parts' = 1 .. N /\ N \in 1 .. N
  BY <1>1, <1>2, <1>3
<1>5. Len(parts') = N
  <2>1. parts' \in [1 .. N -> Partition]
    BY <1>1, <1>3
  <2>2. parts' \in Seq(Partition)
    BY <1>3, <2>1, SeqDef
  <2> QED
    BY <1>3, <2>1, <2>2, LenProperties
<1>6. PICK k \in DOMAIN parts : order[k] = r
  <2>1. order \in Injection(1 .. N, 1 .. N)
    <3>1. \A i, j \in 1 .. N : i < j => order[i] # order[j]
      BY <1>1, <1>3 DEF Sorts
    <3>2. ASSUME NEW i \in 1 .. N, NEW j \in 1 .. N, order[i] = order[j] PROVE i = j
      BY <1>3, <3>1, <3>2
    <3>3. order \in [1 .. N -> 1 .. N]
      BY <1>1, <1>3
    <3> QED
      BY <3>2, <3>3, Zenon DEF Injection, IsInjective
  <2>2. IsFiniteSet(1 .. N) /\ Cardinality(1 .. N) = Cardinality(1 .. N)
    BY <1>3, FS_Interval
  <2>3. order \in Surjection(1 .. N, 1 .. N)
    BY <2>1, <2>2, FS_Injection
  <2> QED
    BY <1>2, <1>3, <2>3 DEF Surjection
<1> DEFINE last == parts[order[N]]
<1>7. parts'[N] = last /\ order[N] \in DOMAIN parts
  BY <1>1, <1>3, <1>4
<1>8. CASE order[N] = r
  BY <1>2, <1>5, <1>7, <1>8 DEF RootLast
<1>9. CASE order[N] # r
  <2>1. ~ last.root /\ End(last) <= parts[r].start
    BY <1>2, <1>7, <1>9
  <2>2. k < N
    BY <1>3, <1>6, <1>9
  <2>3. parts[r].start <= last.start
    BY <1>1, <1>3, <1>4, <1>6, <2>2 DEF Sorts
  <2>4. last \in Partition /\ parts[r] \in Partition
    BY <1>3, <1>7
  <2>5. last.size = 0
    <3>1. last.start \in Nat /\ last.size \in Nat /\ parts[r].start \in Nat
      BY <2>4, PartitionSizes
    <3> QED
      BY <2>1, <2>3, <3>1 DEF End
  <2>6. N \in DOMAIN parts' /\ ~ parts'[N].root /\ parts'[N].size = 0
    BY <1>4, <1>7, <2>1, <2>5
  <2> QED
    BY <2>6 DEF RootLast
<1> QED
  BY <1>8, <1>9

\* "The partition or volume container that contains '/' is always last in the
\* partition table layout": relayout keeps the promise of its comment for every
\* table without an empty partition.
THEOREM RootBecomesLast == Spec => []RootLast
<1>1. Init => RootInv
  BY DEF Init, RootInv, RootLast
<1>2. ASSUME IInv, RootInv, [Next]_vars PROVE RootInv'
  <2>1. CASE Edit
    BY <2>1 DEF Edit, RootInv, RootLast
  <2>2. CASE \E s \in ImageSizes : Begin(s)
    BY <2>2 DEF Begin, RootInv, RootLast
  <2>3. CASE SkipRoot
    BY <2>3 DEF SkipRoot, RootInv, RootLast
  <2>4. CASE Place
    BY <2>4 DEF Place, RootInv, RootLast
  <2>5. CASE SortPartitions
    <3>1. RootLast' /\ pc' = "done"
      BY <1>2, <2>5, SortRootLast DEF RootInv, SortPartitions
    <3> QED
      BY <3>1 DEF RootInv
  <2>6. CASE \E i \in DOMAIN parts : PlaceRoot(i)
    <3>1. RootBehind' /\ pc' = "sort"
      BY <1>2, <2>6, PlaceRootBehind DEF PlaceRoot
    <3> QED
      BY <3>1 DEF RootInv, RootLast
  <2>7. CASE UNCHANGED vars
    BY <1>2, <2>7 DEF vars, RootInv, RootLast, RootBehind, End
  <2> QED
    BY <1>2, <2>1, <2>2, <2>3, <2>4, <2>5, <2>6, <2>7 DEF Next, LayOut, Done
<1>3. RootInv => RootLast
  BY DEF RootInv
<1> QED
  BY <1>1, <1>2, <1>3, Invariant, PTL DEF Spec
=============================================================================
