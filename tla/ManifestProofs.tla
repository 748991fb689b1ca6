--------------------------- MODULE ManifestProofs ---------------------------
(***************************************************************************)
(* Proofs about Manifest for every image type and image, any calls made    *)
(* before and any number of serializations of the same objects.            *)
(*                                                                         *)
(* The first part walks over the image definitions: whatever the options,  *)
(* the first pipeline an image adds is a build root.  The second part is   *)
(* the inductive invariant AbortInv: that build root is started before any *)
(* other pipeline and ended before any other, so it remembers an aborted   *)
(* serialization, whichever pipeline caused it.                            *)
(*                                                                         *)
(* The third is about references.  Within: the stages of each kind of      *)
(* pipeline read its build root and the pipelines it points to.  Makes:    *)
(* each image definition adds a pipeline after those it points to.         *)
(* ResolveInv: what is serialized are the pipelines of the image, in their *)
(* order.                                                                  *)
(*                                                                         *)
(* The fourth is about the order of the stages.  Lacks: most stages are    *)
(* none of those with a fixed place.  Packed, Labelled and Enabled: what   *)
(* each kind of pipeline keeps to.  OrderInv: whatever was serialized      *)
(* keeps to all three.                                                     *)
(*                                                                         *)
(* The last is about the sources.  Takes: what the stages of each kind of  *)
(* pipeline use.  Fits: what each image definition tells its pipelines.    *)
(* SourcesInv: what a pipeline asks for is resolved (Answered), kept while *)
(* it is serialized (Held) and given to the sources (Provided).            *)
(***************************************************************************)
EXTENDS Manifest, FiniteSetTheorems, SequenceTheorems, TLAPS

\* The pipelines that make a build root: from packages or from a container.

BuildRoots == {"buildroot", "buildroot-container"}

\* s is a sequence.
IsSeq(s) == \E S : s \in Seq(S)

\* s begins with the pipeline of a build root.
Rooted(s) == IsSeq(s) /\ Len(s) >= 1 /\ s[1].kind \in BuildRoots

\* A sequence over a set is one over any larger set.
LEMMA SeqUnion ==
    ASSUME NEW S, NEW T, NEW s \in Seq(S)
    PROVE  s \in Seq(S \union T)
<1>1. Len(s) \in Nat /\ DOMAIN s = 1 .. Len(s) /\ s = [i \in 1 .. Len(s) |-> s[i]]
  OBVIOUS
<1>2. \A i \in 1 .. Len(s) : s[i] \in S \union T
  OBVIOUS
<1> QED
  BY <1>1, <1>2, IsASeq

\* Pipelines added behind a build root leave it first.
LEMMA RootedConcat ==
    ASSUME NEW s, NEW t, Rooted(s), IsSeq(t)
    PROVE  Rooted(s \o t)
<1>1. PICK S : s \in Seq(S)
  BY DEF Rooted, IsSeq
<1>2. PICK T : t \in Seq(T)
  BY DEF IsSeq
<1>3. s \in Seq(S \union T) /\ t \in Seq(T \union S)
  BY <1>1, <1>2, SeqUnion
<1>4. s \in Seq(S \union T) /\ t \in Seq(S \union T)
  BY <1>3
<1> DEFINE U == S \union T
<1> HIDE DEF U
<1>5. s \in Seq(U) /\ t \in Seq(U) /\ Len(s) >= 1
  BY <1>4 DEF U, Rooted
<1>6. s \o t \in Seq(U) /\ (s \o t)[1] = s[1] /\ Len(s \o t) >= 1
  BY <1>5, ConcatProperties
<1> QED
  BY <1>6 DEF Rooted, IsSeq

\* Sequences are closed under concatenation, whatever their elements.
LEMMA SeqConcat ==
    ASSUME NEW s, NEW t, IsSeq(s), IsSeq(t)
    PROVE  IsSeq(s \o t)
<1>1. PICK S : s \in Seq(S)
  BY DEF IsSeq
<1>2. PICK T : t \in Seq(T)
  BY DEF IsSeq
<1>3. s \in Seq(S \union T) /\ t \in Seq(T \union S)
  BY <1>1, <1>2, SeqUnion
<1>4. s \in Seq(S \union T) /\ t \in Seq(S \union T)
  BY <1>3
<1> QED
  BY <1>4 DEF IsSeq

\* The lists of pipelines written out in the image definitions are sequences.
LEMMA Short ==
    ASSUME NEW a, NEW b, NEW c, NEW d, NEW e
    PROVE  /\ IsSeq(<< >>) /\ IsSeq(<<a>>) /\ IsSeq(<<a, b>>) /\ IsSeq(<<a, b, c>>) /\ IsSeq(<<a, b, c, d>>)
           /\ IsSeq(<<a, b, c, d, e>>)
<1> DEFINE S == {a, b, c, d, e}
<1>1. /\ << >> \in Seq(S) /\ <<a>> \in Seq(S) /\ <<a, b>> \in Seq(S) /\ <<a, b, c>> \in Seq(S)
      /\ <<a, b, c, d>> \in Seq(S) /\ <<a, b, c, d, e>> \in Seq(S)
  OBVIOUS
<1> QED
  BY <1>1 DEF IsSeq

\* So is a list that is added on a condition.
LEMMA WhenSeq ==
    ASSUME NEW c, NEW s, IsSeq(s)
    PROVE  IsSeq(When(c, s))
  BY Short DEF When

\* The kind of a pipeline is the one it is made with.
LEMMA KindIs ==
    ASSUME NEW kind, NEW name, NEW build, NEW of, NEW opts
    PROVE  Pipeline(kind, name, build, of, opts).kind = kind
  BY DEF Pipeline

\* A list that is written out is rooted when its first pipeline is a build root.
LEMMA OneRooted ==
    ASSUME NEW a, a.kind \in BuildRoots, NEW b
    PROVE  Rooted(<<a>>) /\ Rooted(<<a, b>>)
<1>1. <<a>>[1] = a /\ <<a, b>>[1] = a /\ Len(<<a>>) >= 1 /\ Len(<<a, b>>) >= 1
  OBVIOUS
<1>2. IsSeq(<<a>>) /\ IsSeq(<<a, b>>)
  BY Short, Zenon
<1> QED
  BY <1>1, <1>2, Zenon DEF Rooted

\* The same for a pipeline as the image definitions make it.
LEMMA PipelineRooted ==
    ASSUME NEW kind \in BuildRoots, NEW name, NEW build, NEW of, NEW opts, NEW b
    PROVE  /\ Rooted(<<Pipeline(kind, name, build, of, opts)>>)
           /\ Rooted(<<Pipeline(kind, name, build, of, opts), b>>)
<1> DEFINE a == Pipeline(kind, name, build, of, opts)
<1>1. a.kind \in BuildRoots
  BY KindIs
<1> HIDE DEF a
<1>2. Rooted(<<a>>) /\ Rooted(<<a, b>>)
  BY <1>1, OneRooted
<1> QED
  BY <1>2 DEF a

\* Every build root comes first in what the image adds to the manifest.
LEMMA BuildFirst ==
    ASSUME NEW image
    PROVE  /\ Rooted(addBuildBootstrapPipelines(image)) /\ Rooted(BootcBuild(image))
           /\ \A o : Rooted(NewBuildFromContainer(o))
<1>0. "buildroot" \in BuildRoots /\ "buildroot-container" \in BuildRoots
  BY DEF BuildRoots
<1>1. Rooted(addBuildBootstrapPipelines(image))
  BY <1>0, PipelineRooted, Zenon DEF addBuildBootstrapPipelines
<1>2. ASSUME NEW o PROVE Rooted(NewBuildFromContainer(o))
  BY <1>0, PipelineRooted, Zenon DEF NewBuildFromContainer
<1>3. Rooted(BootcBuild(image))
  <2>1. CASE "BuildContainer" \in image.opts
    BY <2>1, <1>0, PipelineRooted, Zenon DEF BootcBuild
  <2>2. CASE "BuildContainer" \notin image.opts
    BY <2>2, <1>2 DEF BootcBuild
  <2> QED
    BY <2>1, <2>2
<1> QED
  BY <1>1, <1>2, <1>3

\* The rest of it are sequences.
LEMMA Parts ==
    ASSUME NEW image, NEW x, NEW opts
    PROVE  /\ IsSeq(GetCompressionPipeline(image, x)) /\ IsSeq(newGCETarPipelineForImg(x))
           /\ IsSeq(OSOnly(image))
           /\ IsSeq(DiskFormat(x)) /\ IsSeq(BootcRaw(image, opts)) /\ IsSeq(baseRawOstreeImage(opts))
           /\ IsSeq(Bootloaders(image)) /\ IsSeq(ISORootfsImg(image)) /\ IsSeq(AnacondaTree(image, opts))
           /\ IsSeq(ISOPipelines(image, x, opts))
<1>1. /\ IsSeq(GetCompressionPipeline(image, x)) /\ IsSeq(Bootloaders(image)) /\ IsSeq(ISORootfsImg(image))
  BY Short, WhenSeq DEF GetCompressionPipeline, Bootloaders, ISORootfsImg
<1>2. IsSeq(newGCETarPipelineForImg(x)) /\ IsSeq(OSOnly(image)) /\ IsSeq(baseRawOstreeImage(opts))
  BY Short DEF newGCETarPipelineForImg, OSOnly, baseRawOstreeImage
<1>3. IsSeq(newGCETarPipelineForImg("archive"))
  BY Short DEF newGCETarPipelineForImg
<1>4. IsSeq(DiskFormat(x))
  BY Short, <1>3 DEF DiskFormat
<1>5. IsSeq(BootcRaw(image, opts)) /\ IsSeq(AnacondaTree(image, opts)) /\ IsSeq(ISOPipelines(image, x, opts))
  BY Short DEF BootcRaw, AnacondaTree, ISOPipelines
<1> QED
  BY <1>1, <1>2, <1>4, <1>5

\* Whatever the image, its manifest begins with a build root.
LEMMA ManifestRooted == ASSUME NEW image PROVE Rooted(InstantiateManifest(image))
<1> USE BuildFirst, Parts, RootedConcat, SeqConcat, Short, WhenSeq
<1>1. Rooted(Archive(image))
  BY Zenon DEF Archive
<1>2. Rooted(BaseContainer(image))
  BY Zenon DEF BaseContainer
<1>3. Rooted(DiskImage(image))
  BY Zenon DEF DiskImage
<1>4. Rooted(PXETar(image))
  BY Zenon DEF PXETar
<1>5. Rooted(BootcDiskImage(image))
  BY Zenon DEF BootcDiskImage
<1>6. Rooted(BootcLegacyDiskImage(image))
  BY Zenon DEF BootcLegacyDiskImage
<1>7. Rooted(BootcPXEImage(image))
  BY Zenon DEF BootcPXEImage
<1>8. Rooted(ContainerBasedIso(image))
  BY Zenon DEF ContainerBasedIso
<1>9. Rooted(OSTreeDiskImage(image))
  <2>1. Rooted(<<Pipeline("buildroot", "build", "", Nothing, {})>>)
    BY PipelineRooted DEF BuildRoots
  <2> QED
    BY <2>1, Zenon DEF OSTreeDiskImage
<1>10. Rooted(OSTreeArchive(image))
  BY Zenon DEF OSTreeArchive
<1>11. Rooted(OSTreeContainer(image))
  BY Zenon DEF OSTreeContainer
<1>12. Rooted(OSTreeSimplifiedInstaller(image))
  BY Zenon DEF OSTreeSimplifiedInstaller
<1>13. Rooted(AnacondaLiveInstaller(image))
  BY Zenon DEF AnacondaLiveInstaller
<1>14. Rooted(AnacondaNetInstaller(image))
  BY Zenon DEF AnacondaNetInstaller
<1>15. Rooted(AnacondaOSTreeInstaller(image))
  BY Zenon DEF AnacondaOSTreeInstaller
<1>16. Rooted(AnacondaTarInstaller(image))
  BY Zenon DEF AnacondaTarInstaller
<1>17. Rooted(AnacondaContainerInstaller(image))
  BY Zenon DEF AnacondaContainerInstaller
<1>18. Rooted(AnacondaContainerInstallerLegacy(image))
  BY Zenon DEF AnacondaContainerInstallerLegacy
<1> QED
  BY <1>1, <1>2, <1>3, <1>4, <1>5, <1>6, <1>7, <1>8, <1>9, <1>10, <1>11, <1>12, <1>13, <1>14,
     <1>15, <1>16, <1>17, <1>18 DEF InstantiateManifest
-----------------------------------------------------------------------------
(* The inductive invariant.                                                *)

\* Names tell the pipelines apart: addPipeline panics otherwise.
NamesDiffer == \A i, j \in DOMAIN pipelines : pipelines[i].name = pipelines[j].name => i = j

\* The fields of the object of a pipeline and of what is resolved for it.
ObjectFields == {"started", "in", "kernelVer", "kernelPath", "hashed"}

InputFields == {"version", "containers", "commits", "flatpaks"}

\* Every pipeline has an object.
Objects ==
    /\ DOMAIN mem = {pipelines[i].name : i \in DOMAIN pipelines}
    /\ \A n \in DOMAIN mem : DOMAIN mem[n] = ObjectFields

\* The first pipeline of the manifest, a build root.
First == pipelines[1]

\* The steps before there are pipelines, and those of Generate's second half up
\* to the first serializeStart.
Early == {"check", "image", "instantiate"}

Resolving == {"chains", "depsolve", "containers", "commits", "flatpaks"}

\* How far the manifest has come: the pipelines are added one by one, and the
\* first of them is a build root.
Shape ==
    /\ NamesDiffer /\ Objects /\ idx \in Nat \ {0} /\ aborted \in BOOLEAN
    /\ Len(pipelines) >= 1 => First.kind \in BuildRoots
    /\ pc \in {"check", "image"} => Len(pipelines) = 0 /\ idx = 1
    /\ pc = "instantiate" => idx = Len(pipelines) + 1
    /\ pc \notin Early \union {"refused", "panicked"} => Len(pipelines) >= 1

\* What has been resolved for the pipelines: the container of a build root too.
Results ==
    /\ pc = "depsolve" => DOMAIN chains = DOMAIN mem
    /\ pc \in {"containers", "commits", "flatpaks", "start"} =>
         /\ DOMAIN resolved = DOMAIN mem
         /\ \A n \in DOMAIN resolved : DOMAIN resolved[n] = InputFields
    /\ pc \in {"commits", "flatpaks", "start"} =>
         (First.kind = "buildroot-container" => resolved[First.name].containers # {})

\* The build root refuses to be started.
Locked == DoubleStart(First, mem[First.name])

\* The build root is the first to be started and the first to be ended: from
\* its start to the end, and for ever when the end is not reached, it is locked.
Lock ==
    /\ (pc = "start" /\ idx > 1) \/ pc = "serialize" => Locked
    /\ aborted => /\ Locked
                  /\ pc \in Resolving \union {"start", "failed"}
                  /\ pc = "start" => idx = 1

AbortInv == IsSeq(pipelines) /\ Shape /\ Results /\ Lock

\* Before the first call there are no pipelines and nothing is aborted.
LEMMA AbortInit == Init => AbortInv
<1> SUFFICES ASSUME Init PROVE AbortInv
  OBVIOUS
<1>1. pipelines \in Seq({}) /\ Len(pipelines) = 0 /\ DOMAIN pipelines = {} /\ DOMAIN mem = {}
  BY DEF Init
<1>2. idx = 1 /\ aborted = FALSE /\ pc \in Early
  BY DEF Init, Early
<1>3. IsSeq(pipelines)
  BY <1>1 DEF IsSeq
<1>4. Objects /\ NamesDiffer
  BY <1>1 DEF Objects, NamesDiffer
<1>5. Shape
  <2>1. aborted \in BOOLEAN
    BY <1>2, Zenon
  <2> QED
    BY <1>1, <1>2, <1>4, <2>1 DEF Shape, Early
<1>6. Results /\ Lock
  BY <1>2 DEF Results, Lock, Early
<1> QED
  BY <1>3, <1>5, <1>6 DEF AbortInv

\* The pipelines and their objects are made one by one.
LEMMA AbortAdd == ASSUME AbortInv, addPipeline PROVE AbortInv'
<1> DEFINE made == InstantiateManifest(img)
           p == made[idx]
<1>1. Rooted(made)
  BY ManifestRooted
<1>2. /\ pc = "instantiate" /\ idx = Len(pipelines) + 1 /\ idx <= Len(made)
      /\ aborted = FALSE /\ aborted' = aborted
  BY DEF addPipeline, AbortInv, Shape, Lock, Resolving
<1> HIDE DEF made
<1>3. PICK S : pipelines \in Seq(S)
  BY DEF AbortInv, IsSeq
<1>4. CASE \E q \in Range(pipelines) : q.name = p.name
  <2>1. pc' = "panicked" /\ UNCHANGED <<pipelines, mem, idx, aborted>>
    BY <1>4 DEF addPipeline, made
  <2>2. IsSeq(pipelines)'
    BY <2>1 DEF AbortInv
  <2>3. Shape'
    BY <2>1, <1>2 DEF AbortInv, Shape, NamesDiffer, Objects, First, Early
  <2>4. Results' /\ Lock'
    BY <2>1, <1>2 DEF Results, Lock
  <2> QED
    BY <2>2, <2>3, <2>4 DEF AbortInv
<1>5. CASE ~ \E q \in Range(pipelines) : q.name = p.name
  <2>1. /\ pipelines' = Append(pipelines, p) /\ idx' = idx + 1 /\ pc' = pc
        /\ mem' = [n \in DOMAIN mem \union {p.name} |-> IF n = p.name THEN NewObject(p) ELSE mem[n]]
    BY <1>5 DEF addPipeline, made
  <2> HIDE DEF p
  <2>2. pipelines \in Seq(S \union {p})
    BY <1>3, SeqUnion
  <2>3. /\ pipelines' \in Seq(S \union {p}) /\ Len(pipelines') = Len(pipelines) + 1 /\ Len(pipelines) \in Nat
        /\ DOMAIN pipelines = 1 .. Len(pipelines) /\ DOMAIN pipelines' = 1 .. Len(pipelines) + 1
        /\ \A i \in DOMAIN pipelines : pipelines'[i] = pipelines[i]
        /\ pipelines'[Len(pipelines) + 1] = p
    BY <2>1, <2>2, AppendProperties
  <2>4. \A i \in DOMAIN pipelines : pipelines[i].name # p.name
    BY <1>5 DEF Range
  <2>5. NamesDiffer'
    BY <2>3, <2>4 DEF AbortInv, Shape, NamesDiffer
  <2>6. DOMAIN NewObject(p) = ObjectFields
    BY DEF NewObject, ObjectFields
  <2>7. DOMAIN mem' = {pipelines'[i].name : i \in DOMAIN pipelines'}
    BY <2>1, <2>3 DEF AbortInv, Shape, Objects
  <2>8. \A n \in DOMAIN mem' : DOMAIN mem'[n] = ObjectFields
    BY <2>1, <2>6 DEF AbortInv, Shape, Objects
  <2>9. Objects'
    BY <2>7, <2>8 DEF Objects
  <2>10. First'.kind \in BuildRoots
    <3>1. CASE Len(pipelines) = 0
      BY <3>1, <2>3, <1>1, <1>2 DEF First, p, Rooted
    <3>2. CASE Len(pipelines) # 0
      BY <3>2, <2>3 DEF First, AbortInv, Shape
    <3> QED
      BY <3>1, <3>2
  <2>11. Shape'
    <3>1. aborted' \in BOOLEAN
      BY <1>2, Zenon
    <3>2. idx' = Len(pipelines') + 1 /\ idx' \in Nat \ {0}
      BY <2>1, <2>3, <1>2
    <3> QED
      BY <2>1, <2>5, <2>9, <2>10, <3>1, <3>2, <1>2 DEF Shape, Early
  <2>12. Results' /\ Lock'
    BY <2>1, <1>2 DEF Results, Lock
  <2>13. IsSeq(pipelines)'
    BY <2>3 DEF IsSeq
  <2> QED
    BY <2>11, <2>12, <2>13 DEF AbortInv
<1> QED
  BY <1>4, <1>5

\* A step that leaves the pipelines and their objects alone.
LEMMA Frame ==
    ASSUME AbortInv, UNCHANGED <<pipelines, mem>>
    PROVE  /\ IsSeq(pipelines)' /\ NamesDiffer' /\ Objects' /\ First' = First
           /\ Locked' <=> Locked
<1>1. pipelines' = pipelines /\ mem' = mem
  OBVIOUS
<1>2. IsSeq(pipelines)' /\ NamesDiffer' /\ Objects' /\ First' = First
  BY <1>1 DEF AbortInv, Shape, NamesDiffer, Objects, First
<1>3. Locked' <=> Locked
  BY <1>1, <1>2, Zenon DEF Locked
<1> QED
  BY <1>2, <1>3

\* The calls that make the image, and the end of InstantiateManifest.
LEMMA AbortMade ==
    ASSUME AbortInv, checkOptions \/ MakeImage \/ Instantiated
    PROVE  AbortInv'
<1>1. UNCHANGED <<pipelines, mem, idx, aborted>> /\ pc \in Early
  BY DEF checkOptions, MakeImage, Instantiated, Stop, Early
<1>2. aborted = FALSE /\ aborted' = FALSE
  BY <1>1, Zenon DEF AbortInv, Shape, Lock, Early, Resolving
<1>3. \/ pc \in {"check", "image"} /\ pc' \in Early \union {"refused", "panicked"}
      \/ pc = "instantiate" /\ pc' \in {"refused", "panicked"}
      \/ pc = "instantiate" /\ pc' = "chains" /\ idx > Len(InstantiateManifest(img))
  BY DEF checkOptions, MakeImage, Instantiated, Stop, Early
<1>4. Rooted(InstantiateManifest(img))
  BY ManifestRooted
<1>5. Len(InstantiateManifest(img)) >= 1
  BY <1>4 DEF Rooted
<1>6. PICK S : pipelines \in Seq(S)
  BY DEF AbortInv, IsSeq
<1>7. Len(pipelines) \in Nat
  BY <1>6
<1>8. PICK T : InstantiateManifest(img) \in Seq(T)
  BY <1>4 DEF Rooted, IsSeq
<1>9. Len(InstantiateManifest(img)) \in Nat
  BY <1>8
<1>10. pc' = "chains" => Len(pipelines) >= 1
  BY <1>3, <1>5, <1>7, <1>9 DEF AbortInv, Shape, Early
<1>11. Shape'
  <2>1. aborted' \in BOOLEAN
    BY <1>2, Zenon
  <2>2. Len(pipelines') = Len(pipelines) /\ idx' = idx
    BY <1>1
  <2> QED
    BY <1>1, <1>3, <1>7, <1>10, <2>1, <2>2, Frame DEF AbortInv, Shape, Early
<1>12. Results' /\ Lock'
  BY <1>2, <1>3 DEF Results, Lock, Early
<1> QED
  BY <1>1, <1>11, <1>12, Frame DEF AbortInv

\* A pipeline is found by its name.
LEMMA NamedIs ==
    ASSUME AbortInv, NEW i \in DOMAIN pipelines
    PROVE  Named(pipelines, pipelines[i].name) = pipelines[i]
  BY DEF Named, AbortInv, Shape, NamesDiffer

\* The first pipeline of a manifest.
LEMMA FirstIn ==
    ASSUME AbortInv, Len(pipelines) >= 1
    PROVE  /\ First.kind \in BuildRoots /\ First.name \in DOMAIN mem
           /\ 1 \in DOMAIN pipelines /\ Named(pipelines, First.name) = First
<1>1. PICK S : pipelines \in Seq(S)
  BY DEF AbortInv, IsSeq
<1>2. 1 \in DOMAIN pipelines
  BY <1>1
<1> QED
  BY <1>2, NamedIs DEF AbortInv, Shape, Objects, First

\* The content is resolved, for a build root's container in particular.
LEMMA AbortResolve ==
    ASSUME AbortInv,
           \/ GetPackageSetChains \/ Depsolve \/ ResolveContainers \/ CheckContainerArch
           \/ ResolveCommits \/ ResolveFlatpaks \/ ResolutionFails
    PROVE  AbortInv'
<1>1. UNCHANGED <<pipelines, mem, aborted>> /\ pc \in Resolving
      /\ pc' \in Resolving \union {"start", "failed"}
      /\ \/ idx' = idx /\ pc' # "start"
         \/ idx' = 1 /\ pc' = "start"
  BY DEF GetPackageSetChains, Depsolve, ResolveContainers, CheckContainerArch, ResolveCommits,
         ResolveFlatpaks, ResolutionFails, Stop, Resolving
<1>2. Len(pipelines) >= 1 /\ Len(pipelines') = Len(pipelines)
  BY <1>1 DEF AbortInv, Shape, Early, Resolving
<1>3. Shape'
  BY <1>1, <1>2, Frame DEF AbortInv, Shape, Early, Resolving
<1>4. Lock'
  BY <1>1, Frame DEF AbortInv, Lock, Resolving
<1>5. First.kind \in BuildRoots /\ First.name \in DOMAIN mem /\ Named(pipelines, First.name) = First
  BY <1>2, FirstIn
<1>6. First' = First /\ mem' = mem
  BY <1>1, Frame
<1>7. Results'
  <2>1. CASE GetPackageSetChains
    BY <2>1, <1>6 DEF GetPackageSetChains, Results
  <2>2. CASE Depsolve
    <3>1. pc = "depsolve" /\ pc' = "containers"
      BY <2>2 DEF Depsolve
    <3>2. DOMAIN chains = DOMAIN mem
      BY <3>1 DEF AbortInv, Results
    <3>3. resolved' = [n \in DOMAIN mem |->
                        [NoInputs EXCEPT !.version = IF chains[n] = {} THEN 0 ELSE world]]
      BY <2>2, <3>2 DEF Depsolve
    <3>4. ASSUME NEW v PROVE DOMAIN [NoInputs EXCEPT !.version = v] = InputFields
      BY DEF NoInputs, InputFields
    <3>5. DOMAIN resolved' = DOMAIN mem' /\ \A n \in DOMAIN resolved' : DOMAIN resolved'[n] = InputFields
      BY <3>3, <3>4, <1>6
    <3> QED
      BY <3>1, <3>5 DEF Results
  <2>3. CASE ResolveContainers
    <3>1. pc = "containers" /\ pc' = "containers"
      BY <2>3 DEF ResolveContainers
    <3>2. PICK n, c : resolved' = [resolved EXCEPT ![n].containers = c]
      BY <2>3 DEF ResolveContainers
    <3>3. DOMAIN resolved = DOMAIN mem /\ \A k \in DOMAIN resolved : DOMAIN resolved[k] = InputFields
      BY <3>1 DEF AbortInv, Results
    <3>4. DOMAIN resolved' = DOMAIN mem' /\ \A k \in DOMAIN resolved' : DOMAIN resolved'[k] = InputFields
      BY <3>2, <3>3, <1>6
    <3> QED
      BY <3>1, <3>4 DEF Results
  <2>4. CASE CheckContainerArch
    <3>1. pc = "containers" /\ resolved' = resolved /\ pc' \in {"failed", "commits"} /\ Unresolved = {}
      BY <2>4 DEF CheckContainerArch, Stop
    <3>2. DOMAIN resolved = DOMAIN mem /\ \A k \in DOMAIN resolved : DOMAIN resolved[k] = InputFields
      BY <3>1 DEF AbortInv, Results
    <3>3. First.name \notin Unresolved /\ First.name \in DOMAIN resolved
      BY <3>1, <3>2, <1>5
    <3>4. First.kind = "buildroot-container" => getContainerSources(First) # {}
      BY DEF getContainerSources
    <3>5. First.kind = "buildroot-container" => resolved[First.name].containers # {}
      BY <3>3, <3>4, <1>5 DEF Unresolved
    <3> QED
      BY <3>1, <3>2, <3>5, <1>6 DEF Results
  <2>5. ASSUME pc \in {"commits", "flatpaks"}, pc' \in {"flatpaks", "start"},
               DOMAIN resolved' = DOMAIN resolved,
               \A n \in DOMAIN resolved : /\ DOMAIN resolved'[n] = DOMAIN resolved[n]
                                          /\ resolved'[n].containers = resolved[n].containers
        PROVE  Results'
    <3>1. DOMAIN resolved = DOMAIN mem /\ \A k \in DOMAIN resolved : DOMAIN resolved[k] = InputFields
      BY <2>5 DEF AbortInv, Results
    <3>2. First.kind = "buildroot-container" => resolved'[First.name].containers # {}
      BY <2>5, <3>1, <1>5 DEF AbortInv, Results
    <3> QED
      BY <2>5, <3>1, <3>2, <1>6 DEF Results
  <2>6. CASE pc \in {"commits", "flatpaks"} /\ (ResolveCommits \/ ResolveFlatpaks)
    <3>1. \A n \in DOMAIN resolved : "containers" \in DOMAIN resolved[n]
      BY <2>6 DEF AbortInv, Results, InputFields
    <3>2. CASE ResolveCommits
      BY <2>5, <3>1, <3>2 DEF ResolveCommits
    <3>3. CASE ResolveFlatpaks
      BY <2>5, <3>1, <3>3 DEF ResolveFlatpaks
    <3> QED
      BY <2>6, <3>2, <3>3
  <2>7. CASE ResolveCommits \/ ResolveFlatpaks
    BY <2>6, <2>7 DEF ResolveCommits, ResolveFlatpaks
  <2>8. CASE ResolutionFails
    BY <2>8 DEF ResolutionFails, Stop, Results
  <2> QED
    BY <2>1, <2>2, <2>3, <2>4, <2>7, <2>8
<1> QED
  BY <1>1, <1>3, <1>4, <1>7, Frame DEF AbortInv

\* How a build root tells that it was started.
LEMMA RootLock ==
    ASSUME NEW p, p.kind \in BuildRoots, NEW m
    PROVE  /\ p.kind = "buildroot" => (DoubleStart(p, m) <=> m.started)
           /\ p.kind = "buildroot-container" => (DoubleStart(p, m) <=> m.in.containers # {})
  BY DEF BuildRoots, DoubleStart, Stateful

\* A step that keeps the objects but for what they were told of kernels and files.
LEMMA ObjectsKept ==
    ASSUME AbortInv, Len(pipelines) >= 1, pipelines' = pipelines, DOMAIN mem' = DOMAIN mem,
           \A n \in DOMAIN mem : DOMAIN mem'[n] = DOMAIN mem[n],
           /\ mem'[First.name].started = mem[First.name].started
           /\ mem'[First.name].in = mem[First.name].in
    PROVE  IsSeq(pipelines)' /\ NamesDiffer' /\ Objects' /\ First' = First /\ (Locked' <=> Locked)
<1>1. IsSeq(pipelines)' /\ NamesDiffer' /\ First' = First
  BY DEF AbortInv, Shape, NamesDiffer, First
<1>2. Objects'
  BY DEF AbortInv, Shape, Objects
<1>3. Locked' <=> Locked
  <2>1. First.kind \in {"buildroot", "buildroot-container"}
    BY FirstIn DEF BuildRoots
  <2>2. Locked' <=> DoubleStart(First, mem'[First.name])
    BY <1>1 DEF Locked
  <2>3. CASE First.kind = "buildroot"
    BY <2>2, <2>3, RootLock DEF Locked, BuildRoots
  <2>4. CASE First.kind = "buildroot-container"
    BY <2>2, <2>4, RootLock DEF Locked, BuildRoots
  <2> QED
    BY <2>1, <2>3, <2>4
<1> QED
  BY <1>1, <1>2, <1>3

\* serializeStart: the build root is the first to be started, and locks itself.
LEMMA AbortStart == ASSUME AbortInv, SerializeStart PROVE AbortInv'
<1> DEFINE p == pipelines[idx]
           m == mem[p.name]
           in == resolved[p.name]
<1>1. pc = "start" /\ idx \in 1 .. Len(pipelines) /\ pipelines' = pipelines /\ resolved' = resolved
      /\ chains' = chains
  BY DEF SerializeStart, AbortInv, Shape
<1>2. Len(pipelines) >= 1 /\ Len(pipelines) \in Nat /\ DOMAIN pipelines = 1 .. Len(pipelines)
  <2>1. PICK S : pipelines \in Seq(S)
    BY DEF AbortInv, IsSeq
  <2> QED
    BY <1>1, <2>1 DEF AbortInv, Shape, Early
<1>3. First.kind \in BuildRoots /\ First.name \in DOMAIN mem
  BY <1>2, FirstIn
<1>4. p.name \in DOMAIN mem /\ DOMAIN mem[p.name] = ObjectFields
  BY <1>1, <1>2 DEF AbortInv, Shape, Objects
<1>5. idx # 1 => p.name # First.name
  BY <1>1, <1>2 DEF AbortInv, Shape, NamesDiffer, First
<1>6. idx = 1 => p = First
  BY DEF First
<1>7. \/ DoubleStart(p, m) /\ pc' = "failed" /\ aborted' = TRUE /\ mem' = mem /\ idx' = idx
      \/ /\ ~ DoubleStart(p, m) /\ mem' = [mem EXCEPT ![p.name] = Kept(p, m, in)]
         /\ \/ InputsRefused(p, in) /\ pc' = "failed" /\ aborted' = TRUE /\ idx' = idx
            \/ ~ InputsRefused(p, in) /\ idx' = idx + 1 /\ pc' = pc /\ aborted' = aborted
  BY Zenon DEF SerializeStart
<1> HIDE DEF p, m, in
<1>8. CASE DoubleStart(p, m) /\ pc' = "failed" /\ aborted' = TRUE /\ mem' = mem /\ idx' = idx
  <2>1. Locked
    <3>1. CASE idx = 1
      BY <1>6, <1>8, <3>1 DEF Locked, m
    <3>2. CASE idx # 1
      BY <1>1, <3>2 DEF AbortInv, Lock
    <3> QED
      BY <3>1, <3>2
  <2>2. IsSeq(pipelines)' /\ NamesDiffer' /\ Objects' /\ First' = First /\ Locked'
    BY <1>1, <1>8, <2>1, Frame
  <2>3. aborted' \in BOOLEAN
    BY <1>8, Zenon
  <2>4. Shape'
    BY <1>1, <1>2, <1>3, <1>8, <2>2, <2>3 DEF Shape, Early, AbortInv
  <2>5. Results' /\ Lock'
    BY <1>8, <2>2 DEF Results, Lock
  <2> QED
    BY <2>2, <2>4, <2>5 DEF AbortInv
<1>9. CASE ~ DoubleStart(p, m) /\ mem' = [mem EXCEPT ![p.name] = Kept(p, m, in)]
  <2>1. DOMAIN mem' = DOMAIN mem /\ \A n \in DOMAIN mem : n # p.name => mem'[n] = mem[n]
    BY <1>9
  <2>2. mem'[p.name] = Kept(p, m, in)
    BY <1>9, <1>4
  <2>3. DOMAIN Kept(p, m, in) = ObjectFields
    <3>1. DOMAIN m = ObjectFields
      BY <1>4 DEF m
    <3> QED
      BY <3>1 DEF Kept
  <2>4. IsSeq(pipelines)' /\ NamesDiffer' /\ First' = First
    BY <1>1 DEF AbortInv, Shape, NamesDiffer, First
  <2>5. Objects'
    BY <1>1, <2>1, <2>2, <2>3 DEF AbortInv, Shape, Objects
  <2>6. Locked'
    <3>1. CASE idx = 1
      <4>1. p = First /\ p.kind \in BuildRoots
        BY <3>1, <1>3, <1>6
      <4>2. DOMAIN m = ObjectFields
        BY <1>4 DEF m
      <4>3. ~ InputsRefused(p, in) /\ p.kind \in Stateful
        BY <4>1 DEF InputsRefused, BuildRoots, Stateful
      <4>4. Kept(p, m, in).started = TRUE /\ Kept(p, m, in).in = in
        BY <4>2, <4>3 DEF Kept, ObjectFields
      <4>5. p.kind = "buildroot-container" => in.containers # {}
        BY <4>1, <1>1 DEF AbortInv, Results, in
      <4>6. DoubleStart(p, Kept(p, m, in))
        <5>1. CASE p.kind = "buildroot"
          BY <4>1, <4>4, <5>1, RootLock
        <5>2. CASE p.kind = "buildroot-container"
          BY <4>1, <4>4, <4>5, <5>2, RootLock
        <5> QED
          BY <4>1, <5>1, <5>2 DEF BuildRoots
      <4> QED
        BY <4>1, <4>6, <2>2, <2>4 DEF Locked
    <3>2. CASE idx # 1
      <4>1. Locked
        BY <1>1, <3>2 DEF AbortInv, Lock, Shape
      <4>2. mem'[First.name] = mem[First.name]
        BY <2>1, <1>3, <1>5, <3>2
      <4> QED
        BY <4>1, <4>2, <2>4 DEF Locked
    <3> QED
      BY <3>1, <3>2
  <2>7. aborted = FALSE
    <3>1. CASE aborted
      <4>1. idx = 1 /\ Locked
        BY <3>1, <1>1 DEF AbortInv, Lock
      <4> QED
        BY <4>1, <1>6, <1>9 DEF Locked, m
    <3> QED
      BY <3>1 DEF AbortInv, Shape
  <2>8. \/ pc' = "failed" /\ aborted' = TRUE /\ idx' = idx
        \/ pc' = "start" /\ aborted' = FALSE /\ idx' = idx + 1
    BY <1>1, <1>7, <1>9, <2>7
  <2>9. aborted' \in BOOLEAN
    BY <2>8, Zenon
  <2>10. Shape'
    BY <1>1, <1>2, <1>3, <2>4, <2>5, <2>8, <2>9 DEF Shape, Early, AbortInv
  <2>11. Results'
    BY <1>1, <2>1, <2>4, <2>8 DEF Results, AbortInv
  <2>12. Lock'
    BY <2>6, <2>8 DEF Lock
  <2> QED
    BY <2>4, <2>10, <2>11, <2>12 DEF AbortInv
<1> QED
  BY <1>7, <1>8, <1>9

\* serialize: it writes to the objects what they were not started with.
LEMMA AbortSerialize == ASSUME AbortInv, SerializePipeline PROVE AbortInv'
<1> DEFINE p == pipelines[idx]
           hashed == [mem EXCEPT ![p.name].hashed = world]
<1>1. pc = "serialize" /\ pipelines' = pipelines /\ Len(pipelines) >= 1 /\ Locked /\ aborted = FALSE
  <2>1. pc = "serialize" /\ pipelines' = pipelines
    BY DEF SerializePipeline
  <2>2. aborted = FALSE
    BY <2>1, Zenon DEF AbortInv, Shape, Lock, Resolving
  <2> QED
    BY <2>1, <2>2 DEF AbortInv, Shape, Lock, Early
<1>2. First.kind \in BuildRoots /\ First.name \in DOMAIN mem
  BY <1>1, FirstIn
<1>3. \/ mem' = mem \/ mem' = serializeCaches(p, hashed)
  BY DEF SerializePipeline
<1>4. \/ pc' = "failed" /\ aborted' = TRUE /\ idx' = idx
      \/ pc' = "panicked" /\ aborted' = FALSE /\ idx' = idx
      \/ pc' = "serialize" /\ aborted' = FALSE /\ idx' = idx + 1
  BY <1>1 DEF SerializePipeline
<1>5. /\ DOMAIN hashed = DOMAIN mem /\ DOMAIN hashed[First.name] = ObjectFields
      /\ \A n \in DOMAIN mem : DOMAIN hashed[n] = DOMAIN mem[n]
      /\ hashed[First.name].started = mem[First.name].started
      /\ hashed[First.name].in = mem[First.name].in
  BY <1>2 DEF AbortInv, Shape, Objects, ObjectFields
<1> HIDE DEF hashed
<1>6. ASSUME NEW x, NEW y
      PROVE  LET c == [hashed EXCEPT ![x].kernelPath = y]
             IN  /\ DOMAIN c = DOMAIN hashed /\ \A n \in DOMAIN hashed : DOMAIN c[n] = DOMAIN hashed[n]
                 /\ c[First.name].started = hashed[First.name].started
                 /\ c[First.name].in = hashed[First.name].in
  BY <1>2, <1>5 DEF ObjectFields
<1>7. LET c == serializeCaches(p, hashed)
      IN  /\ DOMAIN c = DOMAIN hashed /\ \A n \in DOMAIN hashed : DOMAIN c[n] = DOMAIN hashed[n]
          /\ c[First.name].started = hashed[First.name].started
          /\ c[First.name].in = hashed[First.name].in
  <2>1. CASE p.kind = "anaconda-iso-tree"
    BY <2>1, <1>6 DEF serializeCaches
  <2>2. CASE p.kind # "anaconda-iso-tree"
    BY <2>2 DEF serializeCaches
  <2> QED
    BY <2>1, <2>2
<1>8. /\ DOMAIN mem' = DOMAIN mem /\ \A n \in DOMAIN mem : DOMAIN mem'[n] = DOMAIN mem[n]
      /\ mem'[First.name].started = mem[First.name].started /\ mem'[First.name].in = mem[First.name].in
  BY <1>3, <1>5, <1>7
<1>9. IsSeq(pipelines)' /\ NamesDiffer' /\ Objects' /\ First' = First /\ Locked'
  BY <1>1, <1>8, ObjectsKept
<1>10. aborted' \in BOOLEAN
  BY <1>4, Zenon
<1>11. Shape'
  BY <1>1, <1>2, <1>4, <1>9, <1>10 DEF Shape, Early, AbortInv
<1>12. Results' /\ Lock'
  BY <1>4, <1>9 DEF Results, Lock
<1> QED
  BY <1>9, <1>11, <1>12 DEF AbortInv

\* serializeEnd: it is reached only when nothing was aborted.
LEMMA AbortEnd == ASSUME AbortInv, SerializeEnd PROVE AbortInv'
<1> DEFINE p == pipelines[idx]
<1>1. pc = "end" /\ pipelines' = pipelines /\ aborted' = aborted
  BY DEF SerializeEnd
<1>2. aborted = FALSE
  BY <1>1, Zenon DEF AbortInv, Shape, Lock, Resolving
<1>3. Len(pipelines) >= 1
  BY <1>1 DEF AbortInv, Shape, Early
<1>4. \/ pc' = "panicked" /\ mem' = mem /\ idx' = idx
      \/ pc' = "end" /\ mem' = [mem EXCEPT ![p.name] = Forgotten(p, mem[p.name])] /\ idx' = idx + 1
  BY <1>1 DEF SerializeEnd
<1>5. ASSUME NEW n \in DOMAIN mem PROVE DOMAIN Forgotten(p, mem[n]) = DOMAIN mem[n]
  BY DEF Forgotten
<1>6. DOMAIN mem' = DOMAIN mem /\ \A n \in DOMAIN mem : DOMAIN mem'[n] = DOMAIN mem[n]
  BY <1>4, <1>5
<1>7. Objects' /\ IsSeq(pipelines)' /\ NamesDiffer' /\ First' = First
  BY <1>1, <1>6 DEF AbortInv, Shape, Objects, NamesDiffer, First
<1>8. aborted' \in BOOLEAN
  BY <1>1, <1>2, Zenon
<1>9. Shape'
  BY <1>1, <1>3, <1>4, <1>7, <1>8 DEF Shape, Early, AbortInv
<1>10. Results' /\ Lock'
  BY <1>1, <1>2, <1>4 DEF Results, Lock
<1> QED
  BY <1>7, <1>9, <1>10 DEF AbortInv

\* The steps between the loops, the sources, another round and the world.
LEMMA AbortRest ==
    ASSUME AbortInv,
           \/ Started \/ HostFileGone \/ Serialized \/ Ended \/ GenSources \/ GenSourcesFails
           \/ GenerateAgain \/ Publish \/ UNCHANGED vars
    PROVE  AbortInv'
<1>1. UNCHANGED <<pipelines, mem, aborted>>
  BY DEF Started, HostFileGone, Serialized, Ended, GenSources, GenSourcesFails, GenerateAgain, Publish,
         Stop, vars
<1>2. IsSeq(pipelines)' /\ NamesDiffer' /\ Objects' /\ First' = First /\ (Locked' <=> Locked)
  BY <1>1, Frame
<1>3. CASE Publish \/ UNCHANGED vars
  <2>1. UNCHANGED <<pc, idx, chains, resolved>>
    BY <1>3 DEF Publish, vars
  <2> QED
    BY <1>1, <1>2, <2>1 DEF AbortInv, Shape, Results, Lock
<1>4. CASE Started
  <2>1. pc = "start" /\ pc' = "serialize" /\ idx' = 1 /\ idx > Len(pipelines)
    BY <1>4 DEF Started
  <2>2. Len(pipelines) >= 1 /\ idx \in Nat
    BY <2>1 DEF AbortInv, Shape, Early
  <2>3. PICK S : pipelines \in Seq(S)
    BY DEF AbortInv, IsSeq
  <2>4. idx > 1 /\ idx # 1
    BY <2>1, <2>2, <2>3
  <2>5. Locked /\ ~ aborted
    BY <2>1, <2>4 DEF AbortInv, Lock
  <2>6. Shape'
    BY <1>1, <1>2, <2>1, <2>2 DEF Shape, Early, AbortInv
  <2>7. Results' /\ Lock'
    BY <1>1, <1>2, <2>1, <2>5 DEF Results, Lock
  <2> QED
    BY <1>2, <2>6, <2>7 DEF AbortInv
<1>5. CASE HostFileGone \/ Serialized \/ Ended \/ GenSources \/ GenSourcesFails
  <2>1. /\ pc \in {"serialize", "end", "sources"} /\ pc' \in {"panicked", "end", "sources", "failed", "done"}
        /\ idx' \in {1, idx}
    BY <1>5 DEF HostFileGone, Serialized, Ended, GenSources, GenSourcesFails, Stop
  <2>2. aborted = FALSE /\ aborted' = FALSE
    BY <1>1, <2>1, Zenon DEF AbortInv, Shape, Lock, Resolving
  <2>3. Shape'
    BY <1>1, <1>2, <2>1 DEF Shape, Early, AbortInv
  <2>4. Results' /\ Lock'
    BY <2>1, <2>2 DEF Results, Lock
  <2> QED
    BY <1>2, <2>3, <2>4 DEF AbortInv
<1>6. CASE GenerateAgain
  <2>1. pc \in {"done", "failed"} /\ pc' = "chains" /\ idx' = idx
    BY <1>6 DEF GenerateAgain
  <2>2. Shape'
    BY <1>1, <1>2, <2>1 DEF Shape, Early, AbortInv
  <2>3. Results' /\ Lock'
    BY <1>1, <1>2, <2>1 DEF Results, Lock, AbortInv, Resolving
  <2> QED
    BY <1>2, <2>2, <2>3 DEF AbortInv
<1> QED
  BY <1>3, <1>4, <1>5, <1>6

LEMMA AbortStep == AbortInv /\ [Next]_vars => AbortInv'
  BY AbortMade, AbortAdd, AbortResolve, AbortStart, AbortSerialize, AbortEnd, AbortRest DEF Next

\* AbortedIsFinal holds for every image type and image, any calls before, and any number
\* of serializations: a Generate that failed between serializeStart and serializeEnd leaves
\* the build root started, which is the first pipeline of every image and refuses to be
\* started again before anything is serialized.
THEOREM Final == Spec => []AbortedIsFinal
<1>1. AbortInv => AbortedIsFinal
  BY DEF AbortInv, Lock, AbortedIsFinal, Resolving
<1> QED
  BY AbortInit, AbortStep, <1>1, PTL DEF Spec

-----------------------------------------------------------------------------
(* The trees the stages read.                                             *)

\* The stage s reads trees of the pipelines in T only.
Reads(s, T) == s.in \subseteq T

\* So do the stages of a sequence.
Within(s, T) == IsSeq(s) /\ \A k \in DOMAIN s : Reads(s[k], T)

\* What the constructors of StageTypes are made from.
LEMMA StageReads ==
    ASSUME NEW T, NEW t, NEW x
    PROVE  /\ Reads(Stage(t), T) /\ Reads(Checked(t), T) /\ Reads(Encoded(t), T)
           /\ Reads(Using(t, x), T) /\ Reads(ForKernel(t, x), T) /\ Reads([Stage(t) EXCEPT !.kernel = x], T)
           /\ Reads([Checked(t) EXCEPT !.kernel = x], T) /\ Reads([Checked(t) EXCEPT !.use = x], T)
  BY DEF Reads, Stage, Checked, Encoded, Using, ForKernel

\* Stages that read the trees they are told to.
LEMMA ReadingReads ==
    ASSUME NEW T, NEW t, NEW trees, trees \subseteq T, NEW x
    PROVE  /\ Reads(Reading(t, trees), T)
           /\ Reads([Checked(t) EXCEPT !.in = trees], T) /\ Reads([Encoded(t) EXCEPT !.in = trees], T)
           /\ Reads([Reading(t, trees) EXCEPT !.use = x], T)
<1>1. Reads(Reading(t, trees), T)
  BY DEF Reads, Reading, Stage
<1>2. Reads([Reading(t, trees) EXCEPT !.use = x], T)
  BY DEF Reads, Reading, Stage
<1>3. Reads([Checked(t) EXCEPT !.in = trees], T)
  BY DEF Reads, Checked, Stage
<1>4. Reads([Encoded(t) EXCEPT !.in = trees], T)
  BY DEF Reads, Encoded, Stage
<1> QED
  BY <1>1, <1>2, <1>3, <1>4, Zenon

LEMMA WithinEmpty == ASSUME NEW T PROVE Within(<< >>, T)
<1>1. IsSeq(<< >>)
  BY Short
<1>2. \A k \in DOMAIN << >> : FALSE
  OBVIOUS
<1> QED
  BY <1>1, <1>2, Zenon DEF Within

LEMMA Within1 == ASSUME NEW T, NEW a, Reads(a, T) PROVE Within(<<a>>, T)
<1>1. IsSeq(<<a>>)
  BY Short
<1>2. \A k \in DOMAIN <<a>> : <<a>>[k] = a
  OBVIOUS
<1> QED
  BY <1>1, <1>2, Zenon DEF Within

LEMMA WithinConcat ==
    ASSUME NEW T, NEW s, NEW t, Within(s, T), Within(t, T)
    PROVE  Within(s \o t, T)
<1>1. PICK S : s \in Seq(S)
  BY DEF Within, IsSeq
<1>2. PICK R : t \in Seq(R)
  BY DEF Within, IsSeq
<1> DEFINE U == S \union R
<1>3. s \in Seq(U) /\ t \in Seq(R \union S)
  BY <1>1, <1>2, SeqUnion
<1>4. R \union S = U
  OBVIOUS
<1> HIDE DEF U
<1>5. s \in Seq(U) /\ t \in Seq(U)
  BY <1>3, <1>4
<1>6. /\ s \o t \in Seq(U) /\ Len(s \o t) = Len(s) + Len(t)
      /\ \A i \in 1 .. Len(s) + Len(t) : (s \o t)[i] = IF i <= Len(s) THEN s[i] ELSE t[i - Len(s)]
  BY <1>5, ConcatProperties
<1>7. ASSUME NEW k \in DOMAIN (s \o t) PROVE Reads((s \o t)[k], T)
  <2>1. k \in 1 .. Len(s) + Len(t) /\ Len(s) \in Nat /\ Len(t) \in Nat
    BY <1>5, <1>6
  <2>2. CASE k <= Len(s)
    <3>1. k \in DOMAIN s /\ (s \o t)[k] = s[k]
      BY <1>5, <1>6, <2>1, <2>2
    <3> QED
      BY <3>1 DEF Within
  <2>3. CASE ~ (k <= Len(s))
    <3>1. k - Len(s) \in DOMAIN t /\ (s \o t)[k] = t[k - Len(s)]
      BY <1>5, <1>6, <2>1, <2>3
    <3> QED
      BY <3>1 DEF Within
  <2> QED
    BY <2>2, <2>3
<1> QED
  BY <1>6, <1>7 DEF Within, IsSeq

LEMMA WithinWhen == ASSUME NEW T, NEW c, NEW s, c => Within(s, T) PROVE Within(When(c, s), T)
  BY WithinEmpty DEF When

\* Stages written out one after the other.
LEMMA Within2 ==
    ASSUME NEW T, NEW a, NEW b, Reads(a, T), Reads(b, T)
    PROVE  Within(<<a, b>>, T)
<1>1. IsSeq(<<a, b>>)
  BY Short
<1>2. \A k \in DOMAIN <<a, b>> : <<a, b>>[k] \in {a, b}
  OBVIOUS
<1>3. \A x \in {a, b} : Reads(x, T)
  OBVIOUS
<1> QED
  BY <1>1, <1>2, <1>3, Zenon DEF Within

LEMMA Within3 ==
    ASSUME NEW T, NEW a, NEW b, NEW c, Reads(a, T), Reads(b, T), Reads(c, T)
    PROVE  Within(<<a, b, c>>, T)
<1>1. IsSeq(<<a, b, c>>)
  BY Short
<1>2. \A k \in DOMAIN <<a, b, c>> : <<a, b, c>>[k] \in {a, b, c}
  OBVIOUS
<1>3. \A x \in {a, b, c} : Reads(x, T)
  OBVIOUS
<1> QED
  BY <1>1, <1>2, <1>3, Zenon DEF Within

LEMMA Within4 ==
    ASSUME NEW T, NEW a, NEW b, NEW c, NEW d, Reads(a, T), Reads(b, T), Reads(c, T), Reads(d, T)
    PROVE  Within(<<a, b, c, d>>, T)
<1>1. IsSeq(<<a, b, c, d>>)
  BY Short
<1>2. \A k \in DOMAIN <<a, b, c, d>> : <<a, b, c, d>>[k] \in {a, b, c, d}
  OBVIOUS
<1>3. \A x \in {a, b, c, d} : Reads(x, T)
  OBVIOUS
<1> QED
  BY <1>1, <1>2, <1>3, Zenon DEF Within

LEMMA Within5 ==
    ASSUME NEW T, NEW a, NEW b, NEW c, NEW d, NEW e,
           Reads(a, T), Reads(b, T), Reads(c, T), Reads(d, T), Reads(e, T)
    PROVE  Within(<<a, b, c, d, e>>, T)
<1>1. IsSeq(<<a, b, c, d, e>>)
  BY Short
<1>2. \A k \in DOMAIN <<a, b, c, d, e>> : <<a, b, c, d, e>>[k] \in {a, b, c, d, e}
  OBVIOUS
<1>3. \A x \in {a, b, c, d, e} : Reads(x, T)
  OBVIOUS
<1> QED
  BY <1>1, <1>2, <1>3, Zenon DEF Within

LEMMA Within6 ==
    ASSUME NEW T, NEW a, NEW b, NEW c, NEW d, NEW e, NEW f,
           Reads(a, T), Reads(b, T), Reads(c, T), Reads(d, T), Reads(e, T), Reads(f, T)
    PROVE  Within(<<a, b, c, d, e, f>>, T)
<1>1. <<a, b, c, d, e, f>> = <<a, b, c>> \o <<d, e, f>>
  OBVIOUS
<1>2. Within(<<a, b, c>>, T) /\ Within(<<d, e, f>>, T)
  BY Within3
<1> QED
  BY <1>1, <1>2, WithinConcat

\* An optional stage.
LEMMA OptWithin == ASSUME NEW T, NEW c, NEW o, NEW s, Reads(s, T) PROVE Within(Opt(c, o, s), T)
  BY Within1, WithinWhen DEF Opt

\* The stages that read no tree.
LEMMA PlainStages ==
    ASSUME NEW T
    PROVE  /\ Reads(NewChmodStage, T) /\ Reads(NewChownStage, T) /\ Reads(NewMkdirStage, T)
           /\ Reads(NewTruncateStage, T) /\ Reads(NewTmpfilesdStage, T) /\ Reads(NewDNF4VersionlockStage, T)
           /\ Reads(NewDNFAutomaticConfigStage, T) /\ Reads(NewDNFConfigStage, T)
           /\ Reads(NewDNFModuleConfigStage, T) /\ Reads(NewYumConfigStage, T) /\ Reads(NewYumReposStage, T)
           /\ Reads(NewAuthconfigStage, T) /\ Reads(NewAuthselectStage, T) /\ Reads(NewChronyStage, T)
           /\ Reads(NewCloudInitStage, T) /\ Reads(NewFirewallStage, T)
           /\ Reads(NewGcpGuestAgentConfigStage, T) /\ Reads(NewHostnameStage, T)
           /\ Reads(NewInsightsClientConfigStage, T) /\ Reads(NewKeymapStage, T) /\ Reads(NewLocaleStage, T)
           /\ Reads(NewMachineIdStage, T) /\ Reads(NewModprobeStage, T) /\ Reads(NewNMConfStage, T)
           /\ Reads(NewPamLimitsConfStage, T) /\ Reads(NewPwqualityConfStage, T)
           /\ Reads(NewRHSMFactsStage, T) /\ Reads(NewRHSMStage, T) /\ Reads(NewSELinuxConfigStage, T)
           /\ Reads(NewShellInitStage, T) /\ Reads(NewSshdConfigStage, T) /\ Reads(NewSysconfigStage, T)
           /\ Reads(NewSysctldStage, T) /\ Reads(NewTimezoneStage, T) /\ Reads(NewTunedStage, T)
           /\ Reads(NewUdevRulesStage, T) /\ Reads(NewWAAgentConfStage, T) /\ Reads(NewWSLConfStage, T)
           /\ Reads(NewWSLDistributionConfStage, T) /\ Reads(NewUsersStage, T) /\ Reads(NewGroupsStage, T)
           /\ Reads(NewFirstBootStage, T) /\ Reads(NewIgnitionStage, T) /\ Reads(NewSystemdJournaldStage, T)
           /\ Reads(NewSystemdLogindStage, T) /\ Reads(NewSystemdPresetStage, T)
           /\ Reads(NewSystemdStage, T) /\ Reads(NewSystemdUnitCreateStage, T)
           /\ Reads(NewSystemdUnitStage, T) /\ Reads(NewOscapAutotailorStage, T)
           /\ Reads(NewOscapRemediationStage, T) /\ Reads(NewUpdateCATrustStage, T)
           /\ Reads(NewUpdateCryptoPoliciesStage, T) /\ Reads(NewSELinuxStage, T)
           /\ Reads(NewBootcInstallConfigStage, T) /\ Reads(NewContainersStorageConfStage, T)
           /\ Reads(NewOSTreeConfigStage, T) /\ Reads(NewOSTreeDeployStage, T)
           /\ Reads(NewOSTreeFillvarStage, T) /\ Reads(NewOSTreeGrub2MountsStage, T)
           /\ Reads(OSTreeInitFsStage, T) /\ Reads(NewOSTreeInitStage, T) /\ Reads(NewOSTreeOsInitStage, T)
           /\ Reads(NewOSTreePrepTreeStage, T) /\ Reads(NewOSTreeRemotesStage, T)
           /\ Reads(NewOSTreeSelinuxStage, T) /\ Reads(NewBtrfsSubVol, T)
           /\ Reads(NewClevisLuksBindStage, T) /\ Reads(NewFSTabStage, T) /\ Reads(NewLUKS2CreateStage, T)
           /\ Reads(NewLUKS2RemoveKeyStage, T) /\ Reads(NewLVM2CreateStage, T)
           /\ Reads(NewLVM2MetadataStage, T) /\ Reads(NewMkfsBtrfsStage, T) /\ Reads(NewMkfsExt4Stage, T)
           /\ Reads(NewMkfsFATStage, T) /\ Reads(NewMkfsXfsStage, T) /\ Reads(NewMkswapStage, T)
           /\ Reads(NewSfdiskStage, T) /\ Reads(NewSgdiskStage, T) /\ Reads(NewDracutConfStage, T)
           /\ Reads(NewFixBLSStage, T) /\ Reads(NewGrub2DStage, T) /\ Reads(NewGrub2InstStage, T)
           /\ Reads(NewGrub2ISOLegacyStage, T) /\ Reads(NewGrubISOStage, T)
           /\ Reads(NewKernelCmdlineStage, T) /\ Reads(NewZiplStage, T)
           /\ Reads(NewBootctlInstallRootStage, T) /\ Reads(NewBootupdGenMetadataStage, T)
           /\ Reads(NewBootupdStage, T) /\ Reads(NewAnacondaStage, T) /\ Reads(NewBuildstampStage, T)
           /\ Reads(NewCreateaddrsizeStage, T) /\ Reads(NewDiscinfoStage, T)
           /\ Reads(NewImplantisomd5Stage, T) /\ Reads(NewKickstartStage, T)
           /\ Reads(NewLoraxScriptStage, T) /\ Reads(NewMkS390ImageStage, T) /\ Reads(NewOVFStage, T)
           /\ Reads(NewNginxConfigStage, T)
  BY StageReads, Zenon
  DEF NewChmodStage, NewChownStage, NewMkdirStage, NewTruncateStage, NewTmpfilesdStage,
      NewDNF4VersionlockStage, NewDNFAutomaticConfigStage, NewDNFConfigStage, NewDNFModuleConfigStage,
      NewYumConfigStage, NewYumReposStage, NewAuthconfigStage, NewAuthselectStage, NewChronyStage,
      NewCloudInitStage, NewFirewallStage, NewGcpGuestAgentConfigStage, NewHostnameStage,
      NewInsightsClientConfigStage, NewKeymapStage, NewLocaleStage, NewMachineIdStage, NewModprobeStage,
      NewNMConfStage, NewPamLimitsConfStage, NewPwqualityConfStage, NewRHSMFactsStage, NewRHSMStage,
      NewSELinuxConfigStage, NewShellInitStage, NewSshdConfigStage, NewSysconfigStage, NewSysctldStage,
      NewTimezoneStage, NewTunedStage, NewUdevRulesStage, NewWAAgentConfStage, NewWSLConfStage,
      NewWSLDistributionConfStage, NewUsersStage, NewGroupsStage, NewFirstBootStage, NewIgnitionStage,
      NewSystemdJournaldStage, NewSystemdLogindStage, NewSystemdPresetStage, NewSystemdStage,
      NewSystemdUnitCreateStage, NewSystemdUnitStage, NewOscapAutotailorStage, NewOscapRemediationStage,
      NewUpdateCATrustStage, NewUpdateCryptoPoliciesStage, NewSELinuxStage, NewBootcInstallConfigStage,
      NewContainersStorageConfStage, NewOSTreeConfigStage, NewOSTreeDeployStage, NewOSTreeFillvarStage,
      NewOSTreeGrub2MountsStage, OSTreeInitFsStage, NewOSTreeInitStage, NewOSTreeOsInitStage,
      NewOSTreePrepTreeStage, NewOSTreeRemotesStage, NewOSTreeSelinuxStage, NewBtrfsSubVol,
      NewClevisLuksBindStage, NewFSTabStage, NewLUKS2CreateStage, NewLUKS2RemoveKeyStage,
      NewLVM2CreateStage, NewLVM2MetadataStage, NewMkfsBtrfsStage, NewMkfsExt4Stage, NewMkfsFATStage,
      NewMkfsXfsStage, NewMkswapStage, NewSfdiskStage, NewSgdiskStage, NewDracutConfStage,
      NewFixBLSStage, NewGrub2DStage, NewGrub2InstStage, NewGrub2ISOLegacyStage, NewGrubISOStage,
      NewKernelCmdlineStage, NewZiplStage, NewBootctlInstallRootStage, NewBootupdGenMetadataStage,
      NewBootupdStage, NewAnacondaStage, NewBuildstampStage, NewCreateaddrsizeStage, NewDiscinfoStage,
      NewImplantisomd5Stage, NewKickstartStage, NewLoraxScriptStage, NewMkS390ImageStage, NewOVFStage,
      NewNginxConfigStage

\* The stages that use content of the sources.
LEMMA UsingStages ==
    ASSUME NEW T, NEW x, NEW y
    PROVE  /\ Reads(NewRPMStage(x), T) /\ Reads(NewBootcInstallToFilesystemStage(x), T)
           /\ Reads(NewContainerDeployStage(x), T) /\ Reads(NewSkopeoStageWithContainersStorage(x, y), T)
           /\ Reads(NewSkopeoStageWithOCI(x), T) /\ Reads(NewFlatpakBuildImportOCIStage(x), T)
           /\ Reads(NewOSTreeDeployContainerStage(x), T) /\ Reads(NewOSTreePasswdStage(x), T)
           /\ Reads(NewFDOStageForRootCerts(x), T) /\ Reads(NewDracutStage(x), T)
           /\ Reads(NewGRUB2Stage(x), T) /\ Reads(NewGrub2LegacyStage(x), T) /\ Reads(NewHMACStage(x), T)
           /\ Reads(NewZiplInstStage(x), T)
  BY StageReads, Zenon
  DEF NewRPMStage, NewBootcInstallToFilesystemStage, NewContainerDeployStage,
      NewSkopeoStageWithContainersStorage, NewSkopeoStageWithOCI, NewFlatpakBuildImportOCIStage,
      NewOSTreeDeployContainerStage, NewOSTreePasswdStage, NewFDOStageForRootCerts, NewDracutStage,
      NewGRUB2Stage, NewGrub2LegacyStage, NewHMACStage, NewZiplInstStage

\* The stages that read the trees they are given.
LEMMA ReadingStages ==
    ASSUME NEW T, NEW trees, trees \subseteq T, NEW x
    PROVE  /\ Reads(NewCopyStage(trees, x), T) /\ Reads(NewOSTreeCommitStage(trees), T)
           /\ Reads(NewOSTreeEncapsulateStage(trees), T) /\ Reads(NewOSTreePullStage(trees, x), T)
           /\ Reads(NewWriteDeviceStage(trees), T) /\ Reads(NewErofsStage(trees), T)
           /\ Reads(NewISOLinuxStage(trees), T) /\ Reads(NewSquashfsStage(trees), T)
           /\ Reads(NewQEMUStage(trees), T) /\ Reads(NewVagrantStage(trees), T)
           /\ Reads(NewTarStage(trees), T) /\ Reads(NewOCIArchiveStage(trees), T)
           /\ Reads(NewGzipStage(trees), T) /\ Reads(NewXzStage(trees), T) /\ Reads(NewZstdStage(trees), T)
  BY ReadingReads, Zenon
  DEF NewCopyStage, NewOSTreeCommitStage, NewOSTreeEncapsulateStage, NewOSTreePullStage,
      NewWriteDeviceStage, NewErofsStage, NewISOLinuxStage, NewSquashfsStage, NewQEMUStage,
      NewVagrantStage, NewTarStage, NewOCIArchiveStage, NewGzipStage, NewXzStage, NewZstdStage

\* The stages that are told of a kernel or of boot images as well.
LEMMA ToldStages ==
    ASSUME NEW T, NEW trees, trees \subseteq T, NEW x, NEW y
    PROVE  /\ Reads([NewCopyStage(trees, x) EXCEPT !.kernel = y], T)
           /\ Reads([NewMkdirStage EXCEPT !.kernel = y], T)
           /\ Reads([NewXorrisofsStage(trees) EXCEPT !.use = y], T)
<1>1. Reads([NewCopyStage(trees, x) EXCEPT !.kernel = y], T)
  BY DEF Reads, NewCopyStage, Reading, Stage
<1>2. Reads([NewMkdirStage EXCEPT !.kernel = y], T)
  BY DEF Reads, NewMkdirStage, Stage
<1>3. Reads([NewXorrisofsStage(trees) EXCEPT !.use = y], T)
  BY DEF Reads, NewXorrisofsStage, Reading, Stage
<1> QED
  BY <1>1, <1>2, <1>3, Zenon

\* No tree is read by a stage that is given none.
LEMMA NoTrees == ASSUME NEW T, NEW x PROVE Reads(NewCopyStage({}, x), T) /\ Reads(NewOSTreePullStage({}, x), T)
  BY ReadingStages

\* Files and directories are copied from the sources and not from trees.
LEMMA NodesWithin ==
    ASSUME NEW T, NEW x
    PROVE  Within(GenFileNodesStages(x), T) /\ Within(GenDirectoryNodesStages(x), T)
<1> USE Within1, WithinConcat, WithinWhen
<1> QED
  BY NoTrees, PlainStages, Zenon DEF GenFileNodesStages, GenDirectoryNodesStages

-----------------------------------------------------------------------------
(* The stages of every kind of pipeline, as serialize makes them.          *)

\* How the root file system is mounted.
LEMMA MountsWithin == ASSUME NEW T, NEW c PROVE Within(filesystemConfigStages(c), T)
<1>1. Reads(NewFSTabStage, T) /\ Reads(NewSystemdUnitCreateStage, T) /\ Reads(NewSystemdStage, T)
  BY PlainStages, Zenon
<1> QED
  BY <1>1, Within1, Within2, WithinEmpty, Zenon DEF filesystemConfigStages, GenSystemdMountStages

\* The stages of the OS pipeline read no tree.
LEMMA OSWithin == ASSUME NEW T, NEW p, NEW m PROVE Within(OSStages(p, m), T)
<1> DEFINE c == p.opts
<1>1. Within(prependStages(c), T)
  <2>1. Reads(NewKernelCmdlineStage, T) /\ Reads(NewDracutConfStage, T)
    BY PlainStages, Zenon
  <2> QED
    BY <2>1, OptWithin, WithinWhen, Within1, WithinConcat, Zenon DEF prependStages
<1>2. Within(OSRpmStages(p, m), T)
  <2>1. Reads(NewFixBLSStage, T) /\ Reads(NewContainersStorageConfStage, T)
    BY PlainStages, Zenon
  <2> QED
    BY <2>1, UsingStages, WithinWhen, Within1, WithinConcat, Zenon
    DEF OSRpmStages, GenContainerStorageStages, GenRPMStagesFromTransactions
<1>3. Within(OSUserStages(c), T)
  <2>1. /\ Reads(NewLocaleStage, T) /\ Reads(NewKeymapStage, T) /\ Reads(NewHostnameStage, T)
        /\ Reads(NewTimezoneStage, T) /\ Reads(NewChronyStage, T) /\ Reads(NewGroupsStage, T)
        /\ Reads(NewUsersStage, T) /\ Reads(NewFirstBootStage, T) /\ Reads(NewFirewallStage, T)
        /\ Reads(NewSysconfigStage, T) /\ Reads(NewSystemdLogindStage, T) /\ Reads(NewCloudInitStage, T)
        /\ Reads(NewModprobeStage, T)
    BY PlainStages, Zenon
  <2> QED
    BY <2>1, OptWithin, WithinWhen, Within1, WithinConcat, ZenonT(30) DEF OSUserStages
<1>4. Within(OSFirstbootStages(c), T)
  <2>1. Reads(NewSystemdUnitStage, T) /\ Reads(NewSystemdUnitCreateStage, T)
    BY PlainStages, Zenon
  <2> QED
    BY <2>1, OptWithin, NodesWithin, WithinWhen, Within1, WithinConcat, Zenon
    DEF OSFirstbootStages, FirstbootUnits
<1>5. Within(OSConfigStages(c), T)
  <2>1. /\ Reads(NewAuthselectStage, T) /\ Reads(NewSELinuxConfigStage, T) /\ Reads(NewTunedStage, T)
        /\ Reads(NewTmpfilesdStage, T) /\ Reads(NewPamLimitsConfStage, T) /\ Reads(NewSysctldStage, T)
        /\ Reads(NewDNFConfigStage, T) /\ Reads(NewDNFAutomaticConfigStage, T)
        /\ Reads(NewYumReposStage, T) /\ Reads(NewYumConfigStage, T)
        /\ Reads(NewGcpGuestAgentConfigStage, T) /\ Reads(NewSshdConfigStage, T)
        /\ Reads(NewInsightsClientConfigStage, T) /\ Reads(NewNMConfStage, T)
        /\ Reads(NewAuthconfigStage, T) /\ Reads(NewPwqualityConfStage, T) /\ Reads(NewRHSMStage, T)
        /\ Reads(NewWAAgentConfStage, T) /\ Reads(NewUdevRulesStage, T)
        /\ Reads(NewSystemdUnitCreateStage, T)
    BY PlainStages, Zenon
  <2>2. \A x, y : Within(<<SubscriptionUnit>> \o GenDirectoryNodesStages(x) \o GenFileNodesStages(y), T)
    BY <2>1, NodesWithin, Within1, WithinConcat, Zenon DEF SubscriptionUnit
  <2> QED
    BY <2>1, <2>2, OptWithin, WithinWhen, WithinConcat, ZenonT(90) DEF OSConfigStages
<1>6. Within(OSBootStages(p, m), T)
  <2>1. \A v : /\ Within(<<NewDracutStage(v)>>, T) /\ Within(<<NewGRUB2Stage(v)>>, T)
               /\ Within(<<NewGrub2LegacyStage(v)>>, T)
    BY UsingStages, Within1, Zenon
  <2>2. Within(<<NewZiplStage>>, T)
    BY PlainStages, Within1, Zenon
  <2>3. \A v : Within(<<NewHMACStage(v), [NewMkdirStage EXCEPT !.kernel = v]>>, T)
    BY UsingStages, ToldStages, Within2, Zenon
  <2>4. \A v : Within(<<[NewCopyStage({}, {Inline("boot-csv")}) EXCEPT !.kernel = v]>>, T)
    <3>1. {} \subseteq T
      OBVIOUS
    <3> QED
      BY <3>1, ToldStages, Within1, Zenon
  <2> QED
    BY <2>1, <2>2, <2>3, <2>4, MountsWithin, WithinWhen, WithinEmpty, WithinConcat, Zenon DEF OSBootStages
<1>7. Within(OSFileStages(c, m), T)
  <2>1. /\ Reads(NewRHSMFactsStage, T) /\ Reads(NewSystemdJournaldStage, T) /\ Reads(NewSystemdStage, T)
        /\ Reads(NewShellInitStage, T) /\ Reads(NewWSLConfStage, T)
        /\ Reads(NewWSLDistributionConfStage, T) /\ Reads(NewDNFModuleConfigStage, T)
        /\ Reads(NewUpdateCryptoPoliciesStage, T) /\ Reads(NewDracutConfStage, T)
    BY PlainStages, Zenon
  <2> QED
    BY <2>1, OptWithin, NodesWithin, WithinWhen, Within1, Within2, WithinConcat, Zenon
    DEF OSFileStages, GenDNFModuleConfigStages, GenFIPSStages
<1>8. Within(OSHardeningStages(c), T)
  <2>1. /\ Reads(NewOscapAutotailorStage, T) /\ Reads(NewOscapRemediationStage, T)
        /\ Reads(NewSystemdPresetStage, T) /\ Reads(NewUpdateCATrustStage, T)
        /\ Reads(NewDNF4VersionlockStage, T) /\ Reads(NewMachineIdStage, T) /\ Reads(NewSELinuxStage, T)
    BY PlainStages, Zenon
  <2> QED
    BY <2>1, OptWithin, NodesWithin, WithinWhen, Within1, WithinConcat, Zenon DEF OSHardeningStages
<1>9. Within(OSTreeStages(c), T)
  <2>1. /\ Reads(NewOSTreePrepTreeStage, T) /\ Reads(NewBootupdGenMetadataStage, T)
        /\ Reads(NewBootcInstallConfigStage, T)
    BY PlainStages, Zenon
  <2> QED
    BY <2>1, WithinWhen, Within1, WithinConcat, Zenon DEF OSTreeStages
<1> QED
  BY <1>1, <1>2, <1>3, <1>4, <1>5, <1>6, <1>7, <1>8, <1>9, WithinConcat, WithinWhen, Zenon DEF OSStages

\* A stage that is given one tree, which it may read.
LEMMA OneTree ==
    ASSUME NEW T, NEW t \in T, NEW x, NEW y
    PROVE  /\ Reads(NewCopyStage({t}, x), T) /\ Reads(NewOSTreeCommitStage({t}), T)
           /\ Reads(NewOSTreeEncapsulateStage({t}), T) /\ Reads(NewOSTreePullStage({t}, x), T)
           /\ Reads(NewWriteDeviceStage({t}), T) /\ Reads(NewErofsStage({t}), T)
           /\ Reads(NewISOLinuxStage({t}), T) /\ Reads(NewSquashfsStage({t}), T)
           /\ Reads(NewQEMUStage({t}), T) /\ Reads(NewVagrantStage({t}), T)
           /\ Reads(NewTarStage({t}), T) /\ Reads(NewOCIArchiveStage({t}), T)
           /\ Reads(NewGzipStage({t}), T) /\ Reads(NewXzStage({t}), T) /\ Reads(NewZstdStage({t}), T)
           /\ Reads([NewCopyStage({t}, x) EXCEPT !.kernel = y], T)
           /\ Reads([NewXorrisofsStage({t}) EXCEPT !.use = y], T)
<1>1. {t} \subseteq T
  OBVIOUS
<1> QED
  BY <1>1, ReadingStages, ToldStages, Zenon

\* A build root made of packages.
LEMMA PackagesWithin == ASSUME NEW T, NEW p, NEW m PROVE Within(BuildrootFromPackagesStages(p, m), T)
<1>1. Reads(NewSELinuxStage, T)
  BY PlainStages, Zenon
<1> QED
  BY <1>1, UsingStages, Within1, WithinConcat, WithinWhen, Zenon
  DEF BuildrootFromPackagesStages, GenRPMStagesFromTransactions

\* A build root made of a container copies files from the tree it was given.
LEMMA ContainerWithin ==
    ASSUME NEW T, NEW p, NEW m, "CopyFilesFrom" \in p.opts => p.of.target \in T
    PROVE  Within(BuildrootFromContainerStages(p, m), T)
<1>1. Reads(NewSELinuxStage, T)
  BY PlainStages, Zenon
<1> QED
  BY <1>1, UsingStages, OneTree, NodesWithin, Within1, WithinConcat, WithinWhen, Zenon
  DEF BuildrootFromContainerStages

\* Making the partitions reads the tree that is written to a raw one.
LEMMA PrepareWithin == ASSUME NEW T, NEW c, NEW x \in T PROVE Within(GenImagePrepareStages(c, x), T)
<1>1. /\ Reads(NewTruncateStage, T) /\ Reads(NewSgdiskStage, T) /\ Reads(NewSfdiskStage, T)
      /\ Reads(NewLUKS2CreateStage, T) /\ Reads(NewClevisLuksBindStage, T) /\ Reads(NewLVM2CreateStage, T)
      /\ Reads(NewMkfsFATStage, T) /\ Reads(NewMkfsExt4Stage, T) /\ Reads(NewMkfsXfsStage, T)
      /\ Reads(NewMkfsBtrfsStage, T) /\ Reads(NewBtrfsSubVol, T) /\ Reads(NewMkswapStage, T)
  BY PlainStages, Zenon
<1> QED
  BY <1>1, OneTree, Within2, Within1, WithinConcat, WithinWhen, Zenon
  DEF GenImagePrepareStages, GenDeviceCreationStages, GenFsStages

\* Closing the devices reads none.
LEMMA FinishWithin == ASSUME NEW T, NEW c PROVE Within(GenImageFinishStages(c), T)
<1>1. Reads(NewLVM2MetadataStage, T) /\ Reads(NewLUKS2RemoveKeyStage, T)
  BY PlainStages, Zenon
<1> QED
  BY <1>1, Within1, WithinConcat, WithinWhen, Zenon DEF GenImageFinishStages

\* A disk image reads the tree it holds and its build root.
LEMMA RawWithin ==
    ASSUME NEW T, NEW p, NEW os, NEW om, os.name \in T, p.build \in T
    PROVE  Within(RawImageStages(p, os, om), T)
<1>1. Reads(NewGrub2InstStage, T) /\ Reads(NewBootctlInstallRootStage, T)
  BY PlainStages, Zenon
<1> QED
  BY <1>1, UsingStages, OneTree, PrepareWithin, FinishWithin, Within1, WithinConcat, WithinWhen, Zenon
  DEF RawImageStages

\* What is made of one artifact reads that artifact.
LEMMA ConverterWithin == ASSUME NEW T, NEW p, p.of.tree \in T PROVE Within(ConverterStages(p), T)
<1>1. Reads(NewOVFStage, T) /\ \A x : Reads(NewCopyStage({p.of.tree}, x), T)
  BY PlainStages, OneTree, Zenon
<1>2. Within(OVFStages(p), T)
  BY <1>1, Within2, Zenon DEF OVFStages
<1>3. Within(QCOW2Stages(p), T) /\ Within(VMDKStages(p), T) /\ Within(VPCStages(p), T)
  BY OneTree, Within1, Zenon DEF QCOW2Stages, VMDKStages, VPCStages
<1>4. Within(TarStages(p), T) /\ Within(OCIContainerStages(p), T)
  BY OneTree, Within1, Zenon DEF TarStages, OCIContainerStages
<1>5. Within(XZStages(p), T) /\ Within(ZstdStages(p), T) /\ Within(GzipStages(p), T)
  BY OneTree, Within1, Zenon DEF XZStages, ZstdStages, GzipStages
<1>6. Within(VagrantStages(p), T)
  BY <1>2, OneTree, Within1, WithinConcat, WithinWhen, Zenon DEF VagrantStages
<1> QED
  BY <1>2, <1>3, <1>4, <1>5, <1>6 DEF ConverterStages

\* The files to boot from the network read the tree of the system.
LEMMA PXEWithin ==
    ASSUME NEW T, NEW p, NEW os, NEW om, os.name \in T
    PROVE  Within(PXETreeStages(p, os, om), T)
<1>1. Reads(NewChmodStage, T) /\ \A x : Reads(NewCopyStage({}, x), T)
  BY PlainStages, NoTrees, Zenon
<1>2. Reads([NewCopyStage({os.name}, {}) EXCEPT !.kernel = om.kernelVer], T)
  BY OneTree, Zenon
<1>3. Reads(IF "Erofs" \in p.opts THEN NewErofsStage({os.name}) ELSE NewSquashfsStage({os.name}), T)
  BY OneTree
<1> QED
  BY <1>1, <1>2, <1>3, Within5, Zenon DEF PXETreeStages

\* The files that register a system.
LEMMA SubscriptionWithin == ASSUME NEW T, NEW p, NEW m PROVE Within(SubscriptionStages(p, m), T)
<1>1. Reads(NewSystemdUnitCreateStage, T)
  BY PlainStages, Zenon
<1> QED
  BY <1>1, NodesWithin, Within1, WithinConcat, WithinWhen, Zenon DEF SubscriptionStages, SubscriptionUnit

\* A commit of a tree.
LEMMA CommitWithin == ASSUME NEW T, NEW tree, tree.name \in T PROVE Within(OSTreeCommitStages(tree), T)
<1>1. Reads(NewOSTreeInitStage, T)
  BY PlainStages, Zenon
<1> QED
  BY <1>1, OneTree, Within2, Zenon DEF OSTreeCommitStages

\* The server of a commit reads the commit.
LEMMA ServerWithin ==
    ASSUME NEW T, NEW p, NEW m, p.of.tree \in T
    PROVE  Within(OSTreeCommitServerStages(p, m), T)
<1>1. Reads(NewLocaleStage, T) /\ Reads(NewOSTreeInitStage, T) /\ Reads(NewChmodStage, T)
      /\ Reads(NewNginxConfigStage, T) /\ \A x : Reads(NewOSTreePullStage({p.of.tree}, x), T)
  BY PlainStages, OneTree, Zenon
<1> QED
  BY <1>1, UsingStages, Within1, Within6, WithinConcat, Zenon
  DEF OSTreeCommitServerStages, GenRPMStagesFromTransactions

\* A commit put into a container.
LEMMA EncapsulateWithin == ASSUME NEW T, NEW p, p.of.tree \in T PROVE Within(OSTreeEncapsulateStages(p), T)
  BY OneTree, Within1, Zenon DEF OSTreeEncapsulateStages

\* A tree made of a container.
LEMMA FromContainerWithin == ASSUME NEW T, NEW m PROVE Within(OSFromContainerStages(m), T)
<1>1. Reads(NewContainersStorageConfStage, T)
  BY PlainStages, Zenon
<1> QED
  BY <1>1, UsingStages, Within1, WithinConcat, WithinWhen, Zenon
  DEF OSFromContainerStages, GenContainerStorageStages

\* A deployment reads no tree.
LEMMA DeploymentWithin == ASSUME NEW T, NEW p, NEW m PROVE Within(OSTreeDeploymentStages(p, m), T)
<1> DEFINE c == p.opts
<1>1. Within(doOSTreeSpec(c, m), T)
  <2>1. /\ Reads(NewOSTreeDeployStage, T) /\ Reads(NewOSTreeRemotesStage, T)
        /\ Reads(NewOSTreeFillvarStage, T)
    BY PlainStages, Zenon
  <2> QED
    BY <2>1, NoTrees, Within1, Within2, WithinConcat, WithinWhen, Zenon DEF doOSTreeSpec
<1>2. Within(doOSTreeContainerSpec(m), T)
  BY UsingStages, Within1, Zenon DEF doOSTreeContainerSpec
<1>3. Within(OSTreeIgnitionStages(c), T)
  <2>1. /\ Reads(NewIgnitionStage, T) /\ Reads(NewSystemdUnitCreateStage, T)
        /\ Reads(NewSystemdPresetStage, T)
    BY PlainStages, Zenon
  <2> QED
    BY <2>1, Within1, WithinConcat, WithinWhen, Zenon DEF OSTreeIgnitionStages
<1>4. Within(IF m.in.commits # {} THEN doOSTreeSpec(c, m) ELSE doOSTreeContainerSpec(m), T)
  BY <1>1, <1>2
<1>5. /\ Reads(OSTreeInitFsStage, T) /\ Reads(NewOSTreeOsInitStage, T) /\ Reads(NewMkdirStage, T)
      /\ Reads(NewOSTreeConfigStage, T) /\ Reads(NewGroupsStage, T) /\ Reads(NewUsersStage, T)
      /\ Reads(NewKeymapStage, T) /\ Reads(NewLocaleStage, T) /\ Reads(NewSystemdStage, T)
      /\ Reads(NewOSTreeSelinuxStage, T) /\ Reads(NewUpdateCryptoPoliciesStage, T)
      /\ Reads(NewDracutConfStage, T)
  BY PlainStages, Zenon
<1>6. Within(GenFIPSStages, T)
  BY <1>5, Within2, Zenon DEF GenFIPSStages
<1>7. Within(When("UseBootupd" \notin c, <<NewGRUB2Stage(NoKernel)>>), T)
  BY UsingStages, Within1, WithinWhen, Zenon
<1> HIDE DEF c
<1>8. Within(<<OSTreeInitFsStage, NewOSTreeOsInitStage, NewMkdirStage>>, T)
  BY <1>5, Within3, Zenon
<1> QED
  BY <1>3, <1>4, <1>5, <1>6, <1>7, <1>8, MountsWithin, NodesWithin, OptWithin, Within1, WithinConcat,
     WithinWhen, ZenonT(60) DEF OSTreeDeploymentStages, c

\* A deployment on a disk reads the deployment and its build root.
LEMMA RawOSTreeWithin ==
    ASSUME NEW T, NEW p, NEW tree, NEW tm, tree.name \in T, p.build \in T
    PROVE  Within(RawOSTreeImageStages(p, tree, tm), T)
<1>1. Reads(NewBootupdStage, T) /\ Reads(NewGrub2InstStage, T)
  BY PlainStages, Zenon
<1> QED
  BY <1>1, OneTree, NoTrees, PrepareWithin, FinishWithin, Within1, WithinConcat, WithinWhen, Zenon
  DEF RawOSTreeImageStages

\* A bootable container on a disk reads the container it was told of, or its build root.
LEMMA RawBootcWithin ==
    ASSUME NEW T, NEW p, NEW m, p.build \in T, "target" \in DOMAIN p.of => p.of.target \in T
    PROVE  Within(RawBootcImageStages(p, m), T)
<1> DEFINE c == p.opts
<1>1. /\ Reads(NewSELinuxStage, T) /\ Reads(NewGroupsStage, T) /\ Reads(NewUsersStage, T)
      /\ Reads(NewIgnitionStage, T) /\ Reads(NewGrub2DStage, T) /\ Reads(NewSystemdStage, T)
      /\ Reads(NewSystemdUnitCreateStage, T) /\ Reads(NewMkdirStage, T)
  BY PlainStages, Zenon
<1>2. Within(RawBootcSubscriptionStages(c), T)
  BY <1>1, NodesWithin, Within1, WithinConcat, Zenon DEF RawBootcSubscriptionStages, SubscriptionUnit
<1>3. Within(RawBootcPostStages(c, m), T)
  BY <1>1, <1>2, MountsWithin, NodesWithin, OptWithin, Within1, WithinConcat, WithinWhen, Zenon
  DEF RawBootcPostStages, buildHomedirPaths
<1>4. (IF "target" \in DOMAIN p.of THEN p.of.target ELSE p.build) \in T
  OBVIOUS
<1>5. Within(GenImagePrepareStages(c \ {"Sgdisk"},
                                   IF "target" \in DOMAIN p.of THEN p.of.target ELSE p.build), T)
  BY <1>4, PrepareWithin
<1> DEFINE post == When("UnifiedKernel" \notin c, RawBootcPostStages(c, m))
<1>6. Within(post, T)
  BY <1>3, WithinWhen, Zenon
<1>7. Within(<<NewSELinuxStage, NewSELinuxStage>>, T)
  BY <1>1, Within2, Zenon
<1>8. Within(<<NewBootcInstallToFilesystemStage(NewContainersInput(m.in.containers))>>, T)
  BY UsingStages, Within1, Zenon
<1>9. Within(When("SELinux" \in c /\ post # << >>, <<NewSELinuxStage, NewSELinuxStage>>), T)
  BY <1>7, WithinWhen, Zenon
<1>10. Within(GenImageFinishStages(c), T)
  BY FinishWithin, Zenon
<1> QED
  BY <1>5, <1>6, <1>8, <1>9, <1>10, WithinConcat, Zenon DEF RawBootcImageStages

\* The root file system of a disk image, and the files to boot it from the network.
LEMMA RootFSWithin ==
    ASSUME NEW T, NEW p
    PROVE  /\ \A tree : tree.name \in T => Within(BootcRootFSStages(p, tree), T)
           /\ p.of.tree \in T => Within(BootcPXETreeStages(p), T)
<1>1. /\ Reads(NewChmodStage, T) /\ Reads(NewOSTreeGrub2MountsStage, T)
      /\ \A x : Reads(NewCopyStage({}, x), T)
  BY PlainStages, NoTrees, Zenon
<1>2. ASSUME NEW tree, tree.name \in T PROVE Within(BootcRootFSStages(p, tree), T)
  <2>1. {} \subseteq T
    OBVIOUS
  <2>2. Reads(IF "Erofs" \in p.opts THEN NewErofsStage({}) ELSE NewSquashfsStage({}), T)
    BY <2>1, ReadingStages
  <2>3. Reads(NewCopyStage({tree.name}, {}), T)
    BY <1>2, OneTree
  <2> QED
    BY <1>1, <2>2, <2>3, Within4, Zenon DEF BootcRootFSStages
<1>3. ASSUME p.of.tree \in T PROVE Within(BootcPXETreeStages(p), T)
  BY <1>1, <1>3, OneTree, Within6, Zenon DEF BootcPXETreeStages
<1> QED
  BY <1>2, <1>3, Zenon

\* The tree of the installer reads no other.
LEMMA AnacondaWithin == ASSUME NEW T, NEW p, NEW m PROVE Within(AnacondaStages(p, m), T)
<1> DEFINE c == p.opts
<1>1. Within(AnacondaPayloadConfig(c, m), T)
  <2>1. Reads(NewKickstartStage, T) /\ Reads(NewOSTreeInitStage, T)
    BY PlainStages, Zenon
  <2>2. Within(AnacondaCommitStages(m), T) /\ Within(AnacondaFlatpakStages(m), T)
    BY <2>1, UsingStages, NoTrees, Within2, Zenon DEF AnacondaCommitStages, AnacondaFlatpakStages
  <2> QED
    BY <2>1, <2>2, Within1, WithinConcat, WithinWhen, Zenon DEF AnacondaPayloadConfig
<1>2. Within(payloadStages(c, m), T)
  <2>1. /\ Reads(NewUsersStage, T) /\ Reads(NewAnacondaStage, T) /\ Reads(NewLoraxScriptStage, T)
        /\ Reads(NewSystemdLogindStage, T) /\ Reads(NewSystemdStage, T) /\ Reads(NewSELinuxConfigStage, T)
    BY PlainStages, Zenon
  <2>2. Within(<<NewCopyStage({}, {}), NewSystemdLogindStage, NewSystemdStage>>, T)
    BY <2>1, NoTrees, Within3, Zenon
  <2> QED
    BY <2>1, <2>2, UsingStages, Within1, WithinConcat, WithinWhen, Zenon DEF payloadStages
<1>3. Within(liveStages(c, m), T)
  <2>1. Reads(NewUsersStage, T) /\ Reads(NewSystemdStage, T) /\ Reads(NewSELinuxStage, T)
    BY PlainStages, Zenon
  <2> QED
    BY <2>1, UsingStages, NodesWithin, Within1, Within2, WithinConcat, WithinWhen, Zenon DEF liveStages
<1>4. Within(GenRPMStagesFromTransactions(p.name, m.in.version), T)
  BY UsingStages, Within1, Zenon DEF GenRPMStagesFromTransactions
<1>5. Within(<<NewContainerDeployStage(NewContainersInput(m.in.containers))>>, T)
  BY UsingStages, Within1, Zenon
<1>6. Within(IF m.in.version # 0
               THEN GenRPMStagesFromTransactions(p.name, m.in.version)
               ELSE <<NewContainerDeployStage(NewContainersInput(m.in.containers))>>, T)
  BY <1>4, <1>5
<1>7. Within(IF "Live" \in c THEN liveStages(c, m) ELSE payloadStages(c, m), T)
  BY <1>2, <1>3
<1>8. Within(<<NewBuildstampStage, NewLocaleStage>>, T)
  BY PlainStages, Within2, Zenon
<1> QED
  BY <1>1, <1>6, <1>7, <1>8, WithinConcat, WithinWhen, Zenon DEF AnacondaStages

\* Nor does that of the CoreOS installer.
LEMMA CoreOSWithin == ASSUME NEW T, NEW p, NEW m PROVE Within(CoreOSStages(p, m), T)
<1>1. Reads(NewBuildstampStage, T) /\ Reads(NewLocaleStage, T)
  BY PlainStages, Zenon
<1> QED
  BY <1>1, UsingStages, Within2, Within1, WithinConcat, WithinWhen, Zenon
  DEF CoreOSStages, GenRPMStagesFromTransactions

\* Its ISO reads the compressed image, the boot tree and the installer.
LEMMA CoreOSISOWithin ==
    ASSUME NEW T, NEW p, NEW coi, NEW cm, p.of.tree \in T, p.of.efi \in T, coi.name \in T
    PROVE  Within(CoreOSISOTreeStages(p, coi, cm), T)
<1>1. Reads(NewMkdirStage, T) /\ Reads(NewTruncateStage, T) /\ Reads(NewMkfsFATStage, T)
  BY PlainStages, Zenon
<1>2. /\ Reads(NewCopyStage({p.of.tree}, {}), T) /\ Reads(NewCopyStage({p.of.efi}, {}), T)
      /\ Reads(NewISOLinuxStage({coi.name}), T)
      /\ Reads([NewCopyStage({coi.name}, {}) EXCEPT !.kernel = cm.kernelVer], T)
  BY OneTree, Zenon
<1>3. Within(<<NewMkdirStage, NewTruncateStage, NewMkfsFATStage, NewCopyStage({p.of.efi}, {}),
               [NewCopyStage({coi.name}, {}) EXCEPT !.kernel = cm.kernelVer]>>, T)
  BY <1>1, <1>2, Within5, Zenon
<1> QED
  BY <1>2, <1>3, NoTrees, Within1, WithinConcat, WithinWhen, Zenon DEF CoreOSISOTreeStages

\* The boot tree of an ISO.
LEMMA EFIWithin == ASSUME NEW T PROVE Within(EFIBootTreeStages, T)
<1>1. Reads(NewGrubISOStage, T)
  BY PlainStages, Zenon
<1> QED
  BY <1>1, Within1, Zenon DEF EFIBootTreeStages

\* What an ISO boots with reads the installer and the boot tree, if there is one.
LEMMA BootloaderWithin ==
    ASSUME NEW T, NEW p, NEW tree \in T, "efi" \in DOMAIN p.of => p.of.efi \in T
    PROVE  Within(BootloaderStages(p, tree), T)
<1>1. /\ Reads(NewGrub2ISOLegacyStage, T) /\ Reads(NewGrub2InstStage, T) /\ Reads(NewMkdirStage, T)
      /\ Reads(NewCreateaddrsizeStage, T) /\ Reads(NewMkS390ImageStage, T) /\ Reads(NewTruncateStage, T)
      /\ Reads(NewMkfsFATStage, T)
  BY PlainStages, Zenon
<1>2. Within(ISOLinuxGetISOBootStages(tree), T)
  BY OneTree, Within1, Zenon DEF ISOLinuxGetISOBootStages
<1>3. Within(Grub2X86GetISOBootStages, T)
  BY <1>1, Within2, Zenon DEF Grub2X86GetISOBootStages
<1>4. Within(Grub2PPC64GetISOBootStages, T)
  BY <1>1, NodesWithin, Within2, WithinConcat, Zenon DEF Grub2PPC64GetISOBootStages
<1>5. Within(S390GetISOBootStages, T)
  BY <1>1, NodesWithin, Within2, WithinConcat, Zenon DEF S390GetISOBootStages
<1>6. "efi" \in DOMAIN p.of => Within(EFIGetISOBootStages(p), T)
  BY <1>1, OneTree, Within4, Zenon DEF EFIGetISOBootStages
<1> QED
  BY <1>2, <1>3, <1>4, <1>5, <1>6, WithinConcat, WithinWhen, Zenon DEF BootloaderStages

\* A kickstart reads the tree with the files that register a system, if there is one.
LEMMA KickstartWithin ==
    ASSUME NEW T, NEW p, "subscription" \in DOMAIN p.of => p.of.subscription \in T
    PROVE  Within(makeKickstartStages(p), T) /\ Within(bootcInstallerKickstartStages(p), T)
<1>1. Reads(NewKickstartStage, T) /\ Reads(NewMkdirStage, T)
  BY PlainStages, Zenon
<1>2. "subscription" \in DOMAIN p.of => Within(<<NewMkdirStage, NewCopyStage({p.of.subscription}, {})>>, T)
  BY <1>1, OneTree, Within2, Zenon
<1>3. Within(makeKickstartStages(p), T)
  BY <1>1, <1>2, NodesWithin, Within1, WithinConcat, WithinWhen, Zenon DEF makeKickstartStages
<1>4. Within(bootcInstallerKickstartStages(p), T)
  BY <1>1, NodesWithin, Within1, WithinConcat, Zenon DEF bootcInstallerKickstartStages
<1> QED
  BY <1>3, <1>4

\* The tree of the installer's ISO reads what it was made of.  It reads a tree for its
\* payload only if it has one: the payload of a payload installer is exactly one.
LEMMA ISOTreeWithin ==
    ASSUME NEW T, NEW p, NEW m, NEW a, NEW am, a.name \in T, \A r \in DOMAIN p.of : p.of[r] \in T,
           "Payload" \in a.opts => Cardinality(Payloads(p, m, am)) = 1
    PROVE  Within(ISOTreeStages(p, m, a, am), T)
<1>1. Reads(NewMkdirStage, T) /\ Reads(NewDiscinfoStage, T) /\ Reads(NewOSTreeInitStage, T)
  BY PlainStages, Zenon
<1>2. /\ "efi" \in DOMAIN p.of => p.of.efi \in T
      /\ "subscription" \in DOMAIN p.of => p.of.subscription \in T
      /\ "rootfs" \in DOMAIN p.of => p.of.rootfs \in T
      /\ "os" \in DOMAIN p.of => p.of.os \in T
  OBVIOUS
<1>3. Within(BootloaderStages(p, a.name), T)
  BY <1>2, BootloaderWithin
<1>4. Within(makeKickstartStages(p), T) /\ Within(bootcInstallerKickstartStages(p), T)
  BY <1>2, KickstartWithin
<1>5. Reads(ISOTreeRootfsStage(p, a), T)
  <2>1. (IF "SquashfsExt4" \in p.opts /\ "rootfs" \in DOMAIN p.of THEN p.of.rootfs ELSE a.name) \in T
    BY <1>2
  <2> QED
    BY <2>1, OneTree, Zenon DEF ISOTreeRootfsStage
<1>6. Within(ISOTreeCommitStages(p, m), T)
  BY <1>1, NoTrees, Within2, WithinWhen, Zenon DEF ISOTreeCommitStages
<1>7. Within(ostreeContainerStages(p, m), T)
  BY <1>1, <1>4, UsingStages, Within2, WithinConcat, Zenon DEF ostreeContainerStages
<1>8. "os" \in DOMAIN p.of => Within(tarPayloadStages(p), T)
  BY <1>2, <1>4, OneTree, Within1, WithinConcat, WithinWhen, Zenon DEF tarPayloadStages
<1>9. "Payload" \in a.opts => Within(ISOTreePayloadStages(p, m, am), T)
  <2> SUFFICES ASSUME "Payload" \in a.opts PROVE Within(ISOTreePayloadStages(p, m, am), T)
    OBVIOUS
  <2>1. Payloads(p, m, am) # {}
    BY FS_EmptySet
  <2>2. \/ "commit" \in Payloads(p, m, am) \/ "container" \in Payloads(p, m, am)
        \/ "os" \in DOMAIN p.of
    BY <2>1 DEF Payloads
  <2> QED
    BY <1>4, <1>6, <1>7, <1>8, <2>2, WithinConcat, WithinWhen, Zenon DEF ISOTreePayloadStages
<1>10. Within(<<[NewCopyStage({a.name}, {}) EXCEPT !.kernel = ISOKernel(am)], ISOTreeRootfsStage(p, a)>>, T)
  BY <1>5, OneTree, Within2, Zenon
<1> QED
  BY <1>1, <1>3, <1>4, <1>9, <1>10, Within1, WithinConcat, WithinWhen, Zenon DEF ISOTreeStages

\* The trees of the other ISOs, and the ISOs.
LEMMA ISOWithin ==
    ASSUME NEW T, NEW p, p.of.tree \in T
    PROVE  /\ p.of.efi \in T => Within(ContainerISOTreeStages(p), T)
           /\ Within(ISORootfsStages(p), T) /\ Within(ISOStages(p), T)
<1> DEFINE tree == p.of.tree
<1>1. /\ Reads(NewMkdirStage, T) /\ Reads(NewGrub2ISOLegacyStage, T) /\ Reads(NewGrub2InstStage, T)
      /\ Reads(NewTruncateStage, T) /\ Reads(NewMkfsFATStage, T) /\ Reads(NewDiscinfoStage, T)
      /\ Reads(NewMkfsExt4Stage, T) /\ Reads(NewImplantisomd5Stage, T)
  BY PlainStages, Zenon
<1>2. ASSUME p.of.efi \in T PROVE Within(ContainerISOTreeStages(p), T)
  <2> DEFINE rootfs == IF "Erofs" \in p.opts THEN NewErofsStage({tree}) ELSE NewSquashfsStage({tree})
             efi == NewCopyStage({p.of.efi}, {})
             copy == NewCopyStage({tree}, {})
  <2>1. Reads(rootfs, T)
    BY OneTree
  <2>2. Reads(efi, T) /\ Reads(copy, T)
    BY <1>2, OneTree, Zenon
  <2> HIDE DEF rootfs, efi, copy
  <2>3. /\ Within(<<NewMkdirStage, copy, rootfs, NewGrub2ISOLegacyStage, NewGrub2InstStage>>, T)
        /\ Within(<<NewTruncateStage, NewMkfsFATStage, efi, efi, NewDiscinfoStage>>, T)
    BY <1>1, <2>1, <2>2, Within5, Zenon
  <2>4. <<NewMkdirStage, copy, rootfs, NewGrub2ISOLegacyStage, NewGrub2InstStage, NewTruncateStage,
          NewMkfsFATStage, efi, efi, NewDiscinfoStage>>
          = <<NewMkdirStage, copy, rootfs, NewGrub2ISOLegacyStage, NewGrub2InstStage>>
              \o <<NewTruncateStage, NewMkfsFATStage, efi, efi, NewDiscinfoStage>>
    OBVIOUS
  <2>5. ContainerISOTreeStages(p) =
          <<NewMkdirStage, copy, rootfs, NewGrub2ISOLegacyStage, NewGrub2InstStage, NewTruncateStage,
            NewMkfsFATStage, efi, efi, NewDiscinfoStage>>
    BY DEF ContainerISOTreeStages, rootfs, efi, copy
  <2> QED
    BY <2>3, <2>4, <2>5, WithinConcat, Zenon
<1>3. Within(ISORootfsStages(p), T)
  BY <1>1, OneTree, Within4, Zenon DEF ISORootfsStages
<1>4. Within(ISOStages(p), T)
  BY <1>1, OneTree, Within2, Zenon DEF ISOStages
<1> QED
  BY <1>2, <1>3, <1>4, Zenon

-----------------------------------------------------------------------------
(* What the image definitions promise: a pipeline is built in, and made    *)
(* of, pipelines that are already there.                                   *)

\* The kinds of pipeline that are made of no other, and of several others.
PlainKinds == {"buildroot", "os", "subscription", "os-from-container", "ostree-deployment", "raw-bootc",
               "anaconda", "coi", "efi-boot-tree"}

SpecialKinds == {"buildroot-container", "coi-iso-tree", "container-iso-tree", "anaconda-iso-tree"}

\* The pipelines that serialize follows a pointer to without looking whether it is there.
Roles(p) ==
    CASE p.kind \in PlainKinds -> {}
      [] p.kind = "buildroot-container" -> IF "CopyFilesFrom" \in p.opts THEN {"target"} ELSE {}
      [] p.kind = "coi-iso-tree" -> {"tree", "coi", "efi"}
      [] p.kind = "container-iso-tree" -> {"tree", "efi"}
      [] p.kind = "anaconda-iso-tree" -> {"anaconda"}
      [] OTHER -> {"tree"}

\* A pipeline that may be added when those named in N are there.
Sound(p, N) ==
    /\ p.build \in N \union {""}
    /\ \A r \in DOMAIN p.of : p.of[r] \in N
    /\ Roles(p) \subseteq DOMAIN p.of

\* The names of the first pipelines of s, and of all.
Known(s, i) == {s[j].name : j \in 1 .. (i - 1)}

Names(s) == {s[j].name : j \in DOMAIN s}

\* Where the pipelines in N are, those of s may be added one by one, and then the
\* pipelines in M are there.
Makes(s, N, M) ==
    /\ IsSeq(s)
    /\ \A i \in DOMAIN s : Sound(s[i], N \union Known(s, i))
    /\ M \subseteq N \union Names(s)

LEMMA SoundMore == ASSUME NEW p, NEW N, NEW K, Sound(p, N), N \subseteq K PROVE Sound(p, K)
  BY DEF Sound

LEMMA MakesNone == ASSUME NEW N, NEW M, M \subseteq N PROVE Makes(<< >>, N, M)
<1>1. IsSeq(<< >>) /\ \A i \in DOMAIN << >> : FALSE
  <2>1. IsSeq(<< >>)
    BY Short
  <2>2. \A i \in DOMAIN << >> : FALSE
    OBVIOUS
  <2> QED
    BY <2>1, <2>2
<1>2. M \subseteq N \union Names(<< >>)
  OBVIOUS
<1> QED
  BY <1>1, <1>2, Zenon DEF Makes

LEMMA MakesOne ==
    ASSUME NEW p, NEW N, NEW M, Sound(p, N), M \subseteq N \union {p.name}
    PROVE  Makes(<<p>>, N, M)
<1>1. IsSeq(<<p>>)
  BY Short
<1>2. DOMAIN <<p>> = {1} /\ <<p>>[1] = p
  OBVIOUS
<1>3. Names(<<p>>) = {p.name}
  BY <1>2 DEF Names
<1>4. \A i \in DOMAIN <<p>> : Sound(<<p>>[i], N \union Known(<<p>>, i))
  <2>1. Sound(p, N \union Known(<<p>>, 1))
    BY SoundMore
  <2> QED
    BY <1>2, <2>1
<1> QED
  BY <1>1, <1>3, <1>4 DEF Makes

\* One list of pipelines after another.
LEMMA MakesConcat ==
    ASSUME NEW s, NEW t, NEW N, NEW M, NEW L, Makes(s, N, M), Makes(t, M, L)
    PROVE  Makes(s \o t, N, L)
<1>1. PICK S : s \in Seq(S)
  BY DEF Makes, IsSeq
<1>2. PICK R : t \in Seq(R)
  BY DEF Makes, IsSeq
<1> DEFINE U == S \union R
<1>3. s \in Seq(U) /\ t \in Seq(R \union S)
  BY <1>1, <1>2, SeqUnion
<1>4. R \union S = U
  OBVIOUS
<1> HIDE DEF U
<1>5. s \in Seq(U) /\ t \in Seq(U) /\ Len(s) \in Nat /\ Len(t) \in Nat
      /\ DOMAIN s = 1 .. Len(s) /\ DOMAIN t = 1 .. Len(t)
  BY <1>3, <1>4
<1>6. /\ s \o t \in Seq(U) /\ Len(s \o t) = Len(s) + Len(t)
      /\ \A i \in 1 .. Len(s) + Len(t) : (s \o t)[i] = IF i <= Len(s) THEN s[i] ELSE t[i - Len(s)]
  BY <1>5, ConcatProperties
<1>7. DOMAIN (s \o t) = 1 .. Len(s) + Len(t)
  BY <1>5, <1>6
<1> DEFINE st == s \o t
<1>8. /\ \A i \in DOMAIN s : i \in DOMAIN st /\ st[i] = s[i]
      /\ \A i \in DOMAIN t : i + Len(s) \in DOMAIN st /\ st[i + Len(s)] = t[i]
  <2>1. ASSUME NEW i \in DOMAIN s PROVE i \in DOMAIN st /\ st[i] = s[i]
    BY <1>5, <1>6, <1>7
  <2>2. ASSUME NEW i \in DOMAIN t PROVE i + Len(s) \in DOMAIN st /\ st[i + Len(s)] = t[i]
    BY <1>5, <1>6, <1>7
  <2> QED
    BY <2>1, <2>2
<1>9. DOMAIN st = 1 .. Len(s) + Len(t)
  BY <1>7
<1> HIDE DEF st
<1>10. Names(s) \subseteq Names(st) /\ Names(t) \subseteq Names(st)
  BY <1>8 DEF Names
<1>11. L \subseteq N \union Names(st)
  BY <1>10 DEF Makes
<1>12. ASSUME NEW i \in DOMAIN st PROVE Sound(st[i], N \union Known(st, i))
  <2>1. i \in Nat /\ i >= 1 /\ i <= Len(s) + Len(t)
    BY <1>5, <1>9
  <2>2. CASE i <= Len(s)
    <3>1. i \in DOMAIN s /\ st[i] = s[i]
      BY <1>5, <1>8, <2>1, <2>2
    <3>2. \A j \in 1 .. (i - 1) : j \in DOMAIN s /\ st[j] = s[j]
      BY <1>5, <1>8, <2>1, <2>2
    <3>3. Known(st, i) = Known(s, i)
      BY <3>2 DEF Known
    <3> QED
      BY <3>1, <3>3 DEF Makes
  <2>3. CASE ~ (i <= Len(s))
    <3> DEFINE k == i - Len(s)
    <3>1. k \in DOMAIN t /\ k + Len(s) = i
      BY <1>5, <2>1, <2>3
    <3>2. st[i] = t[k]
      BY <1>8, <3>1
    <3>3. Names(s) \subseteq Known(st, i)
      <4>1. \A j \in DOMAIN s : j \in 1 .. (i - 1) /\ st[j] = s[j]
        BY <1>5, <1>8, <2>1, <2>3
      <4> QED
        BY <4>1 DEF Names, Known
    <3>4. Known(t, k) \subseteq Known(st, i)
      <4>1. \A j \in 1 .. (k - 1) : j + Len(s) \in 1 .. (i - 1) /\ j \in DOMAIN t
        BY <1>5, <2>1, <3>1
      <4>2. \A j \in 1 .. (k - 1) : st[j + Len(s)] = t[j]
        BY <1>8, <4>1
      <4> QED
        BY <4>1, <4>2 DEF Known
    <3> HIDE DEF k
    <3>5. Sound(t[k], M \union Known(t, k))
      BY <3>1 DEF Makes
    <3>6. M \union Known(t, k) \subseteq N \union Known(st, i)
      BY <3>3, <3>4 DEF Makes
    <3> QED
      BY <3>2, <3>5, <3>6, SoundMore
  <2> QED
    BY <2>2, <2>3
<1>13. IsSeq(st)
  BY <1>6 DEF IsSeq, st
<1> QED
  BY <1>11, <1>12, <1>13 DEF Makes, st

LEMMA MakesWhen ==
    ASSUME NEW c, NEW s, NEW N, NEW M, M \subseteq N, c => Makes(s, N, M)
    PROVE  Makes(When(c, s), N, M)
  BY MakesNone DEF When

\* More pipelines may be there, and fewer are asked for.
LEMMA MakesLess ==
    ASSUME NEW s, NEW N, NEW M, NEW K, NEW L, Makes(s, N, M), N \subseteq K, L \subseteq M
    PROVE  Makes(s, K, L)
<1>1. \A i \in DOMAIN s : N \union Known(s, i) \subseteq K \union Known(s, i)
  OBVIOUS
<1>2. \A i \in DOMAIN s : Sound(s[i], K \union Known(s, i))
  BY <1>1, SoundMore DEF Makes
<1>3. L \subseteq K \union Names(s)
  BY DEF Makes
<1> QED
  BY <1>2, <1>3 DEF Makes

\* The pipelines of a list, written out.
LEMMA Pair == ASSUME NEW a, NEW b PROVE <<a, b>> = <<a>> \o <<b>>
<1> DEFINE S == {a, b}
           s == <<a>>
           t == <<b>>
<1>1. s \in Seq(S) /\ t \in Seq(S) /\ <<a, b>> \in Seq(S) /\ Len(s) = 1 /\ Len(t) = 1
  OBVIOUS
<1>2. s[1] = a /\ t[1] = b
  OBVIOUS
<1> HIDE DEF S, s, t
<1>3. s \o t \in Seq(S) /\ Len(s \o t) = 2 /\ (s \o t)[1] = s[1] /\ (s \o t)[2] = t[1]
  BY <1>1, ConcatProperties
<1>4. <<a, b>> = s \o t
  BY <1>1, <1>2, <1>3, SeqEqual
<1> QED
  BY <1>4 DEF s, t

LEMMA Makes2 ==
    ASSUME NEW N, NEW A, NEW M, NEW a, NEW b, Makes(<<a>>, N, A), Makes(<<b>>, A, M)
    PROVE  Makes(<<a, b>>, N, M)
  BY Pair, MakesConcat, Zenon

LEMMA Makes3 ==
    ASSUME NEW N, NEW A, NEW B, NEW M, NEW a, NEW b, NEW c,
           Makes(<<a>>, N, A), Makes(<<b>>, A, B), Makes(<<c>>, B, M)
    PROVE  Makes(<<a, b, c>>, N, M)
<1>1. <<a, b, c>> = <<a, b>> \o <<c>>
  OBVIOUS
<1>2. Makes(<<a, b>>, N, B)
  BY Makes2
<1> QED
  BY <1>1, <1>2, MakesConcat, Zenon

LEMMA Makes4 ==
    ASSUME NEW N, NEW A, NEW B, NEW C, NEW M, NEW a, NEW b, NEW c, NEW d,
           Makes(<<a>>, N, A), Makes(<<b>>, A, B), Makes(<<c>>, B, C), Makes(<<d>>, C, M)
    PROVE  Makes(<<a, b, c, d>>, N, M)
<1>1. <<a, b, c, d>> = <<a, b>> \o <<c, d>>
  OBVIOUS
<1>2. Makes(<<a, b>>, N, B) /\ Makes(<<c, d>>, B, M)
  BY Makes2
<1> QED
  BY <1>1, <1>2, MakesConcat, Zenon

LEMMA Makes5 ==
    ASSUME NEW N, NEW A, NEW B, NEW C, NEW D, NEW M, NEW a, NEW b, NEW c, NEW d, NEW e,
           Makes(<<a>>, N, A), Makes(<<b>>, A, B), Makes(<<c>>, B, C), Makes(<<d>>, C, D),
           Makes(<<e>>, D, M)
    PROVE  Makes(<<a, b, c, d, e>>, N, M)
<1>1. <<a, b, c, d, e>> = <<a, b, c>> \o <<d, e>>
  OBVIOUS
<1>2. Makes(<<a, b, c>>, N, C) /\ Makes(<<d, e>>, C, M)
  BY Makes2, Makes3
<1> QED
  BY <1>1, <1>2, MakesConcat, Zenon

LEMMA OfNothing == \A r \in DOMAIN Nothing : FALSE
  BY DEF Nothing

\* A pipeline that is made of no other, or of one.
LEMMA MakesPlain ==
    ASSUME NEW N, NEW M, NEW kind \in PlainKinds, NEW name, NEW build, NEW opts,
           build \in N \union {""}, M \subseteq N \union {name}
    PROVE  Makes(<<Pipeline(kind, name, build, Nothing, opts)>>, N, M)
<1> DEFINE p == Pipeline(kind, name, build, Nothing, opts)
<1>1. p.kind = kind /\ p.name = name /\ p.build = build /\ p.of = Nothing
  BY DEF Pipeline
<1> HIDE DEF p
<1>2. Roles(p) = {}
  BY <1>1 DEF Roles, PlainKinds
<1>3. Sound(p, N)
  <2>1. p.build \in N \union {""}
    BY <1>1
  <2>2. \A r \in DOMAIN p.of : p.of[r] \in N
    BY <1>1, OfNothing, Zenon
  <2> QED
    BY <1>2, <2>1, <2>2, Zenon DEF Sound
<1> QED
  BY <1>1, <1>3, MakesOne DEF p

LEMMA MakesTree ==
    ASSUME NEW N, NEW M, NEW kind, kind \notin SpecialKinds, NEW name, NEW build, NEW x \in N, NEW opts,
           build \in N \union {""}, M \subseteq N \union {name}
    PROVE  Makes(<<Pipeline(kind, name, build, Tree(x), opts)>>, N, M)
<1> DEFINE p == Pipeline(kind, name, build, Tree(x), opts)
<1>1. p.kind = kind /\ p.name = name /\ p.build = build /\ p.of = Tree(x)
  BY DEF Pipeline
<1> HIDE DEF p
<1>2. DOMAIN Tree(x) = {"tree"} /\ Tree(x).tree = x
  BY DEF Tree
<1>3. Roles(p) \subseteq {"tree"}
  BY <1>1 DEF Roles, SpecialKinds
<1>4. Sound(p, N)
  BY <1>1, <1>2, <1>3 DEF Sound
<1> QED
  BY <1>1, <1>4, MakesOne DEF p

\* A container that makes a build root.
LEMMA MakesContainer ==
    ASSUME NEW N, NEW M, NEW name, NEW opts, "CopyFilesFrom" \notin opts, M \subseteq N \union {name}
    PROVE  Makes(<<Pipeline("buildroot-container", name, "", Nothing, opts)>>, N, M)
<1> DEFINE p == Pipeline("buildroot-container", name, "", Nothing, opts)
<1>1. p.kind = "buildroot-container" /\ p.name = name /\ p.build = "" /\ p.of = Nothing /\ p.opts = opts
  BY DEF Pipeline
<1> HIDE DEF p
<1>2. Roles(p) = {}
  BY <1>1 DEF Roles, PlainKinds
<1>3. Sound(p, N)
  BY <1>1, <1>2, OfNothing DEF Sound
<1> QED
  BY <1>1, <1>3, MakesOne DEF p

\* Whatever the pipeline, its stages read its build root and what it points to.  That a
\* payload is read at all is because serialize has refused none and several.
LEMMA SerializeReads ==
    ASSUME NEW p, NEW pls, NEW before, NEW now, NEW T,
           p.build \in T, Roles(p) \subseteq DOMAIN p.of,
           \A r \in DOMAIN p.of : p.of[r] \in T /\ Named(pls, p.of[r]).name = p.of[r],
           ~ serializeFails(p, pls, before),
           now[p.name].in = before[p.name].in,
           p.kind = "anaconda-iso-tree" => now[p.of.anaconda].in = before[p.of.anaconda].in
    PROVE  Within(serialize(p, pls, now), T)
<1> DEFINE m == now[p.name]
           tree == Named(pls, p.of["tree"])
           tm == now[p.of["tree"]]
           coi == Named(pls, p.of["coi"])
           cm == now[p.of["coi"]]
           anaconda == Named(pls, p.of["anaconda"])
           am == now[p.of["anaconda"]]
<1>1. ASSUME "tree" \in Roles(p) PROVE p.of.tree \in T /\ tree.name \in T
  BY <1>1
<1>2. p.kind \notin PlainKinds \union SpecialKinds => "tree" \in Roles(p)
  BY DEF Roles, SpecialKinds
<1>3. /\ p.kind = "buildroot" => Within(BuildrootFromPackagesStages(p, m), T)
      /\ p.kind = "buildroot-container" => Within(BuildrootFromContainerStages(p, m), T)
  <2>1. ASSUME p.kind = "buildroot-container" PROVE Within(BuildrootFromContainerStages(p, m), T)
    <3>1. "CopyFilesFrom" \in p.opts => p.of.target \in T
      BY <2>1 DEF Roles, PlainKinds
    <3> QED
      BY <3>1, ContainerWithin
  <2> QED
    BY <2>1, PackagesWithin
<1>4. p.kind = "raw-bootc" => Within(RawBootcImageStages(p, m), T)
  BY RawBootcWithin
<1>5. p.kind = "coi-iso-tree" => Within(CoreOSISOTreeStages(p, coi, cm), T)
  <2>1. ASSUME p.kind = "coi-iso-tree" PROVE p.of.tree \in T /\ p.of.efi \in T /\ coi.name \in T
    BY <2>1 DEF Roles, PlainKinds
  <2> QED
    BY <2>1, CoreOSISOWithin
<1>6. p.kind = "container-iso-tree" => Within(ContainerISOTreeStages(p), T)
  <2>1. ASSUME p.kind = "container-iso-tree" PROVE p.of.tree \in T /\ p.of.efi \in T
    BY <2>1 DEF Roles, PlainKinds
  <2> QED
    BY <2>1, ISOWithin
<1>7. ASSUME p.kind = "anaconda-iso-tree" PROVE Within(ISOTreeStages(p, m, anaconda, am), T)
  <2>1. anaconda.name \in T
    BY <1>7 DEF Roles, PlainKinds
  <2>2. ~ ISOTreeFails(p, before[p.name], anaconda, before[p.of.anaconda])
    BY <1>7 DEF serializeFails
  <2>3. "Payload" \in anaconda.opts => Cardinality(Payloads(p, before[p.name], before[p.of.anaconda])) = 1
    BY <2>2 DEF ISOTreeFails
  <2>4. Payloads(p, m, am) = Payloads(p, before[p.name], before[p.of.anaconda])
    BY <1>7 DEF Payloads
  <2> QED
    BY <2>1, <2>3, <2>4, ISOTreeWithin
<1>8. ASSUME "tree" \in Roles(p)
      PROVE  /\ Within(RawImageStages(p, tree, tm), T) /\ Within(ConverterStages(p), T)
             /\ Within(PXETreeStages(p, tree, tm), T) /\ Within(OSTreeCommitStages(tree), T)
             /\ Within(OSTreeCommitServerStages(p, m), T) /\ Within(OSTreeEncapsulateStages(p), T)
             /\ Within(RawOSTreeImageStages(p, tree, tm), T) /\ Within(BootcRootFSStages(p, tree), T)
             /\ Within(BootcPXETreeStages(p), T) /\ Within(ISORootfsStages(p), T) /\ Within(ISOStages(p), T)
  <2>1. p.of.tree \in T /\ tree.name \in T
    BY <1>1, <1>8
  <2> HIDE DEF tree, tm, m
  <2> QED
    BY <2>1, RawWithin, ConverterWithin, PXEWithin, CommitWithin, ServerWithin, EncapsulateWithin,
       RawOSTreeWithin, RootFSWithin, ISOWithin, Zenon
<1>9. /\ Within(OSStages(p, m), T) /\ Within(SubscriptionStages(p, m), T)
      /\ Within(OSFromContainerStages(m), T) /\ Within(OSTreeDeploymentStages(p, m), T)
      /\ Within(AnacondaStages(p, m), T) /\ Within(CoreOSStages(p, m), T) /\ Within(EFIBootTreeStages, T)
  BY OSWithin, SubscriptionWithin, FromContainerWithin, DeploymentWithin, AnacondaWithin, CoreOSWithin,
     EFIWithin, Zenon
<1> DEFINE s == serialize(p, pls, now)
<1>10. ASSUME p.kind \in Converters PROVE p.kind \notin PlainKinds \union SpecialKinds
  BY <1>10 DEF Converters, PlainKinds, SpecialKinds
<1>11. s =
    CASE p.kind = "buildroot" -> BuildrootFromPackagesStages(p, m)
      [] p.kind = "buildroot-container" -> BuildrootFromContainerStages(p, m)
      [] p.kind = "os" -> OSStages(p, m)
      [] p.kind = "raw" -> RawImageStages(p, tree, tm)
      [] p.kind \in Converters -> ConverterStages(p)
      [] p.kind = "pxe-tree" -> PXETreeStages(p, tree, tm)
      [] p.kind = "subscription" -> SubscriptionStages(p, m)
      [] p.kind = "ostree-commit" -> OSTreeCommitStages(tree)
      [] p.kind = "commit-server" -> OSTreeCommitServerStages(p, m)
      [] p.kind = "ostree-encapsulate" -> OSTreeEncapsulateStages(p)
      [] p.kind = "os-from-container" -> OSFromContainerStages(m)
      [] p.kind = "ostree-deployment" -> OSTreeDeploymentStages(p, m)
      [] p.kind = "raw-ostree" -> RawOSTreeImageStages(p, tree, tm)
      [] p.kind = "raw-bootc" -> RawBootcImageStages(p, m)
      [] p.kind = "bootc-rootfs" -> BootcRootFSStages(p, tree)
      [] p.kind = "bootc-pxe-tree" -> BootcPXETreeStages(p)
      [] p.kind = "anaconda" -> AnacondaStages(p, m)
      [] p.kind = "coi" -> CoreOSStages(p, m)
      [] p.kind = "coi-iso-tree" -> CoreOSISOTreeStages(p, coi, cm)
      [] p.kind = "efi-boot-tree" -> EFIBootTreeStages
      [] p.kind = "anaconda-iso-tree" -> ISOTreeStages(p, m, anaconda, am)
      [] p.kind = "container-iso-tree" -> ContainerISOTreeStages(p)
      [] p.kind = "iso-rootfs" -> ISORootfsStages(p)
      [] OTHER -> ISOStages(p)
  BY Zenon DEF serialize
<1> HIDE DEF s, m, tree, tm, coi, cm, anaconda, am
<1>12. ASSUME p.kind \in PlainKinds \union SpecialKinds PROVE Within(s, T)
  BY <1>3, <1>4, <1>5, <1>6, <1>7, <1>9, <1>10, <1>11, <1>12 DEF PlainKinds, SpecialKinds
<1>13. ASSUME p.kind \notin PlainKinds \union SpecialKinds PROVE Within(s, T)
  BY <1>2, <1>8, <1>11, <1>13 DEF PlainKinds, SpecialKinds
<1> QED
  BY <1>12, <1>13 DEF s

\* Every list that the image definitions are put together from.
LEMMA BuildMade ==
    ASSUME NEW image
    PROVE  /\ Makes(addBuildBootstrapPipelines(image), {}, {"build"})
           /\ Makes(NewBuildFromContainer({}), {}, {"build"})
           /\ Makes(BootcBuild(image), {}, {"build"})
           /\ "BuildContainer" \in image.opts => Makes(BootcBuild(image), {}, {"build", "target"})
<1>1. Makes(NewBuildFromContainer({}), {}, {"build"})
  BY MakesContainer DEF NewBuildFromContainer
<1>2. Makes(addBuildBootstrapPipelines(image), {}, {"build"})
  <2> DEFINE c == Pipeline("buildroot-container", "bootstrap-buildroot", "", Nothing, {"DisableSELinux"})
             p == Pipeline("buildroot", "build", "bootstrap-buildroot", Nothing, {"DisableSELinux"})
             q == Pipeline("buildroot", "build", "", Nothing, {})
  <2>1. Makes(<<q>>, {}, {"build"})
    BY MakesPlain DEF PlainKinds
  <2>2. Makes(<<c>>, {}, {"bootstrap-buildroot"})
    BY MakesContainer
  <2>3. Makes(<<p>>, {"bootstrap-buildroot"}, {"build"})
    BY MakesPlain DEF PlainKinds
  <2>4. addBuildBootstrapPipelines(image) = IF "Bootstrap" \in image.opts THEN <<c, p>> ELSE <<q>>
    BY Zenon DEF addBuildBootstrapPipelines
  <2> HIDE DEF c, p, q
  <2>5. Makes(<<c, p>>, {}, {"build"})
    BY <2>2, <2>3, Makes2
  <2> QED
    BY <2>1, <2>4, <2>5, Zenon
<1>3. "BuildContainer" \in image.opts => Makes(BootcBuild(image), {}, {"build", "target"})
  <2> DEFINE t == [target |-> "target"]
             c == Pipeline("buildroot-container", "target", "", Nothing, {"EnsureDirs"})
             p == Pipeline("buildroot-container", "build", "", t, {"EnsureDirs", "CopyFilesFrom"})
  <2>1. Makes(<<c>>, {}, {"target"})
    BY MakesContainer
  <2>2. DOMAIN t = {"target"} /\ t.target = "target"
    OBVIOUS
  <2>3. BootcBuild(image) = IF "BuildContainer" \in image.opts THEN <<c, p>> ELSE NewBuildFromContainer({})
    BY Zenon DEF BootcBuild
  <2> HIDE DEF c, t
  <2>4. /\ p.kind = "buildroot-container" /\ p.name = "build" /\ p.build = "" /\ p.of = t
        /\ p.opts = {"EnsureDirs", "CopyFilesFrom"}
    BY DEF Pipeline
  <2> HIDE DEF p
  <2>5. Roles(p) = {"target"}
    BY <2>4 DEF Roles, PlainKinds
  <2>6. Sound(p, {"target"})
    BY <2>2, <2>4, <2>5 DEF Sound
  <2>7. Makes(<<p>>, {"target"}, {"build", "target"})
    BY <2>4, <2>6, MakesOne
  <2>8. Makes(<<c, p>>, {}, {"build", "target"})
    BY <2>1, <2>7, Makes2
  <2> QED
    BY <2>3, <2>8, Zenon
<1>4. Makes(BootcBuild(image), {}, {"build"})
  <2>1. CASE "BuildContainer" \in image.opts
    BY <1>3, <2>1, MakesLess
  <2>2. CASE "BuildContainer" \notin image.opts
    BY <1>1, <2>2 DEF BootcBuild
  <2> QED
    BY <2>1, <2>2
<1> QED
  BY <1>1, <1>2, <1>3, <1>4

\* Where there is a build root, and what they are made of, if anything.
LEMMA PartsMade ==
    ASSUME NEW image, NEW N, "build" \in N
    PROVE  /\ \A opts : Makes(<<Pipeline("os", "os", "build", Nothing, opts)>>, N, N \union {"os"})
           /\ Makes(OSOnly(image), N, N \union {"os"})
           /\ \A opts : Makes(baseRawOstreeImage(opts), N, N \union {"image"})
           /\ \A opts : Makes(AnacondaTree(image, opts), N, N \union {"anaconda-tree"})
<1>1. \A opts : Makes(<<Pipeline("os", "os", "build", Nothing, opts)>>, N, N \union {"os"})
  BY MakesPlain DEF PlainKinds
<1>2. Makes(OSOnly(image), N, N \union {"os"})
  BY <1>1, Zenon DEF OSOnly
<1>3. ASSUME NEW opts PROVE Makes(AnacondaTree(image, opts), N, N \union {"anaconda-tree"})
  BY MakesPlain DEF AnacondaTree, PlainKinds
<1>4. ASSUME NEW opts PROVE Makes(baseRawOstreeImage(opts), N, N \union {"image"})
  <2>1. Makes(<<Pipeline("ostree-deployment", "ostree-deployment", "build", Nothing, opts)>>, N,
              N \union {"ostree-deployment"})
    BY MakesPlain DEF PlainKinds
  <2>2. Makes(<<Pipeline("raw-ostree", "image", "build", Tree("ostree-deployment"), {})>>,
              N \union {"ostree-deployment"}, N \union {"ostree-deployment", "image"})
    BY MakesTree DEF SpecialKinds
  <2>3. Makes(baseRawOstreeImage(opts), N, N \union {"ostree-deployment", "image"})
    BY <2>1, <2>2, Makes2 DEF baseRawOstreeImage
  <2> QED
    BY <2>3, MakesLess
<1> QED
  BY <1>1, <1>2, <1>3, <1>4, Zenon

\* An archive or a compressed file of a pipeline that is there.
LEMMA CompressionMade ==
    ASSUME NEW image, ~ GetCompressionPipelinePanics(image), NEW N, "build" \in N, NEW x \in N
    PROVE  Makes(GetCompressionPipeline(image, x), N, N)
<1>1. image.compression # "" => image.compression \notin SpecialKinds
  BY DEF GetCompressionPipelinePanics, SpecialKinds
<1>2. image.compression # "" =>
        Makes(<<Pipeline(image.compression, image.compression, "build", Tree(x), {})>>, N, N)
  BY <1>1, MakesTree
<1> QED
  BY <1>2, MakesWhen, Zenon DEF GetCompressionPipeline

\* The conversions of a disk image.
LEMMA FormatMade ==
    ASSUME NEW format, NEW N, "build" \in N, "image" \in N
    PROVE  Makes(DiskFormat(format), N, N)
<1> DEFINE Conv(kind, name, input) == Pipeline(kind, name, "build", Tree(input), {})
           box == Pipeline("vagrant", "vagrant", "build", Tree("vmdk"), {"VirtualBox"})
<1>1. ASSUME NEW K, N \subseteq K, NEW M, NEW kind, kind \notin SpecialKinds, NEW name, NEW input \in K,
             M \subseteq K \union {name}
      PROVE  Makes(<<Conv(kind, name, input)>>, K, M)
  BY <1>1, MakesTree
<1>2. Makes(<<box>>, N \union {"vmdk"}, N \union {"vagrant"})
  BY MakesTree DEF SpecialKinds
<1> DEFINE q == Conv("qcow2", "qcow2", "image")
           v == Conv("vmdk", "vmdk", "image")
           qv == Conv("vagrant", "vagrant", "qcow2")
           va == Conv("tar", "archive", "vagrant")
           o == Conv("ovf", "ovf", "vmdk")
           oa == Conv("tar", "archive", "ovf")
           g == Conv("tar", "archive", "image")
<1>3. Makes(<<q>>, N, N \union {"qcow2"}) /\ Makes(<<v>>, N, N \union {"vmdk"}) /\ Makes(<<g>>, N, N)
  BY <1>1 DEF SpecialKinds
<1>4. /\ Makes(<<qv>>, N \union {"qcow2"}, N \union {"vagrant"})
      /\ Makes(<<va>>, N \union {"vagrant"}, N)
  BY <1>1 DEF SpecialKinds
<1>5. /\ Makes(<<o>>, N \union {"vmdk"}, N \union {"ovf"})
      /\ Makes(<<oa>>, N \union {"ovf"}, N)
  BY <1>1 DEF SpecialKinds
<1>6. ASSUME format \in {"qcow2", "vmdk", "vpc"} PROVE Makes(<<Conv(format, format, "image")>>, N, N)
  BY <1>1, <1>6 DEF SpecialKinds
<1> HIDE DEF box
<1>7. DiskFormat(format) =
        CASE format \in {"qcow2", "vmdk", "vpc"} -> <<Conv(format, format, "image")>>
          [] format = "vagrant-libvirt" -> <<q, qv, va>>
          [] format = "vagrant-virtualbox" -> <<v, box, va>>
          [] format = "ova" -> <<v, o, oa>>
          [] format = "gce" -> <<g>>
          [] OTHER -> << >>
  BY Zenon DEF DiskFormat, newGCETarPipelineForImg, box
<1> HIDE DEF q, v, qv, va, o, oa, g, Conv
<1>8. Makes(<<q, qv, va>>, N, N) /\ Makes(<<v, box, va>>, N, N) /\ Makes(<<v, o, oa>>, N, N)
  BY <1>2, <1>3, <1>4, <1>5, Makes3
<1>9. Makes(<< >>, N, N)
  BY MakesNone
<1> QED
  BY <1>3, <1>6, <1>7, <1>8, <1>9, Zenon

\* Images of a system that is installed from packages.
LEMMA ArchiveMade ==
    ASSUME NEW image, ~ GetCompressionPipelinePanics(image)
    PROVE  Makes(Archive(image), {}, {})
<1>1. Makes(OSOnly(image), {"build"}, {"build", "os"})
  <2>1. {"build"} \union {"os"} = {"build", "os"}
    OBVIOUS
  <2> QED
    BY <2>1, PartsMade
<1>2. Makes(<<Pipeline("tar", "archive", "build", Tree("os"), {})>>, {"build", "os"}, {"build", "archive"})
  BY MakesTree DEF SpecialKinds
<1>3. Makes(GetCompressionPipeline(image, "archive"), {"build", "archive"}, {"build", "archive"})
  BY CompressionMade
<1>4. Makes(Archive(image), {}, {"build", "archive"})
  BY <1>1, <1>2, <1>3, BuildMade, MakesConcat, Zenon DEF Archive
<1> QED
  BY <1>4, MakesLess

\* A disk image, compressed or not: what is compressed is the pipeline made last.
LEMMA DiskMade ==
    ASSUME NEW image, ~ GetCompressionPipelinePanics(image)
    PROVE  Makes(DiskImage(image), {}, {})
<1> DEFINE raw == <<Pipeline("raw", "image", "build", Tree("os"), {})>>
           made == addBuildBootstrapPipelines(image) \o OSOnly(image) \o raw \o DiskFormat(image.format)
<1>1. Makes(OSOnly(image), {"build"}, {"build", "os"})
  <2>1. {"build"} \union {"os"} = {"build", "os"}
    OBVIOUS
  <2> QED
    BY <2>1, PartsMade
<1>2. Makes(raw, {"build", "os"}, {"build", "image"})
  BY MakesTree DEF SpecialKinds
<1>3. Makes(DiskFormat(image.format), {"build", "image"}, {"build", "image"})
  BY FormatMade
<1>4. Makes(made, {}, {"build", "image"})
  <2> HIDE DEF raw
  <2> QED
    BY <1>1, <1>2, <1>3, BuildMade, MakesConcat, Zenon DEF made
<1>5. Rooted(made)
  BY BuildFirst, Parts, RootedConcat, Short, Zenon
<1>6. DiskImage(image) = made \o GetCompressionPipeline(image, Last(made).name)
  BY Zenon DEF DiskImage
<1> HIDE DEF made
<1>7. PICK S : made \in Seq(S)
  BY <1>5 DEF Rooted, IsSeq
<1>8. Len(made) \in DOMAIN made
  BY <1>5, <1>7 DEF Rooted
<1>9. Last(made).name \in Names(made)
  BY <1>8 DEF Names, Last
<1> DEFINE N == {"build"} \union Names(made)
<1>10. Makes(made, {}, N)
  BY <1>4 DEF Makes
<1>11. "build" \in N /\ Last(made).name \in N
  BY <1>9
<1> HIDE DEF N
<1>12. Makes(GetCompressionPipeline(image, Last(made).name), N, N)
  BY <1>11, CompressionMade
<1>13. Makes(DiskImage(image), {}, N)
  BY <1>6, <1>10, <1>12, MakesConcat, Zenon
<1> QED
  BY <1>13, MakesLess

\* The other images of a system that is installed from packages.
LEMMA SystemMade ==
    ASSUME NEW image
    PROVE  /\ Makes(BaseContainer(image), {}, {})
           /\ ~ GetCompressionPipelinePanics(image) => Makes(PXETar(image), {}, {})
           /\ Makes(OSTreeArchive(image), {}, {})
           /\ Makes(OSTreeContainer(image), {}, {})
<1>1. {"build"} \union {"os"} = {"build", "os"}
  OBVIOUS
<1>2. /\ Makes(OSOnly(image), {"build"}, {"build", "os"})
      /\ \A opts : Makes(<<Pipeline("os", "os", "build", Nothing, opts)>>, {"build"}, {"build", "os"})
  BY <1>1, PartsMade
<1>3. Makes(BaseContainer(image), {}, {})
  <2>1. Makes(<<Pipeline("container", "container", "build", Tree("os"), {})>>, {"build", "os"}, {})
    BY MakesTree DEF SpecialKinds
  <2> QED
    BY <1>2, <2>1, BuildMade, MakesConcat, Zenon DEF BaseContainer
<1>4. ASSUME ~ GetCompressionPipelinePanics(image) PROVE Makes(PXETar(image), {}, {})
  <2> DEFINE o == Pipeline("os", "os", "build", Nothing, OSOpts(image) \union {"KernelName", "DracutConf"})
             p == Pipeline("pxe-tree", "pxe-tree", "build", Tree("os"), image.opts \intersect {"Erofs"})
             t == Pipeline("tar", "tar", "build", Tree("pxe-tree"), {})
  <2>1. Makes(<<o>>, {"build"}, {"build", "os"})
    BY <1>2
  <2>2. /\ Makes(<<p>>, {"build", "os"}, {"build", "pxe-tree"})
        /\ Makes(<<t>>, {"build", "pxe-tree"}, {"build", "tar"})
    BY MakesTree DEF SpecialKinds
  <2>3. PXETar(image) = addBuildBootstrapPipelines(image) \o <<o, p, t>> \o GetCompressionPipeline(image, "tar")
    BY Zenon DEF PXETar
  <2> HIDE DEF o, p, t
  <2>4. Makes(<<o, p, t>>, {"build"}, {"build", "tar"})
    BY <2>1, <2>2, Makes3
  <2>5. Makes(GetCompressionPipeline(image, "tar"), {"build", "tar"}, {"build", "tar"})
    BY <1>4, CompressionMade
  <2>6. Makes(PXETar(image), {}, {"build", "tar"})
    BY <2>3, <2>4, <2>5, BuildMade, MakesConcat, Zenon
  <2> QED
    BY <2>6, MakesLess
<1>5. Makes(OSTreeArchive(image), {}, {})
  <2> DEFINE o == Pipeline("os", "os", "build", Nothing,
                           OSOpts(image) \union {"OSTreeRef"}
                             \union (IF "BootContainer" \in image.opts THEN {"Bootupd"} ELSE {}))
             c == Pipeline("ostree-commit", "ostree-commit", "build", Tree("os"), {})
             e == Pipeline("ostree-encapsulate", "ostree-encapsulate", "build", Tree("ostree-commit"), {})
             t == Pipeline("tar", "commit-archive", "build", Tree("ostree-commit"), {})
             last == IF "BootContainer" \in image.opts THEN e ELSE t
  <2>1. Makes(<<o>>, {"build"}, {"build", "os"})
    BY <1>2
  <2>2. /\ Makes(<<c>>, {"build", "os"}, {"build", "ostree-commit"})
        /\ Makes(<<e>>, {"build", "ostree-commit"}, {}) /\ Makes(<<t>>, {"build", "ostree-commit"}, {})
    BY MakesTree DEF SpecialKinds
  <2>3. OSTreeArchive(image) = addBuildBootstrapPipelines(image) \o <<o, c, last>>
    BY Zenon DEF OSTreeArchive
  <2> HIDE DEF o, c, e, t
  <2>4. Makes(<<last>>, {"build", "ostree-commit"}, {})
    BY <2>2, Zenon
  <2> HIDE DEF last
  <2>5. Makes(<<o, c, last>>, {"build"}, {})
    BY <2>1, <2>2, <2>4, Makes3
  <2> QED
    BY <2>3, <2>5, BuildMade, MakesConcat, Zenon
<1>6. Makes(OSTreeContainer(image), {}, {})
  <2> DEFINE o == Pipeline("os", "os", "build", Nothing, OSOpts(image) \union {"OSTreeRef"})
             c == Pipeline("ostree-commit", "ostree-commit", "build", Tree("os"), {})
             s == Pipeline("commit-server", "container-tree", "build", Tree("ostree-commit"), {})
             t == Pipeline("container", "container", "build", Tree("container-tree"), {})
  <2>1. Makes(<<o>>, {"build"}, {"build", "os"})
    BY <1>2
  <2>2. /\ Makes(<<c>>, {"build", "os"}, {"build", "ostree-commit"})
        /\ Makes(<<s>>, {"build", "ostree-commit"}, {"build", "container-tree"})
        /\ Makes(<<t>>, {"build", "container-tree"}, {})
    BY MakesTree DEF SpecialKinds
  <2>3. OSTreeContainer(image) = addBuildBootstrapPipelines(image) \o <<o, c, s, t>>
    BY Zenon DEF OSTreeContainer
  <2> HIDE DEF o, c, s, t
  <2>4. Makes(<<o, c, s, t>>, {"build"}, {})
    BY <2>1, <2>2, Makes4
  <2> QED
    BY <2>3, <2>4, BuildMade, MakesConcat, Zenon
<1> QED
  BY <1>3, <1>4, <1>5, <1>6

\* The disk of a bootable container, which may be built with another one.
LEMMA BootcMade ==
    ASSUME NEW image, NEW opts
    PROVE  Makes(BootcBuild(image) \o BootcRaw(image, opts), {}, {"build", "image"})
<1> DEFINE t == [target |-> "target"]
           p == Pipeline("raw-bootc", "image", "build", t, opts)
           q == Pipeline("raw-bootc", "image", "build", Nothing, opts)
<1>1. BootcRaw(image, opts) = IF "BuildContainer" \in image.opts THEN <<p>> ELSE <<q>>
  BY DEF BootcRaw
<1>2. Makes(<<q>>, {"build"}, {"build", "image"})
  BY MakesPlain DEF PlainKinds
<1>3. Makes(<<p>>, {"build", "target"}, {"build", "image"})
  <2>1. DOMAIN t = {"target"} /\ t.target = "target"
    OBVIOUS
  <2> HIDE DEF t
  <2>2. p.kind = "raw-bootc" /\ p.name = "image" /\ p.build = "build" /\ p.of = t
    BY DEF Pipeline
  <2> HIDE DEF p
  <2>3. Roles(p) = {}
    BY <2>2 DEF Roles, PlainKinds
  <2>4. Sound(p, {"build", "target"})
    BY <2>1, <2>2, <2>3 DEF Sound
  <2> QED
    BY <2>2, <2>4, MakesOne
<1> HIDE DEF p, q
<1>4. CASE "BuildContainer" \in image.opts
  BY <1>1, <1>3, <1>4, BuildMade, MakesConcat, Zenon
<1>5. CASE "BuildContainer" \notin image.opts
  BY <1>1, <1>2, <1>5, BuildMade, MakesConcat, Zenon
<1> QED
  BY <1>4, <1>5

\* Images of a bootable container.
LEMMA ContainerMade ==
    ASSUME NEW image
    PROVE  /\ Makes(BootcDiskImage(image), {}, {})
           /\ ~ GetCompressionPipelinePanics(image) => Makes(BootcPXEImage(image), {}, {})
           /\ Makes(BootcLegacyDiskImage(image), {}, {})
           /\ Makes(ContainerBasedIso(image), {}, {})
<1> DEFINE N == {"build", "image"}
<1>1. Makes(BootcDiskImage(image), {}, {})
  <2> DEFINE q == Pipeline("qcow2", "qcow2", "", Tree("image"), {})
             v == Pipeline("vmdk", "vmdk", "", Tree("image"), {})
             c == Pipeline("vpc", "vpc", "", Tree("image"), {})
             o == Pipeline("ovf", "ovf", "", Tree("vmdk"), {})
             a == Pipeline("tar", "archive", "", Tree("ovf"), {})
             head == BootcBuild(image) \o BootcRaw(image, image.opts)
  <2>1. /\ Makes(<<q>>, N, N) /\ Makes(<<v>>, N, N \union {"vmdk"})
        /\ Makes(<<c>>, N \union {"vmdk"}, N \union {"vmdk"})
        /\ Makes(<<o>>, N \union {"vmdk"}, N \union {"ovf"})
        /\ Makes(<<a>>, N \union {"ovf"}, N)
    BY MakesTree DEF SpecialKinds
  <2>2. Makes(newGCETarPipelineForImg("gce"), N, {})
    BY MakesTree DEF SpecialKinds, newGCETarPipelineForImg
  <2>3. Makes(head, {}, N)
    BY BootcMade
  <2>4. BootcDiskImage(image) = head \o <<q, v, c, o, a>> \o newGCETarPipelineForImg("gce")
    BY Zenon DEF BootcDiskImage
  <2> HIDE DEF q, v, c, o, a, head, N
  <2>5. Makes(<<q, v, c, o, a>>, N, N)
    BY <2>1, Makes5
  <2> QED
    BY <2>2, <2>3, <2>4, <2>5, MakesConcat, Zenon
<1>2. ASSUME ~ GetCompressionPipelinePanics(image) PROVE Makes(BootcPXEImage(image), {}, {})
  <2> DEFINE r == Pipeline("bootc-rootfs", "bootc-rootfs", "build", Tree("image"),
                           image.opts \intersect {"Erofs"})
             p == Pipeline("bootc-pxe-tree", "bootc-pxe-tree", "build", Tree("bootc-rootfs"), {})
             t == Pipeline("tar", "tar", "build", Tree("bootc-pxe-tree"), {})
             head == BootcBuild(image) \o BootcRaw(image, image.opts \union {"LiveBoot"})
  <2>1. /\ Makes(<<r>>, N, N \union {"bootc-rootfs"})
        /\ Makes(<<p>>, N \union {"bootc-rootfs"}, N \union {"bootc-pxe-tree"})
        /\ Makes(<<t>>, N \union {"bootc-pxe-tree"}, {"build", "tar"})
    BY MakesTree DEF SpecialKinds
  <2>2. Makes(GetCompressionPipeline(image, "tar"), {"build", "tar"}, {"build", "tar"})
    BY <1>2, CompressionMade
  <2>3. Makes(head, {}, N)
    BY BootcMade
  <2>4. BootcPXEImage(image) = head \o <<r, p, t>> \o GetCompressionPipeline(image, "tar")
    BY Zenon DEF BootcPXEImage
  <2> HIDE DEF r, p, t, head, N
  <2>5. Makes(<<r, p, t>>, N, {"build", "tar"})
    BY <2>1, Makes3
  <2>6. Makes(BootcPXEImage(image), {}, {"build", "tar"})
    BY <2>2, <2>3, <2>4, <2>5, MakesConcat, Zenon
  <2> QED
    BY <2>6, MakesLess
<1>3. Makes(BootcLegacyDiskImage(image), {}, {})
  <2> DEFINE q == Pipeline("qcow2", "qcow2", "", Tree("image"), {})
             v == Pipeline("vmdk", "vmdk", "", Tree("image"), {})
             o == Pipeline("ovf", "ovf", "", Tree("vmdk"), {})
             a == Pipeline("tar", "archive", "", Tree("ovf"), {})
             opts == (image.opts \intersect {"Users", "RootUser", "Groups", "BadPassword",
                                "PartitionTable", "FAT", "EXT4", "XFS", "LUKS", "UEFI", "BIOS",
                                "TreeBootFiles", "BuildBootFiles"})
                              \union {"FromContainer", "UseBootupd"}
  <2>1. /\ Makes(<<q>>, N, N) /\ Makes(<<v>>, N, N \union {"vmdk"})
        /\ Makes(<<o>>, N \union {"vmdk"}, N \union {"ovf"})
        /\ Makes(<<a>>, N \union {"ovf"}, {})
    BY MakesTree DEF SpecialKinds
  <2>2. {"build"} \union {"image"} = N
    OBVIOUS
  <2>3. BootcLegacyDiskImage(image) = NewBuildFromContainer({}) \o baseRawOstreeImage(opts) \o <<q, v, o, a>>
    BY Zenon DEF BootcLegacyDiskImage
  <2> HIDE DEF q, v, o, a, opts, N
  <2>4. Makes(<<q, v, o, a>>, N, {})
    BY <2>1, Makes4
  <2>5. Makes(baseRawOstreeImage(opts), {"build"}, N)
    BY <2>2, PartsMade
  <2> QED
    BY <2>3, <2>4, <2>5, BuildMade, MakesConcat, Zenon
<1>4. Makes(ContainerBasedIso(image), {}, {})
  <2> DEFINE x == Pipeline("os-from-container", "os-tree", "build", Nothing,
                           image.opts \intersect {"PayloadContainer"})
             e == Pipeline("efi-boot-tree", "efiboot-tree", "build", Nothing, image.opts)
             of == [tree |-> "os-tree", efi |-> "efiboot-tree"]
             t == Pipeline("container-iso-tree", "bootiso-tree", "build", of, image.opts)
             i == Pipeline("iso", "bootiso", "build", Tree("bootiso-tree"), {"Grub2ISO"})
             K == {"build", "os-tree", "efiboot-tree"}
  <2>1. /\ Makes(<<x>>, {"build"}, {"build", "os-tree"})
        /\ Makes(<<e>>, {"build", "os-tree"}, K)
    BY MakesPlain DEF PlainKinds
  <2>2. Makes(<<i>>, {"build", "bootiso-tree"}, {})
    BY MakesTree DEF SpecialKinds
  <2>3. Makes(<<t>>, K, {"build", "bootiso-tree"})
    <3>1. DOMAIN of = {"tree", "efi"} /\ of.tree = "os-tree" /\ of.efi = "efiboot-tree"
      OBVIOUS
    <3> HIDE DEF of
    <3>2. t.kind = "container-iso-tree" /\ t.name = "bootiso-tree" /\ t.build = "build" /\ t.of = of
      BY DEF Pipeline
    <3> HIDE DEF t
    <3>3. Roles(t) = {"tree", "efi"}
      BY <3>2 DEF Roles, PlainKinds
    <3>4. Sound(t, K)
      BY <3>1, <3>2, <3>3 DEF Sound
    <3> QED
      BY <3>2, <3>4, MakesOne
  <2>4. ContainerBasedIso(image) = NewBuildFromContainer({}) \o <<x, e, t, i>>
    BY Zenon DEF ContainerBasedIso
  <2> HIDE DEF x, e, of, t, i, K
  <2>5. Makes(<<x, e, t, i>>, {"build"}, {})
    BY <2>1, <2>2, <2>3, Makes4
  <2> QED
    BY <2>4, <2>5, BuildMade, MakesConcat, Zenon
<1> QED
  BY <1>1, <1>2, <1>3, <1>4

\* Images of a system that is deployed from a commit.
LEMMA DeploymentMade ==
    ASSUME NEW image
    PROVE  /\ ~ GetCompressionPipelinePanics(image) => Makes(OSTreeDiskImage(image), {}, {})
           /\ Makes(OSTreeSimplifiedInstaller(image), {}, {})
<1>1. \A opts : Makes(baseRawOstreeImage(opts), {"build"}, {"build", "image"})
  <2>1. {"build"} \union {"image"} = {"build", "image"}
    OBVIOUS
  <2> QED
    BY <2>1, PartsMade
<1>2. ASSUME ~ GetCompressionPipelinePanics(image) PROVE Makes(OSTreeDiskImage(image), {}, {})
  <2> DEFINE b == <<Pipeline("buildroot", "build", "", Nothing, {})>>
             w == When(image.format \in {"vmdk", "qcow2"}, DiskFormat(image.format))
  <2>1. Makes(b, {}, {"build"})
    BY MakesPlain DEF PlainKinds
  <2>2. Makes(DiskFormat(image.format), {"build", "image"}, {"build", "image"})
    BY FormatMade
  <2>3. Makes(w, {"build", "image"}, {"build", "image"})
    BY <2>2, MakesWhen
  <2>4. Makes(GetCompressionPipeline(image, "image"), {"build", "image"}, {"build", "image"})
    BY <1>2, CompressionMade
  <2>5. OSTreeDiskImage(image) = b \o baseRawOstreeImage(image.opts) \o w
                                   \o GetCompressionPipeline(image, "image")
    BY Zenon DEF OSTreeDiskImage
  <2> HIDE DEF b, w
  <2>6. Makes(OSTreeDiskImage(image), {}, {"build", "image"})
    BY <1>1, <2>1, <2>3, <2>4, <2>5, MakesConcat, Zenon
  <2> QED
    BY <2>6, MakesLess
<1>3. Makes(OSTreeSimplifiedInstaller(image), {}, {})
  <2> DEFINE arch == image.opts \intersect {"AARCH64", "S390X", "PPC64LE", "BadArch"}
             opts == {"KernelName"} \union arch
                       \union (image.opts \intersect {"FDOCerts", "IgnitionEmbedded", "IgnitionConfig",
                                                      "RPMKeys", "KernelMissing", "Biosdevname"})
             x == Pipeline("xz", "xz", "build", Tree("image"), {})
             c == Pipeline("coi", "coi-tree", "build", Nothing, opts)
             e == Pipeline("efi-boot-tree", "efiboot-tree", "build", Nothing, arch)
             of == [tree |-> "xz", coi |-> "coi-tree", efi |-> "efiboot-tree"]
             topts == IF arch = {} THEN {"ISOLinux"} ELSE {}
             t == Pipeline("coi-iso-tree", "bootiso-tree", "build", of, topts)
             i == Pipeline("iso", "bootiso", "build", Tree("bootiso-tree"),
                           image.opts \intersect {"Syslinux", "Grub2ISO"})
             J == {"build", "xz", "coi-tree"}
             K == {"build", "xz", "coi-tree", "efiboot-tree"}
  <2>1. Makes(<<x>>, {"build", "image"}, {"build", "xz"})
    BY MakesTree DEF SpecialKinds
  <2>2. Makes(<<c>>, {"build", "xz"}, J) /\ Makes(<<e>>, J, K)
    <3> HIDE DEF opts, arch
    <3> QED
      BY MakesPlain DEF PlainKinds
  <2>3. Makes(<<i>>, {"build", "bootiso-tree"}, {})
    BY MakesTree DEF SpecialKinds
  <2>4. Makes(<<t>>, K, {"build", "bootiso-tree"})
    <3>1. DOMAIN of = {"tree", "coi", "efi"} /\ of.tree = "xz" /\ of.coi = "coi-tree" /\ of.efi = "efiboot-tree"
      OBVIOUS
    <3> HIDE DEF of, topts
    <3>2. t.kind = "coi-iso-tree" /\ t.name = "bootiso-tree" /\ t.build = "build" /\ t.of = of
      BY DEF Pipeline
    <3> HIDE DEF t
    <3>3. Roles(t) = {"tree", "coi", "efi"}
      BY <3>2 DEF Roles, PlainKinds
    <3>4. Sound(t, K)
      BY <3>1, <3>2, <3>3 DEF Sound
    <3> QED
      BY <3>2, <3>4, MakesOne
  <2>5. OSTreeSimplifiedInstaller(image) =
          addBuildBootstrapPipelines(image) \o baseRawOstreeImage(image.opts) \o <<x, c, e, t, i>>
    BY Zenon DEF OSTreeSimplifiedInstaller
  <2> HIDE DEF x, c, e, of, t, i, J, K, arch, opts, topts
  <2>6. Makes(<<x, c, e, t, i>>, {"build", "image"}, {})
    BY <2>1, <2>2, <2>3, <2>4, Makes5
  <2> QED
    BY <1>1, <2>5, <2>6, BuildMade, MakesConcat, Zenon
<1> QED
  BY <1>2, <1>3

\* The tree of an installer's ISO, which points to the installer, to what boots it and to
\* its payload, and the ISO.
LEMMA ISOMade ==
    ASSUME NEW image, NEW more, more \subseteq {"subscription", "os"}, NEW opts, NEW N,
           "build" \in N, "anaconda-tree" \in N,
           UEFIBoot(image) => "efiboot-tree" \in N,
           "SquashfsExt4" \in image.opts => "rootfs-image" \in N,
           more \subseteq N
    PROVE  Makes(ISOPipelines(image, more, opts), N, {})
<1> DEFINE efi == IF UEFIBoot(image) THEN {"efi"} ELSE {}
           rootfs == IF "SquashfsExt4" \in image.opts THEN {"rootfs"} ELSE {}
           D == {"anaconda"} \union efi \union rootfs \union more
           of == [role \in D |-> ISOTreeOf[role]]
           t == Pipeline("anaconda-iso-tree", "bootiso-tree", "build", of, image.opts \union opts)
           i == Pipeline("iso", "bootiso", "build", Tree("bootiso-tree"), image.opts \intersect BootTypes)
<1>1. Makes(<<i>>, {"build", "bootiso-tree"}, {})
  BY MakesTree DEF SpecialKinds
<1>2. ISOPipelines(image, more, opts) = <<t, i>>
  BY Zenon DEF ISOPipelines
<1> HIDE DEF i
<1>3. /\ ISOTreeOf["anaconda"] = "anaconda-tree" /\ ISOTreeOf["efi"] = "efiboot-tree"
      /\ ISOTreeOf["rootfs"] = "rootfs-image" /\ ISOTreeOf["subscription"] = "subscription"
      /\ ISOTreeOf["os"] = "os"
  BY DEF ISOTreeOf
<1>4. DOMAIN of = D /\ \A r \in D : of[r] = ISOTreeOf[r]
  OBVIOUS
<1>5. \A r \in D : ISOTreeOf[r] \in N
  BY <1>3
<1>6. "anaconda" \in D
  OBVIOUS
<1> HIDE DEF of, D
<1>7. t.kind = "anaconda-iso-tree" /\ t.name = "bootiso-tree" /\ t.build = "build" /\ t.of = of
  BY DEF Pipeline
<1> HIDE DEF t
<1>8. Roles(t) = {"anaconda"}
  BY <1>7 DEF Roles, PlainKinds
<1>9. Sound(t, N)
  BY <1>4, <1>5, <1>6, <1>7, <1>8 DEF Sound
<1>10. Makes(<<t>>, N, {"build", "bootiso-tree"})
  BY <1>7, <1>9, MakesOne
<1>11. Makes(<<t, i>>, N, {})
  BY <1>1, <1>10, Makes2
<1> QED
  BY <1>2, <1>11, Zenon

\* An installer and what boots it: everything its ISO may point to is there.
LEMMA InstallerMade ==
    ASSUME NEW image, NEW opts, NEW b, Makes(b, {}, {"build"})
    PROVE  \E N : /\ Makes(b \o AnacondaTree(image, opts) \o ISORootfsImg(image) \o Bootloaders(image), {}, N)
                  /\ "build" \in N /\ "anaconda-tree" \in N
                  /\ UEFIBoot(image) => "efiboot-tree" \in N
                  /\ "SquashfsExt4" \in image.opts => "rootfs-image" \in N
<1> DEFINE A == {"build", "anaconda-tree"}
           rootfs == Pipeline("iso-rootfs", "rootfs-image", "build", Tree("anaconda-tree"), {})
           efi == Pipeline("efi-boot-tree", "efiboot-tree", "build", Nothing, image.opts)
           B == IF "SquashfsExt4" \in image.opts THEN A \union {"rootfs-image"} ELSE A
           N == IF UEFIBoot(image) THEN B \union {"efiboot-tree"} ELSE B
<1>1. Makes(AnacondaTree(image, opts), {"build"}, A)
  <2>1. {"build"} \union {"anaconda-tree"} = {"build", "anaconda-tree"}
    OBVIOUS
  <2>2. Makes(AnacondaTree(image, opts), {"build"}, {"build"} \union {"anaconda-tree"})
    BY PartsMade, Zenon
  <2> QED
    BY <2>1, <2>2, Zenon
<1>2. Makes(<<rootfs>>, A, A \union {"rootfs-image"})
  BY MakesTree DEF SpecialKinds
<1>3. Makes(<<efi>>, B, B \union {"efiboot-tree"})
  BY MakesPlain DEF PlainKinds
<1>4. /\ "build" \in N /\ "anaconda-tree" \in N
      /\ UEFIBoot(image) => "efiboot-tree" \in N
      /\ "SquashfsExt4" \in image.opts => "rootfs-image" \in N
  OBVIOUS
<1>5. /\ ISORootfsImg(image) = IF "SquashfsExt4" \in image.opts THEN <<rootfs>> ELSE << >>
      /\ Bootloaders(image) = IF UEFIBoot(image) THEN <<efi>> ELSE << >>
  BY Zenon DEF ISORootfsImg, Bootloaders, When
<1> HIDE DEF rootfs, efi
<1>6. Makes(ISORootfsImg(image), A, B)
  <2>1. CASE "SquashfsExt4" \in image.opts
    BY <1>2, <1>5, <2>1
  <2>2. CASE "SquashfsExt4" \notin image.opts
    BY <1>5, <2>2, MakesNone
  <2> QED
    BY <2>1, <2>2
<1> HIDE DEF A, B
<1>7. Makes(Bootloaders(image), B, N)
  <2>1. CASE UEFIBoot(image)
    BY <1>3, <1>5, <2>1
  <2>2. CASE ~ UEFIBoot(image)
    BY <1>5, <2>2, MakesNone
  <2> QED
    BY <2>1, <2>2
<1> HIDE DEF N
<1>8. Makes(b \o AnacondaTree(image, opts) \o ISORootfsImg(image) \o Bootloaders(image), {}, N)
  BY <1>1, <1>6, <1>7, MakesConcat, Zenon
<1> QED
  BY <1>4, <1>8, Zenon

\* The installers.
LEMMA InstallersMade ==
    ASSUME NEW image
    PROVE  /\ Makes(AnacondaLiveInstaller(image), {}, {})
           /\ Makes(AnacondaNetInstaller(image), {}, {})
           /\ Makes(AnacondaOSTreeInstaller(image), {}, {})
           /\ Makes(AnacondaTarInstaller(image), {}, {})
           /\ Makes(AnacondaContainerInstaller(image), {}, {})
           /\ Makes(AnacondaContainerInstallerLegacy(image), {}, {})
<1> DEFINE Tools(b, opts) == b \o AnacondaTree(image, opts) \o ISORootfsImg(image) \o Bootloaders(image)
           Ready(N) == /\ "build" \in N /\ "anaconda-tree" \in N
                       /\ UEFIBoot(image) => "efiboot-tree" \in N
                       /\ "SquashfsExt4" \in image.opts => "rootfs-image" \in N
<1>1. ASSUME NEW b, Makes(b, {}, {"build"}), NEW opts PROVE \E N : Makes(Tools(b, opts), {}, N) /\ Ready(N)
  BY <1>1, InstallerMade, Zenon
<1>2. ASSUME NEW more, more \subseteq {"subscription", "os"}, NEW opts, NEW N, Ready(N), more \subseteq N
      PROVE  Makes(ISOPipelines(image, more, opts), N, {})
  BY <1>2, ISOMade, Zenon
<1>3. ASSUME NEW N, Ready(N), NEW K, N \subseteq K PROVE Ready(K)
  BY <1>3
<1> HIDE DEF Ready
<1>4. ASSUME NEW b, Makes(b, {}, {"build"}), NEW opts, NEW isoOpts
      PROVE  Makes(Tools(b, opts) \o ISOPipelines(image, {}, isoOpts), {}, {})
  <2>1. PICK N : Makes(Tools(b, opts), {}, N) /\ Ready(N)
    BY <1>1, <1>4
  <2>2. Makes(ISOPipelines(image, {}, isoOpts), N, {})
    <3>1. {} \subseteq {"subscription", "os"} /\ {} \subseteq N
      OBVIOUS
    <3> QED
      BY <1>2, <2>1, <3>1, Zenon
  <2> HIDE DEF Tools
  <2> QED
    BY <2>1, <2>2, MakesConcat, Zenon
<1> DEFINE build == addBuildBootstrapPipelines(image)
<1>5. Makes(build, {}, {"build"}) /\ Makes(NewBuildFromContainer({}), {}, {"build"})
  BY BuildMade, Zenon
<1>6. /\ Makes(AnacondaLiveInstaller(image), {}, {})
      /\ Makes(AnacondaNetInstaller(image), {}, {})
      /\ Makes(AnacondaContainerInstaller(image), {}, {})
      /\ Makes(AnacondaContainerInstallerLegacy(image), {}, {})
  BY <1>4, <1>5, Zenon DEF AnacondaLiveInstaller, AnacondaNetInstaller, AnacondaContainerInstaller,
                           AnacondaContainerInstallerLegacy
<1>7. ASSUME NEW opts, NEW w, NEW more, more \subseteq {"subscription", "os"}, NEW isoOpts,
             \A N : "build" \in N => Makes(w, N, N \union more)
      PROVE  Makes(Tools(build, opts) \o w \o ISOPipelines(image, more, isoOpts), {}, {})
  <2>1. PICK N : Makes(Tools(build, opts), {}, N) /\ Ready(N)
    BY <1>1, <1>5
  <2>2. "build" \in N
    BY <2>1 DEF Ready
  <2> DEFINE K == N \union more
  <2>3. Makes(w, N, K)
    BY <1>7, <2>2
  <2>4. more \subseteq K /\ N \subseteq K
    OBVIOUS
  <2> HIDE DEF K
  <2>5. Makes(ISOPipelines(image, more, isoOpts), K, {})
    BY <1>2, <1>3, <1>7, <2>1, <2>4
  <2> HIDE DEF Tools
  <2> QED
    BY <2>1, <2>3, <2>5, MakesConcat, Zenon
<1>8. Makes(AnacondaOSTreeInstaller(image), {}, {})
  <2> DEFINE more == IF "Subscription" \in image.opts THEN {"subscription"} ELSE {}
             s == Pipeline("subscription", "subscription", "build", Nothing, image.opts)
             w == When("Subscription" \in image.opts, <<s>>)
             opts == {"Payload", "KernelName"}
                       \union (IF "PayloadRootfs" \in image.opts THEN {"AnacondaCommit"} ELSE {})
             isoOpts == IF "PayloadRootfs" \in image.opts THEN {} ELSE {"ISOCommit"}
  <2>1. ASSUME NEW N, "build" \in N PROVE Makes(w, N, N \union more)
    <3>1. CASE "Subscription" \in image.opts
      <4>1. Makes(<<s>>, N, N \union {"subscription"})
        BY <2>1, MakesPlain DEF PlainKinds
      <4> HIDE DEF s
      <4> QED
        BY <3>1, <4>1 DEF When
    <3>2. CASE "Subscription" \notin image.opts
      BY <3>2, MakesNone DEF When
    <3> QED
      BY <3>1, <3>2
  <2>2. more \subseteq {"subscription", "os"}
    OBVIOUS
  <2>3. AnacondaOSTreeInstaller(image) = Tools(build, opts) \o w \o ISOPipelines(image, more, isoOpts)
    BY Zenon DEF AnacondaOSTreeInstaller
  <2> HIDE DEF more, w, opts, isoOpts, Tools
  <2> QED
    BY <1>7, <2>1, <2>2, <2>3, Zenon
<1>9. Makes(AnacondaTarInstaller(image), {}, {})
  <2> DEFINE w == <<Pipeline("os", "os", "build", Nothing, OSOpts(image))>>
             more == {"os"}
             opts == {"Payload", "KernelName"}
             isoOpts == {"Kickstart"}
  <2>1. ASSUME NEW N, "build" \in N PROVE Makes(w, N, N \union more)
    BY <2>1, PartsMade, Zenon
  <2>2. more \subseteq {"subscription", "os"}
    OBVIOUS
  <2>3. AnacondaTarInstaller(image) = Tools(build, opts) \o w \o ISOPipelines(image, more, isoOpts)
    BY Zenon DEF AnacondaTarInstaller
  <2> HIDE DEF more, w, opts, isoOpts, Tools
  <2> QED
    BY <1>7, <2>1, <2>2, <2>3, Zenon
<1> QED
  BY <1>6, <1>8, <1>9, Zenon

\* Whatever the image, its manifest is put together from the front: a pipeline is built
\* in a pipeline that is there before it, and points only to such.
LEMMA ManifestMade ==
    ASSUME NEW image, ~ InstantiateManifestPanics(image)
    PROVE  Makes(InstantiateManifest(image), {}, {})
<1>1. image.kind \in Compressed => ~ GetCompressionPipelinePanics(image)
  BY Zenon DEF InstantiateManifestPanics
<1>2. Compressed = {"archive", "disk", "pxe-tar", "bootc-pxe", "ostree-disk"}
  BY DEF Compressed
<1>3. /\ image.kind = "archive" => Makes(Archive(image), {}, {})
      /\ image.kind = "disk" => Makes(DiskImage(image), {}, {})
      /\ image.kind = "pxe-tar" => Makes(PXETar(image), {}, {})
      /\ image.kind = "bootc-pxe" => Makes(BootcPXEImage(image), {}, {})
      /\ image.kind = "ostree-disk" => Makes(OSTreeDiskImage(image), {}, {})
  BY <1>1, <1>2, ArchiveMade, DiskMade, SystemMade, ContainerMade, DeploymentMade
<1> QED
  BY <1>3, SystemMade, ContainerMade, DeploymentMade, InstallersMade DEF InstantiateManifest

-----------------------------------------------------------------------------
(* The inductive invariant of the references.                              *)

\* What the stages of a pipeline may read.
Refs(p) == {p.build} \union {p.of[r] : r \in DOMAIN p.of}

\* The pipelines are those of the image, and point to what is there before them.
Linked ==
    \A i \in DOMAIN pipelines :
        pipelines[i] = InstantiateManifest(img)[i] /\ Sound(pipelines[i], Known(pipelines, i))

\* The steps at which nothing has been serialized.
Silent == Early \union Resolving \union {"start"}

\* What has been serialized are the first pipelines, in their order.
Emitted ==
    /\ IsSeq(out) /\ Len(out) <= Len(pipelines)
    /\ pc \in Silent => out = << >>
    /\ pc = "serialize" => Len(out) = idx - 1
    /\ \A i \in DOMAIN out :
         /\ out[i].name = pipelines[i].name /\ out[i].build = pipelines[i].build
         /\ Within(out[i].stages, Refs(pipelines[i]))

ResolveInv == AbortInv /\ Linked /\ Emitted

\* The length and the domain of a sequence.
LEMMA SeqLen == ASSUME NEW s, IsSeq(s) PROVE Len(s) \in Nat /\ DOMAIN s = 1 .. Len(s)
  BY DEF IsSeq

LEMMA ResolveInit == ASSUME Init PROVE ResolveInv
<1>1. pipelines = << >> /\ out = << >> /\ pc \in {"check", "instantiate"}
  BY DEF Init
<1>2. IsSeq(<< >>) /\ Len(<< >>) = 0 /\ \A i \in DOMAIN << >> : FALSE
  <2>1. IsSeq(<< >>)
    BY Short
  <2> QED
    BY <2>1
<1>3. Linked /\ Emitted
  BY <1>1, <1>2 DEF Linked, Emitted, Silent, Early, Resolving
<1> QED
  BY <1>3, AbortInit DEF ResolveInv

\* A step that adds no pipeline and serializes none.
LEMMA Quiet ==
    ASSUME ResolveInv, AbortInv', UNCHANGED <<img, pipelines, out>>,
           pc' \in Silent => pc \in Silent,
           pc' = "serialize" => \/ pc = "serialize" /\ idx' = idx
                                \/ pc = "start" /\ idx' = 1
    PROVE  ResolveInv'
<1>1. Linked'
  BY DEF ResolveInv, Linked
<1>2. pc' \in Silent => out' = << >>
  BY DEF ResolveInv, Emitted
<1>3. pc' = "serialize" => Len(out') = idx' - 1
  <2>1. CASE pc = "serialize" /\ idx' = idx
    BY <2>1 DEF ResolveInv, Emitted
  <2>2. CASE pc = "start" /\ idx' = 1
    <3>1. out' = << >>
      BY <2>2 DEF ResolveInv, Emitted, Silent
    <3> QED
      BY <2>2, <3>1
  <2> QED
    BY <2>1, <2>2
<1>4. Emitted'
  BY <1>2, <1>3 DEF ResolveInv, Emitted
<1> QED
  BY <1>1, <1>4 DEF ResolveInv

\* addPipeline: the next pipeline of the image, which knows those before it.
LEMMA ResolveAdd == ASSUME ResolveInv, AbortInv', addPipeline PROVE ResolveInv'
<1> DEFINE M == InstantiateManifest(img)
<1>1. /\ pc = "instantiate" /\ ~ InstantiateManifestPanics(img) /\ idx <= Len(M)
      /\ UNCHANGED <<img, out>>
      /\ \/ pc' = "panicked" /\ pipelines' = pipelines
         \/ pc' = pc /\ pipelines' = Append(pipelines, M[idx])
  BY Zenon DEF addPipeline
<1>2. Makes(M, {}, {})
  BY <1>1, ManifestMade
<1> HIDE DEF M
<1>3. IsSeq(M) /\ \A i \in DOMAIN M : Sound(M[i], {} \union Known(M, i))
  BY <1>2 DEF Makes
<1>4. Len(M) \in Nat /\ DOMAIN M = 1 .. Len(M)
  BY <1>3, SeqLen
<1>5. IsSeq(pipelines) /\ idx = Len(pipelines) + 1 /\ idx \in Nat \ {0}
  BY <1>1 DEF ResolveInv, AbortInv, Shape
<1>6. out = << >> /\ out' = << >>
  BY <1>1 DEF ResolveInv, Emitted, Silent, Early
<1>7. CASE pc' = "panicked" /\ pipelines' = pipelines
  BY <1>1, <1>7, Quiet DEF Silent, Early, Resolving
<1>8. CASE pc' = pc /\ pipelines' = Append(pipelines, M[idx])
  <2>1. PICK S : pipelines \in Seq(S)
    BY <1>5 DEF IsSeq
  <2>2. pipelines \in Seq(S \union {M[idx]})
    BY <2>1, SeqUnion
  <2>3. /\ Len(pipelines') = idx /\ DOMAIN pipelines' = 1 .. idx
        /\ \A i \in DOMAIN pipelines : pipelines'[i] = pipelines[i]
        /\ pipelines'[idx] = M[idx] /\ DOMAIN pipelines = 1 .. (idx - 1)
    BY <1>5, <1>8, <2>2
  <2>4. \A i \in DOMAIN pipelines' : pipelines'[i] = M[i]
    BY <1>5, <2>3 DEF ResolveInv, Linked, M
  <2>5. ASSUME NEW i \in DOMAIN pipelines' PROVE Sound(pipelines'[i], Known(pipelines', i))
    <3>1. i \in DOMAIN M
      BY <1>1, <1>4, <1>5, <2>3
    <3>2. \A j \in 1 .. (i - 1) : pipelines'[j] = M[j]
      BY <1>5, <2>3, <2>4
    <3>3. Known(pipelines', i) = {} \union Known(M, i)
      BY <3>2 DEF Known
    <3> QED
      BY <1>3, <2>4, <3>1, <3>3
  <2>6. Linked'
    BY <1>1, <2>4, <2>5 DEF Linked, M
  <2>7. Emitted'
    <3>1. IsSeq(<< >>)
      BY Short
    <3>2. Len(<< >>) = 0 /\ \A i \in DOMAIN << >> : FALSE
      OBVIOUS
    <3> QED
      BY <1>1, <1>5, <1>6, <1>8, <2>3, <3>1, <3>2 DEF Emitted
  <2> QED
    BY <2>6, <2>7 DEF ResolveInv
<1> QED
  BY <1>1, <1>7, <1>8

\* serialize: what the stages of the pipeline read is what it points to.
LEMMA ResolveSerialize == ASSUME ResolveInv, AbortInv', SerializePipeline PROVE ResolveInv'
<1> DEFINE p == pipelines[idx]
           hashed == [mem EXCEPT ![p.name].hashed = world]
           stages == serialize(p, pipelines, hashed)
           e == [name |-> p.name, build |-> p.build, stages |-> stages]
<1>1. /\ pc = "serialize" /\ idx <= Len(pipelines) /\ UNCHANGED <<img, pipelines>>
      /\ \/ pc' \in {"failed", "panicked"} /\ out' = out
         \/ /\ ~ serializeFails(p, pipelines, mem)
            /\ pc' = pc /\ out' = Append(out, e) /\ idx' = idx + 1
  BY DEF SerializePipeline
<1>2. CASE pc' \in {"failed", "panicked"} /\ out' = out
  BY <1>1, <1>2, Quiet DEF Silent, Early, Resolving
<1>3. CASE /\ ~ serializeFails(p, pipelines, mem)
           /\ pc' = pc /\ out' = Append(out, e) /\ idx' = idx + 1
  <2>1. /\ Len(out) = idx - 1 /\ IsSeq(out) /\ idx \in Nat \ {0} /\ IsSeq(pipelines)
        /\ Len(pipelines) \in Nat /\ DOMAIN pipelines = 1 .. Len(pipelines)
    BY <1>1, SeqLen DEF ResolveInv, Emitted, AbortInv, Shape
  <2>2. idx \in DOMAIN pipelines /\ Sound(p, Known(pipelines, idx))
    BY <1>1, <2>1 DEF ResolveInv, Linked
  <2>3. \A r \in DOMAIN p.of : \E j \in DOMAIN pipelines : pipelines[j].name = p.of[r]
    <3>1. 1 .. (idx - 1) \subseteq DOMAIN pipelines
      BY <1>1, <2>1
    <3> QED
      BY <2>2, <3>1 DEF Sound, Known
  <2>4. \A r \in DOMAIN p.of : Named(pipelines, p.of[r]).name = p.of[r]
    BY <2>3 DEF Named
  <2>5. /\ p.name \in DOMAIN mem /\ DOMAIN mem[p.name] = ObjectFields
        /\ \A r \in DOMAIN p.of : p.of[r] \in DOMAIN mem
    BY <2>2, <2>3 DEF ResolveInv, AbortInv, Shape, Objects
  <2>6. \A n \in DOMAIN mem : hashed[n].in = mem[n].in
    BY <2>5 DEF ObjectFields
  <2>7. p.kind = "anaconda-iso-tree" => p.of.anaconda \in DOMAIN mem
    <3>1. p.kind = "anaconda-iso-tree" => "anaconda" \in DOMAIN p.of
      BY <2>2 DEF Sound, Roles, PlainKinds
    <3> QED
      BY <2>5, <3>1
  <2>8. Roles(p) \subseteq DOMAIN p.of
    BY <2>2 DEF Sound
  <2>9. p.build \in Refs(p) /\ \A r \in DOMAIN p.of : p.of[r] \in Refs(p)
    BY DEF Refs
  <2> HIDE DEF p, hashed
  <2>10. Within(stages, Refs(p))
    BY <1>3, <2>4, <2>5, <2>6, <2>7, <2>8, <2>9, SerializeReads
  <2>11. e.name = p.name /\ e.build = p.build /\ e.stages = stages
    OBVIOUS
  <2> HIDE DEF e, stages
  <2>12. PICK S : out \in Seq(S)
    BY <2>1 DEF IsSeq
  <2>13. out \in Seq(S \union {e})
    BY <2>12, SeqUnion
  <2>14. /\ out' \in Seq(S \union {e}) /\ Len(out') = idx /\ DOMAIN out' = 1 .. idx
         /\ \A i \in DOMAIN out : out'[i] = out[i]
         /\ out'[idx] = e /\ DOMAIN out = 1 .. (idx - 1)
    BY <1>3, <2>1, <2>13
  <2>15. IsSeq(out')
    BY <2>14 DEF IsSeq
  <2>16. ASSUME NEW i \in DOMAIN out'
         PROVE  /\ out'[i].name = pipelines[i].name /\ out'[i].build = pipelines[i].build
                /\ Within(out'[i].stages, Refs(pipelines[i]))
    <3>1. CASE i = idx
      BY <2>10, <2>11, <2>14, <3>1 DEF p
    <3>2. CASE i # idx
      <4>1. i \in DOMAIN out /\ out'[i] = out[i]
        BY <2>1, <2>14, <3>2
      <4> QED
        BY <4>1 DEF ResolveInv, Emitted
    <3> QED
      BY <3>1, <3>2
  <2>17. Emitted'
    BY <1>1, <1>3, <2>1, <2>14, <2>15, <2>16 DEF Emitted, Silent, Early, Resolving
  <2>18. Linked'
    BY <1>1 DEF ResolveInv, Linked
  <2> QED
    BY <2>17, <2>18 DEF ResolveInv
<1> QED
  BY <1>1, <1>2, <1>3

\* The steps before there are pipelines, and another round, which forgets what was serialized.
LEMMA ResolveMade ==
    ASSUME ResolveInv, AbortInv', checkOptions \/ MakeImage \/ Instantiated \/ GenerateAgain
    PROVE  ResolveInv'
<1>1. CASE checkOptions \/ Instantiated
  BY <1>1, Quiet DEF checkOptions, Instantiated, Stop, Silent, Early, Resolving
<1>2. CASE MakeImage
  <2>1. /\ pc = "image" /\ UNCHANGED <<pipelines, out>>
        /\ pc' \in {"refused", "panicked", "check", "instantiate"}
    BY <1>2 DEF MakeImage, Stop
  <2>2. Len(pipelines) = 0 /\ IsSeq(pipelines)
    BY <2>1 DEF ResolveInv, AbortInv, Shape
  <2>3. DOMAIN pipelines = {}
    BY <2>2, SeqLen
  <2>4. Linked'
    BY <2>1, <2>3 DEF Linked
  <2>5. out' = << >>
    BY <2>1 DEF ResolveInv, Emitted, Silent, Early
  <2>6. Emitted'
    BY <2>1, <2>5 DEF ResolveInv, Emitted
  <2> QED
    BY <2>4, <2>6 DEF ResolveInv
<1>3. CASE GenerateAgain
  <2>1. UNCHANGED <<img, pipelines>> /\ out' = << >> /\ pc' = "chains"
    BY <1>3 DEF GenerateAgain
  <2>2. IsSeq(<< >>) /\ Len(<< >>) = 0 /\ \A i \in DOMAIN << >> : FALSE
    <3>1. IsSeq(<< >>)
      BY Short
    <3> QED
      BY <3>1
  <2>3. Len(pipelines) \in Nat
    BY SeqLen DEF ResolveInv, AbortInv
  <2>4. Emitted'
    BY <2>1, <2>2, <2>3 DEF Emitted
  <2> QED
    BY <2>1, <2>4 DEF ResolveInv, Linked
<1> QED
  BY <1>1, <1>2, <1>3

\* Every other step.
LEMMA ResolveRest ==
    ASSUME ResolveInv, AbortInv',
           \/ GetPackageSetChains \/ Depsolve \/ ResolveContainers \/ CheckContainerArch
           \/ ResolveCommits \/ ResolveFlatpaks \/ ResolutionFails
           \/ SerializeStart \/ Started \/ HostFileGone \/ Serialized
           \/ SerializeEnd \/ Ended \/ GenSources \/ GenSourcesFails
           \/ Publish \/ UNCHANGED vars
    PROVE  ResolveInv'
<1>1. CASE GetPackageSetChains \/ Depsolve \/ ResolveContainers \/ CheckContainerArch
           \/ ResolveCommits \/ ResolveFlatpaks \/ ResolutionFails
  <2>1. UNCHANGED <<img, pipelines, out>> /\ pc \in Resolving
        /\ pc' \in Resolving \union {"start", "failed"}
    BY <1>1 DEF GetPackageSetChains, Depsolve, ResolveContainers, CheckContainerArch, ResolveCommits,
                ResolveFlatpaks, ResolutionFails, Stop, Resolving
  <2> QED
    BY <2>1, Quiet DEF Silent, Resolving
<1>2. CASE SerializeStart \/ Started
  <2>1. UNCHANGED <<img, pipelines, out>> /\ pc = "start"
        /\ \/ pc' \in {"start", "failed"}
           \/ pc' = "serialize" /\ idx' = 1
    BY <1>2 DEF SerializeStart, Started
  <2> QED
    BY <2>1, Quiet DEF Silent
<1>3. CASE HostFileGone \/ Serialized \/ SerializeEnd \/ Ended \/ GenSources \/ GenSourcesFails
  <2>1. UNCHANGED <<img, pipelines, out>> /\ pc' \in {"panicked", "end", "sources", "failed", "done"}
    BY <1>3 DEF HostFileGone, Serialized, SerializeEnd, Ended, GenSources, GenSourcesFails, Stop
  <2> QED
    BY <2>1, Quiet DEF Silent, Early, Resolving
<1>4. CASE Publish \/ UNCHANGED vars
  <2>1. UNCHANGED <<img, pipelines, out, pc, idx>>
    BY <1>4 DEF Publish, vars
  <2> QED
    BY <2>1, Quiet
<1> QED
  BY <1>1, <1>2, <1>3, <1>4

\* What the stages read is there before.
LEMMA ResolveImplied == ASSUME ResolveInv PROVE ReferencesResolve
<1> SUFFICES ASSUME NEW i \in DOMAIN out
             PROVE  /\ out[i].build \in Before(i) \union {""}
                    /\ \A k \in DOMAIN out[i].stages : \A n \in out[i].stages[k].in :
                         n \in Before(i) \/ (n = "" /\ out[i].build = "")
  BY DEF ReferencesResolve
<1> DEFINE p == pipelines[i]
<1>1. /\ DOMAIN out = 1 .. Len(out) /\ Len(out) \in Nat /\ Len(out) <= Len(pipelines)
      /\ DOMAIN pipelines = 1 .. Len(pipelines) /\ Len(pipelines) \in Nat
  BY SeqLen DEF ResolveInv, Emitted, AbortInv
<1>2. i \in DOMAIN pipelines /\ \A j \in 1 .. (i - 1) : j \in DOMAIN out
  BY <1>1
<1>3. Sound(p, Known(pipelines, i))
  BY <1>2 DEF ResolveInv, Linked
<1>4. \A j \in 1 .. (i - 1) : out[j].name = pipelines[j].name
  BY <1>2 DEF ResolveInv, Emitted
<1>5. Known(pipelines, i) = Before(i)
  BY <1>4 DEF Known, Before
<1>6. out[i].build = p.build /\ Within(out[i].stages, Refs(p))
  BY DEF ResolveInv, Emitted
<1> HIDE DEF p
<1>7. p.build \in Before(i) \union {""} /\ \A r \in DOMAIN p.of : p.of[r] \in Before(i)
  BY <1>3, <1>5 DEF Sound
<1>8. ASSUME NEW k \in DOMAIN out[i].stages, NEW n \in out[i].stages[k].in
      PROVE  n \in Before(i) \/ (n = "" /\ out[i].build = "")
  <2>1. n \in Refs(p)
    BY <1>6 DEF Within, Reads
  <2> QED
    BY <1>6, <1>7, <2>1 DEF Refs
<1> QED
  BY <1>6, <1>7, <1>8

\* ReferencesResolve holds for every image type and image, any calls before, and any number
\* of serializations: osbuild finds the build root of every pipeline, and every tree its
\* stages read, among the pipelines that come before it.
THEOREM Resolved == Spec => []ReferencesResolve
<1>1. ResolveInv /\ [Next]_vars => ResolveInv'
  <2>1. ResolveInv /\ [Next]_vars => AbortInv'
    BY AbortStep DEF ResolveInv
  <2> QED
    BY <2>1, ResolveAdd, ResolveSerialize, ResolveMade, ResolveRest DEF Next
<1> QED
  BY ResolveInit, <1>1, ResolveImplied, PTL DEF Spec

-----------------------------------------------------------------------------
(* The order of the stages.  What matters of a stage is whether it is one  *)
(* of those whose place is fixed.                                          *)

\* The parts of a concatenation.
LEMMA Joined ==
    ASSUME NEW s, NEW t, IsSeq(s), IsSeq(t)
    PROVE  /\ IsSeq(s \o t) /\ Len(s) \in Nat /\ Len(t) \in Nat /\ Len(s \o t) = Len(s) + Len(t)
           /\ DOMAIN s = 1 .. Len(s) /\ DOMAIN t = 1 .. Len(t) /\ DOMAIN (s \o t) = 1 .. (Len(s) + Len(t))
           /\ \A i \in 1 .. Len(s) : (s \o t)[i] = s[i]
           /\ \A i \in 1 .. Len(t) : (s \o t)[Len(s) + i] = t[i]
<1>1. PICK S : s \in Seq(S)
  BY DEF IsSeq
<1>2. PICK R : t \in Seq(R)
  BY DEF IsSeq
<1> DEFINE U == S \union R
<1>3. s \in Seq(U) /\ t \in Seq(R \union S)
  BY <1>1, <1>2, SeqUnion
<1>4. R \union S = U
  OBVIOUS
<1> HIDE DEF U
<1>5. s \in Seq(U) /\ t \in Seq(U)
  BY <1>3, <1>4
<1>6. /\ s \o t \in Seq(U) /\ Len(s \o t) = Len(s) + Len(t)
      /\ \A i \in 1 .. Len(s) + Len(t) : (s \o t)[i] = IF i <= Len(s) THEN s[i] ELSE t[i - Len(s)]
  BY <1>5, ConcatProperties
<1> QED
  BY <1>5, <1>6 DEF IsSeq

\* The stages whose place TreeOrder fixes, by type.
Placed == {"rpm", "selinux", "systemd", "systemd.unit.create"}

\* The stage s is of none of the types in T.
Other(s, T) == s.type \notin T

\* Nor is any stage of a sequence.
Lacks(s, T) == IsSeq(s) /\ \A k \in DOMAIN s : Other(s[k], T)

LEMMA LacksEmpty == ASSUME NEW T PROVE Lacks(<< >>, T)
<1>1. IsSeq(<< >>)
  BY Short
<1>2. \A k \in DOMAIN << >> : FALSE
  OBVIOUS
<1> QED
  BY <1>1, <1>2, Zenon DEF Lacks

LEMMA Lacks1 == ASSUME NEW T, NEW a, Other(a, T) PROVE Lacks(<<a>>, T)
<1>1. IsSeq(<<a>>)
  BY Short
<1>2. \A k \in DOMAIN <<a>> : <<a>>[k] = a
  OBVIOUS
<1> QED
  BY <1>1, <1>2, Zenon DEF Lacks

LEMMA LacksConcat ==
    ASSUME NEW T, NEW s, NEW t, Lacks(s, T), Lacks(t, T)
    PROVE  Lacks(s \o t, T)
<1>1. IsSeq(s) /\ IsSeq(t)
  BY DEF Lacks
<1>2. ASSUME NEW k \in DOMAIN (s \o t) PROVE Other((s \o t)[k], T)
  <2>1. CASE k \in 1 .. Len(s)
    <3>1. (s \o t)[k] = s[k] /\ k \in DOMAIN s
      BY <1>1, <2>1, Joined
    <3> QED
      BY <3>1 DEF Lacks
  <2>2. CASE k \notin 1 .. Len(s)
    <3> DEFINE i == k - Len(s)
    <3>1. i \in 1 .. Len(t) /\ k = Len(s) + i
      BY <1>1, <2>2, Joined
    <3> HIDE DEF i
    <3>2. (s \o t)[k] = t[i] /\ i \in DOMAIN t
      BY <1>1, <3>1, Joined
    <3> QED
      BY <3>2 DEF Lacks
  <2> QED
    BY <2>1, <2>2
<1> QED
  BY <1>1, <1>2, Joined DEF Lacks

LEMMA LacksWhen == ASSUME NEW T, NEW c, NEW s, c => Lacks(s, T) PROVE Lacks(When(c, s), T)
  BY LacksEmpty DEF When

\* Stages written out one after the other.
LEMMA Lacks2 ==
    ASSUME NEW T, NEW a, NEW b, Other(a, T), Other(b, T)
    PROVE  Lacks(<<a, b>>, T)
<1>1. IsSeq(<<a, b>>)
  BY Short
<1>2. \A k \in DOMAIN <<a, b>> : <<a, b>>[k] \in {a, b}
  OBVIOUS
<1>3. \A x \in {a, b} : Other(x, T)
  OBVIOUS
<1> QED
  BY <1>1, <1>2, <1>3, Zenon DEF Lacks

LEMMA Lacks3 ==
    ASSUME NEW T, NEW a, NEW b, NEW c, Other(a, T), Other(b, T), Other(c, T)
    PROVE  Lacks(<<a, b, c>>, T)
<1>1. IsSeq(<<a, b, c>>)
  BY Short
<1>2. \A k \in DOMAIN <<a, b, c>> : <<a, b, c>>[k] \in {a, b, c}
  OBVIOUS
<1>3. \A x \in {a, b, c} : Other(x, T)
  OBVIOUS
<1> QED
  BY <1>1, <1>2, <1>3, Zenon DEF Lacks

LEMMA Lacks4 ==
    ASSUME NEW T, NEW a, NEW b, NEW c, NEW d, Other(a, T), Other(b, T), Other(c, T), Other(d, T)
    PROVE  Lacks(<<a, b, c, d>>, T)
<1>1. IsSeq(<<a, b, c, d>>)
  BY Short
<1>2. \A k \in DOMAIN <<a, b, c, d>> : <<a, b, c, d>>[k] \in {a, b, c, d}
  OBVIOUS
<1>3. \A x \in {a, b, c, d} : Other(x, T)
  OBVIOUS
<1> QED
  BY <1>1, <1>2, <1>3, Zenon DEF Lacks

LEMMA Lacks5 ==
    ASSUME NEW T, NEW a, NEW b, NEW c, NEW d, NEW e,
           Other(a, T), Other(b, T), Other(c, T), Other(d, T), Other(e, T)
    PROVE  Lacks(<<a, b, c, d, e>>, T)
<1>1. IsSeq(<<a, b, c, d, e>>)
  BY Short
<1>2. \A k \in DOMAIN <<a, b, c, d, e>> : <<a, b, c, d, e>>[k] \in {a, b, c, d, e}
  OBVIOUS
<1>3. \A x \in {a, b, c, d, e} : Other(x, T)
  OBVIOUS
<1> QED
  BY <1>1, <1>2, <1>3, Zenon DEF Lacks

LEMMA Lacks6 ==
    ASSUME NEW T, NEW a, NEW b, NEW c, NEW d, NEW e, NEW f,
           Other(a, T), Other(b, T), Other(c, T), Other(d, T), Other(e, T), Other(f, T)
    PROVE  Lacks(<<a, b, c, d, e, f>>, T)
<1>1. <<a, b, c, d, e, f>> = <<a, b, c>> \o <<d, e, f>>
  OBVIOUS
<1>2. Lacks(<<a, b, c>>, T) /\ Lacks(<<d, e, f>>, T)
  BY Lacks3
<1> QED
  BY <1>1, <1>2, LacksConcat

\* An optional stage.
LEMMA OptLacks == ASSUME NEW T, NEW c, NEW o, NEW s, Other(s, T) PROVE Lacks(Opt(c, o, s), T)
  BY Lacks1, LacksWhen DEF Opt

\* The stages that have no fixed place.
LEMMA PlainOther ==
    ASSUME NEW T \in SUBSET Placed
    PROVE  /\ Other(NewChmodStage, T) /\ Other(NewChownStage, T) /\ Other(NewMkdirStage, T)
           /\ Other(NewTruncateStage, T) /\ Other(NewTmpfilesdStage, T) /\ Other(NewDNF4VersionlockStage, T)
           /\ Other(NewDNFAutomaticConfigStage, T) /\ Other(NewDNFConfigStage, T)
           /\ Other(NewDNFModuleConfigStage, T) /\ Other(NewYumConfigStage, T) /\ Other(NewYumReposStage, T)
           /\ Other(NewAuthconfigStage, T) /\ Other(NewAuthselectStage, T) /\ Other(NewChronyStage, T)
           /\ Other(NewCloudInitStage, T) /\ Other(NewFirewallStage, T)
           /\ Other(NewGcpGuestAgentConfigStage, T) /\ Other(NewHostnameStage, T)
           /\ Other(NewInsightsClientConfigStage, T) /\ Other(NewKeymapStage, T) /\ Other(NewLocaleStage, T)
           /\ Other(NewMachineIdStage, T) /\ Other(NewModprobeStage, T) /\ Other(NewNMConfStage, T)
           /\ Other(NewPamLimitsConfStage, T) /\ Other(NewPwqualityConfStage, T)
           /\ Other(NewRHSMFactsStage, T) /\ Other(NewRHSMStage, T) /\ Other(NewSELinuxConfigStage, T)
           /\ Other(NewShellInitStage, T) /\ Other(NewSshdConfigStage, T) /\ Other(NewSysconfigStage, T)
           /\ Other(NewSysctldStage, T) /\ Other(NewTimezoneStage, T) /\ Other(NewTunedStage, T)
           /\ Other(NewUdevRulesStage, T) /\ Other(NewWAAgentConfStage, T) /\ Other(NewWSLConfStage, T)
           /\ Other(NewWSLDistributionConfStage, T) /\ Other(NewUsersStage, T) /\ Other(NewGroupsStage, T)
           /\ Other(NewFirstBootStage, T) /\ Other(NewIgnitionStage, T) /\ Other(NewSystemdJournaldStage, T)
           /\ Other(NewSystemdLogindStage, T) /\ Other(NewSystemdPresetStage, T)
           /\ Other(NewSystemdUnitStage, T) /\ Other(NewOscapAutotailorStage, T)
           /\ Other(NewOscapRemediationStage, T) /\ Other(NewUpdateCATrustStage, T)
           /\ Other(NewUpdateCryptoPoliciesStage, T) /\ Other(NewBootcInstallConfigStage, T)
           /\ Other(NewContainersStorageConfStage, T) /\ Other(NewOSTreeConfigStage, T)
           /\ Other(NewOSTreeDeployStage, T) /\ Other(NewOSTreeFillvarStage, T)
           /\ Other(NewOSTreeGrub2MountsStage, T) /\ Other(OSTreeInitFsStage, T)
           /\ Other(NewOSTreeInitStage, T) /\ Other(NewOSTreeOsInitStage, T)
           /\ Other(NewOSTreePrepTreeStage, T) /\ Other(NewOSTreeRemotesStage, T)
           /\ Other(NewOSTreeSelinuxStage, T) /\ Other(NewBtrfsSubVol, T)
           /\ Other(NewClevisLuksBindStage, T) /\ Other(NewFSTabStage, T) /\ Other(NewLUKS2CreateStage, T)
           /\ Other(NewLUKS2RemoveKeyStage, T) /\ Other(NewLVM2CreateStage, T)
           /\ Other(NewLVM2MetadataStage, T) /\ Other(NewMkfsBtrfsStage, T) /\ Other(NewMkfsExt4Stage, T)
           /\ Other(NewMkfsFATStage, T) /\ Other(NewMkfsXfsStage, T) /\ Other(NewMkswapStage, T)
           /\ Other(NewSfdiskStage, T) /\ Other(NewSgdiskStage, T) /\ Other(NewDracutConfStage, T)
           /\ Other(NewFixBLSStage, T) /\ Other(NewGrub2DStage, T) /\ Other(NewGrub2InstStage, T)
           /\ Other(NewGrub2ISOLegacyStage, T) /\ Other(NewGrubISOStage, T)
           /\ Other(NewKernelCmdlineStage, T) /\ Other(NewZiplStage, T)
           /\ Other(NewBootctlInstallRootStage, T) /\ Other(NewBootupdGenMetadataStage, T)
           /\ Other(NewBootupdStage, T) /\ Other(NewAnacondaStage, T) /\ Other(NewBuildstampStage, T)
           /\ Other(NewCreateaddrsizeStage, T) /\ Other(NewDiscinfoStage, T)
           /\ Other(NewImplantisomd5Stage, T) /\ Other(NewKickstartStage, T)
           /\ Other(NewLoraxScriptStage, T) /\ Other(NewMkS390ImageStage, T) /\ Other(NewOVFStage, T)
           /\ Other(NewNginxConfigStage, T)
  BY DEF Other, Placed, Stage, Checked, Encoded,
         NewChmodStage, NewChownStage, NewMkdirStage, NewTruncateStage, NewTmpfilesdStage,
         NewDNF4VersionlockStage,
         NewDNFAutomaticConfigStage, NewDNFConfigStage, NewDNFModuleConfigStage, NewYumConfigStage,
         NewYumReposStage, NewAuthconfigStage, NewAuthselectStage, NewChronyStage, NewCloudInitStage,
         NewFirewallStage, NewGcpGuestAgentConfigStage, NewHostnameStage, NewInsightsClientConfigStage,
         NewKeymapStage, NewLocaleStage, NewMachineIdStage, NewModprobeStage, NewNMConfStage,
         NewPamLimitsConfStage, NewPwqualityConfStage, NewRHSMFactsStage, NewRHSMStage,
         NewSELinuxConfigStage, NewShellInitStage, NewSshdConfigStage, NewSysconfigStage, NewSysctldStage,
         NewTimezoneStage, NewTunedStage, NewUdevRulesStage, NewWAAgentConfStage, NewWSLConfStage,
         NewWSLDistributionConfStage, NewUsersStage, NewGroupsStage, NewFirstBootStage, NewIgnitionStage,
         NewSystemdJournaldStage, NewSystemdLogindStage, NewSystemdPresetStage, NewSystemdUnitStage,
         NewOscapAutotailorStage, NewOscapRemediationStage, NewUpdateCATrustStage,
         NewUpdateCryptoPoliciesStage, NewBootcInstallConfigStage, NewContainersStorageConfStage,
         NewOSTreeConfigStage, NewOSTreeDeployStage, NewOSTreeFillvarStage, NewOSTreeGrub2MountsStage,
         OSTreeInitFsStage, NewOSTreeInitStage, NewOSTreeOsInitStage, NewOSTreePrepTreeStage,
         NewOSTreeRemotesStage, NewOSTreeSelinuxStage, NewBtrfsSubVol, NewClevisLuksBindStage,
         NewFSTabStage, NewLUKS2CreateStage, NewLUKS2RemoveKeyStage, NewLVM2CreateStage,
         NewLVM2MetadataStage, NewMkfsBtrfsStage, NewMkfsExt4Stage, NewMkfsFATStage, NewMkfsXfsStage,
         NewMkswapStage, NewSfdiskStage, NewSgdiskStage, NewDracutConfStage, NewFixBLSStage, NewGrub2DStage,
         NewGrub2InstStage, NewGrub2ISOLegacyStage, NewGrubISOStage, NewKernelCmdlineStage, NewZiplStage,
         NewBootctlInstallRootStage, NewBootupdGenMetadataStage, NewBootupdStage, NewAnacondaStage,
         NewBuildstampStage, NewCreateaddrsizeStage, NewDiscinfoStage, NewImplantisomd5Stage,
         NewKickstartStage, NewLoraxScriptStage, NewMkS390ImageStage, NewOVFStage, NewNginxConfigStage

\* Most stages have no fixed place: of those that take content from the sources, only the
\* one that installs packages has.
LEMMA UsingOther ==
    ASSUME NEW T \in SUBSET Placed, NEW x, NEW y
    PROVE  /\ Other(NewBootcInstallToFilesystemStage(x), T) /\ Other(NewContainerDeployStage(x), T)
           /\ Other(NewSkopeoStageWithContainersStorage(x, y), T) /\ Other(NewSkopeoStageWithOCI(x), T)
           /\ Other(NewFlatpakBuildImportOCIStage(x), T) /\ Other(NewOSTreeDeployContainerStage(x), T)
           /\ Other(NewOSTreePasswdStage(x), T) /\ Other(NewFDOStageForRootCerts(x), T)
           /\ Other(NewDracutStage(x), T) /\ Other(NewGRUB2Stage(x), T) /\ Other(NewGrub2LegacyStage(x), T)
           /\ Other(NewHMACStage(x), T) /\ Other(NewZiplInstStage(x), T)
           /\ Other([NewMkdirStage EXCEPT !.kernel = x], T)
  BY DEF Other, Placed, Stage, Checked, Using, ForKernel, NewBootcInstallToFilesystemStage,
         NewContainerDeployStage, NewSkopeoStageWithContainersStorage, NewSkopeoStageWithOCI,
         NewFlatpakBuildImportOCIStage, NewOSTreeDeployContainerStage, NewOSTreePasswdStage,
         NewFDOStageForRootCerts, NewDracutStage, NewGRUB2Stage, NewGrub2LegacyStage, NewHMACStage,
         NewZiplInstStage, NewMkdirStage

\* No stage that reads another tree has one.
LEMMA ReadingOther ==
    ASSUME NEW T \in SUBSET Placed, NEW trees, NEW x, NEW y
    PROVE  /\ Other(NewCopyStage(trees, x), T) /\ Other(NewOSTreeCommitStage(trees), T)
           /\ Other(NewOSTreeEncapsulateStage(trees), T) /\ Other(NewOSTreePullStage(trees, x), T)
           /\ Other(NewWriteDeviceStage(trees), T) /\ Other(NewErofsStage(trees), T)
           /\ Other(NewISOLinuxStage(trees), T) /\ Other(NewSquashfsStage(trees), T)
           /\ Other(NewQEMUStage(trees), T) /\ Other(NewVagrantStage(trees), T)
           /\ Other(NewTarStage(trees), T) /\ Other(NewOCIArchiveStage(trees), T)
           /\ Other(NewGzipStage(trees), T) /\ Other(NewXzStage(trees), T) /\ Other(NewZstdStage(trees), T)
           /\ Other([NewCopyStage(trees, x) EXCEPT !.kernel = y], T)
           /\ Other([NewXorrisofsStage(trees) EXCEPT !.use = y], T)
  BY DEF Other, Placed, Stage, Checked, Encoded, Reading, NewCopyStage, NewOSTreeCommitStage,
         NewOSTreeEncapsulateStage, NewOSTreePullStage, NewWriteDeviceStage, NewErofsStage,
         NewISOLinuxStage, NewSquashfsStage, NewQEMUStage, NewVagrantStage, NewTarStage,
         NewOCIArchiveStage, NewGzipStage, NewXzStage, NewZstdStage, NewXorrisofsStage

\* The four that have one.
LEMMA PlacedOther ==
    ASSUME NEW T \in SUBSET Placed, NEW x
    PROVE  /\ "rpm" \notin T => Other(NewRPMStage(x), T)
           /\ "selinux" \notin T => Other(NewSELinuxStage, T)
           /\ "systemd" \notin T => Other(NewSystemdStage, T)
           /\ "systemd.unit.create" \notin T => Other(NewSystemdUnitCreateStage, T)
  BY DEF Other, Stage, Checked, Using, NewRPMStage, NewSELinuxStage, NewSystemdStage,
         NewSystemdUnitCreateStage

\* Files and directories may be made anywhere.
LEMMA NodesLacks ==
    ASSUME NEW T \in SUBSET Placed, NEW x
    PROVE  Lacks(GenFileNodesStages(x), T) /\ Lacks(GenDirectoryNodesStages(x), T)
<1>1. /\ Other(NewChmodStage, T) /\ Other(NewChownStage, T) /\ Other(NewMkdirStage, T)
      /\ \A y : Other(NewCopyStage({}, y), T)
  BY PlainOther, ReadingOther
<1> QED
  BY <1>1, Lacks1, LacksConcat, LacksWhen, Zenon DEF GenFileNodesStages, GenDirectoryNodesStages

-----------------------------------------------------------------------------
(* What the stages of each kind of pipeline lack.                          *)

\* How the root file system is mounted.
LEMMA MountsLacks ==
    ASSUME NEW T \in SUBSET Placed, "systemd" \notin T, "systemd.unit.create" \notin T, NEW c
    PROVE  Lacks(filesystemConfigStages(c), T)
<1>1. Other(NewFSTabStage, T) /\ Other(NewSystemdUnitCreateStage, T) /\ Other(NewSystemdStage, T)
  BY PlainOther, PlacedOther
<1> QED
  BY <1>1, Lacks1, Lacks2, LacksEmpty, Zenon DEF filesystemConfigStages, GenSystemdMountStages

\* The containers of a tree.
LEMMA StorageLacks ==
    ASSUME NEW T \in SUBSET Placed, NEW x, NEW y
    PROVE  Lacks(GenContainerStorageStages(x, y), T)
<1>1. Other(NewContainersStorageConfStage, T)
  BY PlainOther
<1> QED
  BY <1>1, UsingOther, Lacks1, LacksConcat, LacksWhen, Zenon DEF GenContainerStorageStages

\* The OS pipeline, up to the configuration.
LEMMA OSFirstLacks ==
    ASSUME NEW T \in SUBSET Placed, NEW c
    PROVE  /\ Lacks(prependStages(c), T) /\ Lacks(OSUserStages(c), T)
           /\ "systemd.unit.create" \notin T => Lacks(OSFirstbootStages(c), T) /\ Lacks(OSConfigStages(c), T)
<1>1. Lacks(prependStages(c), T)
  <2>1. Other(NewKernelCmdlineStage, T) /\ Other(NewDracutConfStage, T)
    BY PlainOther
  <2> QED
    BY <2>1, OptLacks, LacksWhen, Lacks1, LacksConcat, Zenon DEF prependStages
<1>2. Lacks(OSUserStages(c), T)
  <2>1. /\ Other(NewLocaleStage, T) /\ Other(NewKeymapStage, T) /\ Other(NewHostnameStage, T)
        /\ Other(NewTimezoneStage, T) /\ Other(NewChronyStage, T) /\ Other(NewGroupsStage, T)
        /\ Other(NewUsersStage, T) /\ Other(NewFirstBootStage, T) /\ Other(NewFirewallStage, T)
        /\ Other(NewSysconfigStage, T) /\ Other(NewSystemdLogindStage, T) /\ Other(NewCloudInitStage, T)
        /\ Other(NewModprobeStage, T)
    BY PlainOther
  <2> QED
    BY <2>1, OptLacks, LacksWhen, Lacks1, LacksConcat, Zenon DEF OSUserStages
<1>3. ASSUME "systemd.unit.create" \notin T PROVE Lacks(OSFirstbootStages(c), T)
  <2>1. Other(NewSystemdUnitStage, T) /\ Other(NewSystemdUnitCreateStage, T)
    BY <1>3, PlainOther, PlacedOther
  <2> QED
    BY <2>1, OptLacks, NodesLacks, LacksWhen, Lacks1, LacksConcat, Zenon
    DEF OSFirstbootStages, FirstbootUnits
<1>4. ASSUME "systemd.unit.create" \notin T PROVE Lacks(OSConfigStages(c), T)
  <2>1. /\ Other(NewAuthselectStage, T) /\ Other(NewSELinuxConfigStage, T) /\ Other(NewTunedStage, T)
        /\ Other(NewTmpfilesdStage, T) /\ Other(NewPamLimitsConfStage, T) /\ Other(NewSysctldStage, T)
        /\ Other(NewDNFConfigStage, T) /\ Other(NewDNFAutomaticConfigStage, T)
        /\ Other(NewYumReposStage, T) /\ Other(NewYumConfigStage, T)
        /\ Other(NewGcpGuestAgentConfigStage, T) /\ Other(NewSshdConfigStage, T)
        /\ Other(NewInsightsClientConfigStage, T) /\ Other(NewNMConfStage, T)
        /\ Other(NewAuthconfigStage, T) /\ Other(NewPwqualityConfStage, T) /\ Other(NewRHSMStage, T)
        /\ Other(NewWAAgentConfStage, T) /\ Other(NewUdevRulesStage, T)
    BY PlainOther
  <2>2. Other(NewSystemdUnitCreateStage, T)
    BY <1>4, PlacedOther
  <2>3. \A x, y : Lacks(<<SubscriptionUnit>> \o GenDirectoryNodesStages(x) \o GenFileNodesStages(y), T)
    BY <2>2, NodesLacks, Lacks1, LacksConcat, Zenon DEF SubscriptionUnit
  <2> QED
    BY <2>1, <2>3, OptLacks, LacksWhen, LacksConcat, ZenonT(90) DEF OSConfigStages
<1> QED
  BY <1>1, <1>2, <1>3, <1>4, Zenon

-----------------------------------------------------------------------------
(* The three rules of the order, each for a sequence of stages.            *)

\* Packages are installed before anything but what their scripts read.
Packed(s) ==
    /\ IsSeq(s)
    /\ \A r \in DOMAIN s : s[r].type = "rpm" => \A k \in 1 .. (r - 1) : s[k].type \in BeforePackages

\* After the labels come only stages that need none.
Labelled(s) ==
    /\ IsSeq(s)
    /\ \A l \in DOMAIN s : s[l].type = "selinux" => \A k \in (l + 1) .. Len(s) : s[k].type \in AfterLabels

\* After every unit there is a stage that enables services.
Served(s) ==
    /\ IsSeq(s)
    /\ \A u \in DOMAIN s : s[u].type = "systemd.unit.create" =>
         \E k \in DOMAIN s : k > u /\ s[k].type = "systemd"

\* There is if there is such a stage at all.
Enabled(s) == IsSeq(s) /\ ((\E k \in DOMAIN s : s[k].type = "systemd") => Served(s))

Ordered(s) == Packed(s) /\ Labelled(s) /\ Enabled(s)

\* Every stage of s is of a type in T.
Only(s, T) == IsSeq(s) /\ \A k \in DOMAIN s : s[k].type \in T

\* Where there is nothing to put into order.
LEMMA NothingPlaced ==
    ASSUME NEW s
    PROVE  /\ Lacks(s, {"rpm"}) => Packed(s)
           /\ Lacks(s, {"selinux"}) \/ Only(s, AfterLabels) => Labelled(s)
           /\ Lacks(s, {"systemd.unit.create"}) => Served(s)
           /\ Lacks(s, {"systemd"}) \/ Served(s) => Enabled(s)
<1>1. Lacks(s, {"rpm"}) => Packed(s)
  BY DEF Lacks, Other, Packed
<1>2. Lacks(s, {"selinux"}) => Labelled(s)
  BY DEF Lacks, Other, Labelled
<1>3. Only(s, AfterLabels) => Labelled(s)
  <2>1. Only(s, AfterLabels) => DOMAIN s = 1 .. Len(s) /\ Len(s) \in Nat
    BY SeqLen DEF Only
  <2> QED
    BY <2>1 DEF Only, Labelled
<1>4. Lacks(s, {"systemd.unit.create"}) => Served(s)
  BY DEF Lacks, Other, Served
<1>5. Lacks(s, {"systemd"}) => Enabled(s)
  BY DEF Lacks, Other, Enabled
<1>6. Served(s) => Enabled(s)
  BY DEF Served, Enabled
<1> QED
  BY <1>1, <1>2, <1>3, <1>4, <1>5, <1>6, Zenon

\* Packages come first, or after what is made for them.
LEMMA PackedOne == ASSUME NEW x PROVE Packed(<<x>>)
<1>1. IsSeq(<<x>>)
  BY Short
<1>2. \A r \in DOMAIN <<x>> : 1 .. (r - 1) = {}
  OBVIOUS
<1> QED
  BY <1>1, <1>2 DEF Packed

LEMMA PackedThen ==
    ASSUME NEW s, NEW t, Packed(s), Lacks(t, {"rpm"})
    PROVE  Packed(s \o t)
<1>1. IsSeq(s) /\ IsSeq(t)
  BY DEF Packed, Lacks
<1> SUFFICES ASSUME NEW r \in DOMAIN (s \o t), (s \o t)[r].type = "rpm", NEW k \in 1 .. (r - 1)
             PROVE  (s \o t)[k].type \in BeforePackages
  BY <1>1, Joined DEF Packed
<1>2. CASE r \in 1 .. Len(s)
  <2>1. k \in 1 .. Len(s) /\ (s \o t)[k] = s[k] /\ (s \o t)[r] = s[r] /\ r \in DOMAIN s
    BY <1>1, <1>2, Joined
  <2> QED
    BY <2>1 DEF Packed
<1>3. CASE r \notin 1 .. Len(s)
  <2>1. r - Len(s) \in 1 .. Len(t) /\ r = Len(s) + (r - Len(s))
    BY <1>1, <1>3, Joined
  <2>2. (s \o t)[r] = t[r - Len(s)] /\ r - Len(s) \in DOMAIN t
    BY <1>1, <2>1, Joined
  <2> QED
    BY <2>2 DEF Lacks, Other
<1> QED
  BY <1>2, <1>3

LEMMA PackedAfter ==
    ASSUME NEW s, NEW t, Only(s, BeforePackages), Packed(t)
    PROVE  Packed(s \o t)
<1>1. IsSeq(s) /\ IsSeq(t)
  BY DEF Packed, Only
<1> SUFFICES ASSUME NEW r \in DOMAIN (s \o t), (s \o t)[r].type = "rpm", NEW k \in 1 .. (r - 1)
             PROVE  (s \o t)[k].type \in BeforePackages
  BY <1>1, Joined DEF Packed
<1>2. CASE k \in 1 .. Len(s)
  <2>1. (s \o t)[k] = s[k] /\ k \in DOMAIN s
    BY <1>1, <1>2, Joined
  <2> QED
    BY <2>1 DEF Only
<1>3. CASE k \notin 1 .. Len(s)
  <2> DEFINE i == k - Len(s)
             j == r - Len(s)
  <2>1. i \in 1 .. (j - 1) /\ i \in 1 .. Len(t) /\ j \in 1 .. Len(t) /\ k = Len(s) + i /\ r = Len(s) + j
    BY <1>1, <1>3, Joined
  <2> HIDE DEF i, j
  <2>2. (s \o t)[k] = t[i] /\ (s \o t)[r] = t[j] /\ j \in DOMAIN t
    BY <1>1, <2>1, Joined
  <2> QED
    BY <2>1, <2>2 DEF Packed
<1> QED
  BY <1>2, <1>3

\* Labels come last, or before what needs none.
LEMMA LabelledAfter ==
    ASSUME NEW s, NEW t, Lacks(s, {"selinux"}), Labelled(t)
    PROVE  Labelled(s \o t)
<1>1. IsSeq(s) /\ IsSeq(t)
  BY DEF Labelled, Lacks
<1> SUFFICES ASSUME NEW l \in DOMAIN (s \o t), (s \o t)[l].type = "selinux",
                    NEW k \in (l + 1) .. Len(s \o t)
             PROVE  (s \o t)[k].type \in AfterLabels
  BY <1>1, Joined DEF Labelled
<1>2. CASE l \in 1 .. Len(s)
  <2>1. (s \o t)[l] = s[l] /\ l \in DOMAIN s
    BY <1>1, <1>2, Joined
  <2> QED
    BY <2>1 DEF Lacks, Other
<1>3. CASE l \notin 1 .. Len(s)
  <2> DEFINE i == k - Len(s)
             j == l - Len(s)
  <2>1. i \in (j + 1) .. Len(t) /\ i \in 1 .. Len(t) /\ j \in 1 .. Len(t) /\ k = Len(s) + i /\ l = Len(s) + j
    BY <1>1, <1>3, Joined
  <2> HIDE DEF i, j
  <2>2. (s \o t)[k] = t[i] /\ (s \o t)[l] = t[j] /\ j \in DOMAIN t
    BY <1>1, <2>1, Joined
  <2> QED
    BY <2>1, <2>2 DEF Labelled
<1> QED
  BY <1>2, <1>3

LEMMA LabelledThen ==
    ASSUME NEW s, NEW t, Labelled(s), Only(t, AfterLabels)
    PROVE  Labelled(s \o t)
<1>1. IsSeq(s) /\ IsSeq(t)
  BY DEF Labelled, Only
<1> SUFFICES ASSUME NEW l \in DOMAIN (s \o t), (s \o t)[l].type = "selinux",
                    NEW k \in (l + 1) .. Len(s \o t)
             PROVE  (s \o t)[k].type \in AfterLabels
  BY <1>1, Joined DEF Labelled
<1>2. CASE k \in 1 .. Len(s)
  <2>1. (s \o t)[k] = s[k] /\ l \in 1 .. Len(s) /\ k \in (l + 1) .. Len(s)
    BY <1>1, <1>2, Joined
  <2>2. (s \o t)[l] = s[l] /\ l \in DOMAIN s
    BY <1>1, <2>1, Joined
  <2> QED
    BY <2>1, <2>2 DEF Labelled
<1>3. CASE k \notin 1 .. Len(s)
  <2> DEFINE i == k - Len(s)
  <2>1. i \in 1 .. Len(t) /\ k = Len(s) + i
    BY <1>1, <1>3, Joined
  <2> HIDE DEF i
  <2>2. (s \o t)[k] = t[i] /\ i \in DOMAIN t
    BY <1>1, <2>1, Joined
  <2> QED
    BY <2>2 DEF Only
<1> QED
  BY <1>2, <1>3

\* Units that are enabled, one after the other, ...
LEMMA ServedConcat ==
    ASSUME NEW s, NEW t, Served(s), Served(t)
    PROVE  Served(s \o t)
<1>1. IsSeq(s) /\ IsSeq(t)
  BY DEF Served
<1> SUFFICES ASSUME NEW u \in DOMAIN (s \o t), (s \o t)[u].type = "systemd.unit.create"
             PROVE  \E k \in DOMAIN (s \o t) : k > u /\ (s \o t)[k].type = "systemd"
  BY <1>1, Joined DEF Served
<1>2. CASE u \in 1 .. Len(s)
  <2>1. (s \o t)[u] = s[u] /\ u \in DOMAIN s
    BY <1>1, <1>2, Joined
  <2>2. PICK k \in DOMAIN s : k > u /\ s[k].type = "systemd"
    BY <2>1 DEF Served
  <2>3. k \in DOMAIN (s \o t) /\ (s \o t)[k] = s[k]
    BY <1>1, Joined
  <2> QED
    BY <2>2, <2>3
<1>3. CASE u \notin 1 .. Len(s)
  <2> DEFINE i == u - Len(s)
  <2>1. i \in 1 .. Len(t) /\ u = Len(s) + i
    BY <1>1, <1>3, Joined
  <2> HIDE DEF i
  <2>2. (s \o t)[u] = t[i] /\ i \in DOMAIN t
    BY <1>1, <2>1, Joined
  <2>3. PICK k \in DOMAIN t : k > i /\ t[k].type = "systemd"
    BY <2>2 DEF Served
  <2>4. Len(s) + k \in DOMAIN (s \o t) /\ (s \o t)[Len(s) + k] = t[k] /\ Len(s) + k > u
    BY <1>1, <2>1, <2>3, Joined
  <2> QED
    BY <2>3, <2>4
<1> QED
  BY <1>2, <1>3

\* ... and any that are enabled at the end.
LEMMA ServedLast ==
    ASSUME NEW s, IsSeq(s), NEW x, x.type = "systemd"
    PROVE  Served(s \o <<x>>)
<1>1. IsSeq(<<x>>) /\ Len(<<x>>) = 1 /\ <<x>>[1] = x
  BY Short
<1>2. (s \o <<x>>)[Len(s) + 1] = x /\ Len(s) + 1 \in DOMAIN (s \o <<x>>)
  BY <1>1, Joined
<1> SUFFICES ASSUME NEW u \in DOMAIN (s \o <<x>>), (s \o <<x>>)[u].type = "systemd.unit.create"
             PROVE  \E k \in DOMAIN (s \o <<x>>) : k > u /\ (s \o <<x>>)[k].type = "systemd"
  BY <1>1, Joined DEF Served
<1>3. u # Len(s) + 1 /\ u \in 1 .. (Len(s) + 1) /\ Len(s) \in Nat
  BY <1>1, <1>2, Joined
<1> QED
  BY <1>2, <1>3

\* Units before the first stage that enables any, and after which all are enabled.
LEMMA EnabledAfter ==
    ASSUME NEW s, NEW t, Lacks(s, {"systemd"}), Served(t)
    PROVE  Enabled(s \o t)
<1>1. IsSeq(s) /\ IsSeq(t)
  BY DEF Served, Lacks
<1> SUFFICES ASSUME NEW k \in DOMAIN (s \o t), (s \o t)[k].type = "systemd",
                    NEW u \in DOMAIN (s \o t), (s \o t)[u].type = "systemd.unit.create"
             PROVE  \E x \in DOMAIN (s \o t) : x > u /\ (s \o t)[x].type = "systemd"
  BY <1>1, Joined DEF Enabled, Served
<1>2. k \notin 1 .. Len(s)
  <2>1. k \in 1 .. Len(s) => (s \o t)[k] = s[k] /\ k \in DOMAIN s
    BY <1>1, Joined
  <2> QED
    BY <2>1 DEF Lacks, Other
<1>3. CASE u \in 1 .. Len(s)
  <2>1. k > u
    BY <1>1, <1>2, <1>3, Joined
  <2> QED
    BY <2>1
<1>4. CASE u \notin 1 .. Len(s)
  <2> DEFINE i == u - Len(s)
  <2>1. i \in 1 .. Len(t) /\ u = Len(s) + i
    BY <1>1, <1>4, Joined
  <2> HIDE DEF i
  <2>2. (s \o t)[u] = t[i] /\ i \in DOMAIN t
    BY <1>1, <2>1, Joined
  <2>3. PICK x \in DOMAIN t : x > i /\ t[x].type = "systemd"
    BY <2>2 DEF Served
  <2>4. Len(s) + x \in DOMAIN (s \o t) /\ (s \o t)[Len(s) + x] = t[x] /\ Len(s) + x > u
    BY <1>1, <2>1, <2>3, Joined
  <2> QED
    BY <2>3, <2>4
<1> QED
  BY <1>3, <1>4

\* No unit comes after those.
LEMMA EnabledThen ==
    ASSUME NEW s, NEW t, Enabled(s), Lacks(t, {"systemd.unit.create"})
    PROVE  Enabled(s \o t)
<1>1. IsSeq(s) /\ IsSeq(t)
  BY DEF Enabled, Lacks
<1> SUFFICES ASSUME NEW k \in DOMAIN (s \o t), (s \o t)[k].type = "systemd",
                    NEW u \in DOMAIN (s \o t), (s \o t)[u].type = "systemd.unit.create"
             PROVE  \E x \in DOMAIN (s \o t) : x > u /\ (s \o t)[x].type = "systemd"
  BY <1>1, Joined DEF Enabled, Served
<1>2. u \in 1 .. Len(s)
  <2> SUFFICES ASSUME u \notin 1 .. Len(s) PROVE FALSE
    OBVIOUS
  <2> DEFINE i == u - Len(s)
  <2>1. i \in 1 .. Len(t) /\ u = Len(s) + i
    BY <1>1, Joined
  <2> HIDE DEF i
  <2>2. (s \o t)[u] = t[i] /\ i \in DOMAIN t
    BY <1>1, <2>1, Joined
  <2> QED
    BY <2>2 DEF Lacks, Other
<1>3. (s \o t)[u] = s[u] /\ u \in DOMAIN s
  BY <1>1, <1>2, Joined
<1>4. CASE k \in 1 .. Len(s)
  <2>1. (s \o t)[k] = s[k] /\ k \in DOMAIN s
    BY <1>1, <1>4, Joined
  <2>2. PICK x \in DOMAIN s : x > u /\ s[x].type = "systemd"
    BY <1>3, <2>1 DEF Enabled, Served
  <2>3. x \in DOMAIN (s \o t) /\ (s \o t)[x] = s[x]
    BY <1>1, Joined
  <2> QED
    BY <2>2, <2>3
<1>5. CASE k \notin 1 .. Len(s)
  <2>1. k > u
    BY <1>1, <1>2, <1>5, Joined
  <2> QED
    BY <2>1
<1> QED
  BY <1>4, <1>5

\* Stages without a fixed place may come anywhere.
LEMMA Unplaced == ASSUME NEW s, Lacks(s, Placed) PROVE Ordered(s)
<1>1. Lacks(s, {"rpm"}) /\ Lacks(s, {"selinux"}) /\ Lacks(s, {"systemd"})
  BY DEF Lacks, Other, Placed
<1> QED
  BY <1>1, NothingPlaced DEF Ordered

\* Sequences of stages of some types.
LEMMA OnlyOne == ASSUME NEW T, NEW a, a.type \in T PROVE Only(<<a>>, T)
<1>1. IsSeq(<<a>>)
  BY Short
<1>2. \A k \in DOMAIN <<a>> : <<a>>[k] = a
  OBVIOUS
<1> QED
  BY <1>1, <1>2, Zenon DEF Only

LEMMA OnlyWhen == ASSUME NEW T, NEW c, NEW s, Only(s, T) PROVE Only(When(c, s), T)
<1>1. IsSeq(<< >>)
  BY Short
<1>2. Only(<< >>, T)
  BY <1>1 DEF Only
<1> QED
  BY <1>2 DEF When

LEMMA OnlyConcat == ASSUME NEW T, NEW s, NEW t, Only(s, T), Only(t, T) PROVE Only(s \o t, T)
<1>1. IsSeq(s) /\ IsSeq(t)
  BY DEF Only
<1>2. ASSUME NEW k \in DOMAIN (s \o t) PROVE (s \o t)[k].type \in T
  <2>1. CASE k \in 1 .. Len(s)
    <3>1. (s \o t)[k] = s[k] /\ k \in DOMAIN s
      BY <1>1, <2>1, Joined
    <3> QED
      BY <3>1 DEF Only
  <2>2. CASE k \notin 1 .. Len(s)
    <3> DEFINE i == k - Len(s)
    <3>1. i \in 1 .. Len(t) /\ k = Len(s) + i
      BY <1>1, <2>2, Joined
    <3> HIDE DEF i
    <3>2. (s \o t)[k] = t[i] /\ i \in DOMAIN t
      BY <1>1, <3>1, Joined
    <3> QED
      BY <3>2 DEF Only
  <2> QED
    BY <2>1, <2>2
<1> QED
  BY <1>1, <1>2, Joined DEF Only

\* Mounting units are made and enabled together.
LEMMA MountsServed == ASSUME NEW c PROVE Served(filesystemConfigStages(c))
<1>1. Served(GenSystemdMountStages)
  <2>1. GenSystemdMountStages = <<NewSystemdUnitCreateStage>> \o <<NewSystemdStage>>
    BY Pair, Zenon DEF GenSystemdMountStages
  <2>2. NewSystemdStage.type = "systemd" /\ IsSeq(<<NewSystemdUnitCreateStage>>)
    BY Short DEF NewSystemdStage, Stage
  <2> QED
    BY <2>1, <2>2, ServedLast, Zenon
<1>2. Served(<< >>) /\ Served(<<NewFSTabStage>>)
  <2>1. {"systemd.unit.create"} \in SUBSET Placed
    BY DEF Placed
  <2>2. Other(NewFSTabStage, {"systemd.unit.create"})
    BY <2>1, PlainOther
  <2> QED
    BY <2>2, Lacks1, LacksEmpty, NothingPlaced
<1> QED
  BY <1>1, <1>2 DEF filesystemConfigStages

\* What follows the mounts: the boot loader's stages lack all that is placed.
LEMMA OSBootLacks ==
    ASSUME NEW T \in SUBSET Placed, NEW p, NEW m
    PROVE  /\ "systemd" \notin T /\ "systemd.unit.create" \notin T => Lacks(OSBootStages(p, m), T)
           /\ Served(OSBootStages(p, m))
<1> DEFINE c == p.opts
           before == When("Hostonly" \in c \/ "FIPS" \in c, <<NewDracutStage(m.kernelVer)>>)
           after == CASE "GRUB2" \in c ->
                           <<IF "NoBLS" \in c
                               THEN NewGrub2LegacyStage(m.kernelVer) ELSE NewGRUB2Stage(m.kernelVer)>>
                      [] "ZIPL" \in c -> <<NewZiplStage>>
                      [] "UKI" \in c ->
                           <<[NewCopyStage({}, {Inline("boot-csv")}) EXCEPT !.kernel = m.kernelVer]>>
                             \o When("OldUKIDirect" \in c,
                                     <<NewHMACStage(m.kernelVer),
                                       [NewMkdirStage EXCEPT !.kernel = m.kernelVer]>>)
                      [] OTHER -> << >>
<1>1. OSBootStages(p, m) = before \o filesystemConfigStages(c) \o after
  BY Zenon DEF OSBootStages
<1>2. ASSUME NEW S \in SUBSET Placed PROVE Lacks(before, S) /\ Lacks(after, S)
  <2>1. \A v : /\ Lacks(<<NewDracutStage(v)>>, S) /\ Lacks(<<NewGRUB2Stage(v)>>, S)
               /\ Lacks(<<NewGrub2LegacyStage(v)>>, S)
               /\ Lacks(<<NewHMACStage(v), [NewMkdirStage EXCEPT !.kernel = v]>>, S)
    BY UsingOther, Lacks1, Lacks2, Zenon
  <2>2. Lacks(<<NewZiplStage>>, S)
    BY PlainOther, Lacks1
  <2>3. \A v : Lacks(<<[NewCopyStage({}, {Inline("boot-csv")}) EXCEPT !.kernel = v]>>, S)
    BY ReadingOther, Lacks1, Zenon
  <2> QED
    BY <2>1, <2>2, <2>3, LacksWhen, LacksEmpty, LacksConcat, Zenon
<1> HIDE DEF before, after
<1>3. ASSUME "systemd" \notin T, "systemd.unit.create" \notin T PROVE Lacks(OSBootStages(p, m), T)
  <2>1. Lacks(filesystemConfigStages(c), T)
    BY <1>3, MountsLacks
  <2> QED
    BY <1>1, <1>2, <2>1, LacksConcat, Zenon
<1>4. Served(OSBootStages(p, m))
  <2>1. {"systemd.unit.create"} \in SUBSET Placed
    BY DEF Placed
  <2>2. Served(before) /\ Served(after)
    BY <1>2, <2>1, NothingPlaced
  <2> QED
    BY <1>1, <2>2, MountsServed, ServedConcat, Zenon
<1> QED
  BY <1>3, <1>4, Zenon

\* The files, the hardening and the OSTree preparation of the OS pipeline.
LEMMA OSLastLacks ==
    ASSUME NEW T \in SUBSET Placed, NEW m, NEW c
    PROVE  /\ "systemd" \notin T => Lacks(OSFileStages(c, m), T)
           /\ "selinux" \notin T => Lacks(OSHardeningStages(c), T)
           /\ Lacks(OSTreeStages(c), T)
           /\ Labelled(OSHardeningStages(c)) /\ Only(OSTreeStages(c), AfterLabels)
<1>1. ASSUME "systemd" \notin T PROVE Lacks(OSFileStages(c, m), T)
  <2>1. /\ Other(NewRHSMFactsStage, T) /\ Other(NewSystemdJournaldStage, T)
        /\ Other(NewShellInitStage, T) /\ Other(NewWSLConfStage, T)
        /\ Other(NewWSLDistributionConfStage, T) /\ Other(NewDNFModuleConfigStage, T)
        /\ Other(NewUpdateCryptoPoliciesStage, T) /\ Other(NewDracutConfStage, T)
    BY PlainOther
  <2>2. Other(NewSystemdStage, T)
    BY <1>1, PlacedOther
  <2> QED
    BY <2>1, <2>2, OptLacks, NodesLacks, LacksWhen, Lacks1, Lacks2, LacksConcat, Zenon
    DEF OSFileStages, GenDNFModuleConfigStages, GenFIPSStages
<1> DEFINE first ==
      When({"OpenSCAP", "Tailoring"} \subseteq c, <<NewOscapAutotailorStage>>)
      \o Opt(c, "OpenSCAP", NewOscapRemediationStage) \o Opt(c, "Presets", NewSystemdPresetStage)
      \o When("CACerts" \in c, GenFileNodesStages({File(Inline("CACerts"))}))
      \o When({"Firstboot", "FirstbootCerts"} \subseteq c,
              GenFileNodesStages({File(Inline("FirstbootCerts"))}))
      \o When("CACerts" \in c \/ {"Firstboot", "FirstbootCerts"} \subseteq c,
              <<NewUpdateCATrustStage>>)
      \o Opt(c, "VersionlockPackages", NewDNF4VersionlockStage)
      \o Opt(c, "MachineIdUninitialized", NewMachineIdStage)
<1>2. OSHardeningStages(c) = first \o Opt(c, "SELinux", NewSELinuxStage)
  BY Zenon DEF OSHardeningStages
<1>3. ASSUME NEW S \in SUBSET Placed PROVE Lacks(first, S)
  <2>1. /\ Other(NewOscapAutotailorStage, S) /\ Other(NewOscapRemediationStage, S)
        /\ Other(NewSystemdPresetStage, S) /\ Other(NewUpdateCATrustStage, S)
        /\ Other(NewDNF4VersionlockStage, S) /\ Other(NewMachineIdStage, S)
    BY PlainOther
  <2> QED
    BY <2>1, OptLacks, NodesLacks, LacksWhen, Lacks1, LacksConcat, Zenon
<1> HIDE DEF first
<1>4. ASSUME "selinux" \notin T PROVE Lacks(OSHardeningStages(c), T)
  <2>1. Other(NewSELinuxStage, T)
    BY <1>4, PlacedOther
  <2> QED
    BY <1>2, <1>3, <2>1, OptLacks, LacksConcat, Zenon
<1>5. Labelled(OSHardeningStages(c))
  <2>1. {"selinux"} \in SUBSET Placed
    BY DEF Placed
  <2>2. NewSELinuxStage.type \in AfterLabels
    BY DEF NewSELinuxStage, Stage, AfterLabels
  <2>3. Labelled(Opt(c, "SELinux", NewSELinuxStage))
    BY <2>2, OnlyOne, OnlyWhen, NothingPlaced DEF Opt
  <2> QED
    BY <1>2, <1>3, <2>1, <2>3, LabelledAfter
<1>6. Lacks(OSTreeStages(c), T)
  <2>1. /\ Other(NewOSTreePrepTreeStage, T) /\ Other(NewBootupdGenMetadataStage, T)
        /\ Other(NewBootcInstallConfigStage, T)
    BY PlainOther
  <2> QED
    BY <2>1, LacksWhen, Lacks1, LacksConcat, Zenon DEF OSTreeStages
<1>7. Only(OSTreeStages(c), AfterLabels)
  <2>1. /\ NewOSTreePrepTreeStage.type \in AfterLabels /\ NewBootupdGenMetadataStage.type \in AfterLabels
        /\ NewBootcInstallConfigStage.type \in AfterLabels
    BY DEF NewOSTreePrepTreeStage, NewBootupdGenMetadataStage, NewBootcInstallConfigStage, Stage, AfterLabels
  <2> QED
    BY <2>1, OnlyOne, OnlyWhen, OnlyConcat, Zenon DEF OSTreeStages
<1> QED
  BY <1>1, <1>4, <1>5, <1>6, <1>7, Zenon

\* The packages of the OS pipeline come after its account database at the most.
LEMMA OSRpmPacked ==
    ASSUME NEW p, NEW m
    PROVE  /\ Packed(OSRpmStages(p, m))
           /\ \A T \in SUBSET Placed : "rpm" \notin T => Lacks(OSRpmStages(p, m), T)
<1> DEFINE c == p.opts
           passwd == When(m.in.commits # {}, <<NewOSTreePasswdStage(m.in.commits)>>)
           rpm == <<NewRPMStage({Rpms(p.name, m.in.version)})>>
           bls == When("NoBLS" \notin c, <<NewFixBLSStage>>)
           storage == When(m.in.containers # {},
                           GenContainerStorageStages("ContainersStorage" \in c, m.in.containers))
<1>1. OSRpmStages(p, m) = passwd \o rpm \o bls \o storage
  BY Zenon DEF OSRpmStages, GenRPMStagesFromTransactions
<1>2. ASSUME NEW S \in SUBSET Placed PROVE Lacks(passwd, S) /\ Lacks(bls, S) /\ Lacks(storage, S)
  <2>1. Other(NewFixBLSStage, S) /\ Other(NewOSTreePasswdStage(m.in.commits), S)
    BY PlainOther, UsingOther
  <2> QED
    BY <2>1, StorageLacks, Lacks1, LacksWhen, Zenon
<1>3. Only(passwd, BeforePackages)
  <2>1. NewOSTreePasswdStage(m.in.commits).type \in BeforePackages
    BY DEF NewOSTreePasswdStage, Using, Stage, BeforePackages
  <2> QED
    BY <2>1, OnlyOne, OnlyWhen, Zenon
<1>4. Packed(rpm)
  BY PackedOne
<1>5. ASSUME NEW S \in SUBSET Placed, "rpm" \notin S PROVE Lacks(rpm, S)
  BY <1>5, PlacedOther, Lacks1
<1> HIDE DEF passwd, rpm, bls, storage
<1>6. Packed(passwd \o rpm)
  BY <1>3, <1>4, PackedAfter
<1>7. {"rpm"} \in SUBSET Placed
  BY DEF Placed
<1>8. Packed(OSRpmStages(p, m))
  BY <1>1, <1>2, <1>6, <1>7, PackedThen, Zenon
<1> QED
  BY <1>1, <1>2, <1>5, <1>8, LacksConcat, Zenon

\* The OS pipeline: what is put before the packages is what their scripts read, files are
\* labelled last, and services are enabled after the units of the first boot, of the
\* subscription and of the mounts.
LEMMA OSOrdered == ASSUME NEW p, NEW m PROVE Ordered(OSStages(p, m))
<1> DEFINE c == p.opts
           first == prependStages(c)
           rpm == OSRpmStages(p, m)
           users == OSUserStages(c)
           units == OSFirstbootStages(c)
           config == OSConfigStages(c)
           boot == When("PartitionTable" \in c, OSBootStages(p, m))
           files == OSFileStages(c, m)
           harden == OSHardeningStages(c)
           ostree == OSTreeStages(c)
<1>1. OSStages(p, m) = first \o rpm \o users \o units \o config \o boot \o files \o harden \o ostree
  BY Zenon DEF OSStages
<1>2. ASSUME NEW T \in SUBSET Placed
      PROVE  /\ Lacks(first, T) /\ Lacks(users, T) /\ Lacks(ostree, T)
             /\ "rpm" \notin T => Lacks(rpm, T)
             /\ "systemd.unit.create" \notin T => Lacks(units, T) /\ Lacks(config, T)
             /\ "systemd" \notin T /\ "systemd.unit.create" \notin T => Lacks(boot, T)
             /\ "systemd" \notin T => Lacks(files, T)
             /\ "selinux" \notin T => Lacks(harden, T)
  BY OSFirstLacks, OSLastLacks, OSRpmPacked, OSBootLacks, LacksWhen, Zenon
<1>3. Served(boot)
  <2>1. {"systemd.unit.create"} \in SUBSET Placed
    BY DEF Placed
  <2>2. Served(<< >>)
    BY <2>1, LacksEmpty, NothingPlaced
  <2> QED
    BY <2>2, OSBootLacks DEF When
<1>4. Only(first, BeforePackages)
  <2>1. NewKernelCmdlineStage.type \in BeforePackages /\ NewDracutConfStage.type \in BeforePackages
    BY DEF NewKernelCmdlineStage, NewDracutConfStage, Encoded, Stage, BeforePackages
  <2> QED
    BY <2>1, OnlyOne, OnlyWhen, OnlyConcat, Zenon DEF prependStages, Opt
<1>5. Packed(rpm) /\ Labelled(harden) /\ Only(ostree, AfterLabels)
  <2>1. {} \in SUBSET Placed
    OBVIOUS
  <2> QED
    BY <2>1, OSRpmPacked, OSLastLacks, Zenon
<1> HIDE DEF c, first, rpm, users, units, config, boot, files, harden, ostree
<1>6. Packed(OSStages(p, m))
  <2>1. {"rpm"} \in SUBSET Placed
    BY DEF Placed
  <2>2. /\ Lacks(users, {"rpm"}) /\ Lacks(units, {"rpm"}) /\ Lacks(config, {"rpm"})
        /\ Lacks(boot, {"rpm"}) /\ Lacks(files, {"rpm"}) /\ Lacks(harden, {"rpm"})
        /\ Lacks(ostree, {"rpm"})
    BY <1>2, <2>1
  <2>3. Packed(first \o rpm)
    BY <1>4, <1>5, PackedAfter
  <2> QED
    BY <1>1, <2>2, <2>3, PackedThen, Zenon
<1>7. Labelled(OSStages(p, m))
  <2>1. {"selinux"} \in SUBSET Placed
    BY DEF Placed
  <2>2. /\ Lacks(first, {"selinux"}) /\ Lacks(rpm, {"selinux"}) /\ Lacks(users, {"selinux"})
        /\ Lacks(units, {"selinux"}) /\ Lacks(config, {"selinux"}) /\ Lacks(boot, {"selinux"})
        /\ Lacks(files, {"selinux"})
    BY <1>2, <2>1
  <2>3. Lacks(first \o rpm \o users \o units \o config \o boot \o files, {"selinux"})
    BY <2>2, LacksConcat, Zenon
  <2> QED
    BY <1>1, <1>5, <2>3, LabelledAfter, LabelledThen, Zenon
<1>8. Enabled(OSStages(p, m))
  <2>1. {"systemd"} \in SUBSET Placed /\ {"systemd.unit.create"} \in SUBSET Placed
    BY DEF Placed
  <2>2. /\ Lacks(first, {"systemd"}) /\ Lacks(rpm, {"systemd"}) /\ Lacks(users, {"systemd"})
        /\ Lacks(units, {"systemd"}) /\ Lacks(config, {"systemd"})
    BY <1>2, <2>1
  <2>3. Lacks(first \o rpm \o users \o units \o config, {"systemd"})
    BY <2>2, LacksConcat, Zenon
  <2>4. /\ Lacks(files, {"systemd.unit.create"}) /\ Lacks(harden, {"systemd.unit.create"})
        /\ Lacks(ostree, {"systemd.unit.create"})
    BY <1>2, <2>1
  <2> QED
    BY <1>1, <1>3, <2>3, <2>4, EnabledAfter, EnabledThen, Zenon
<1> QED
  BY <1>6, <1>7, <1>8 DEF Ordered

\* The build roots: labelled last.
LEMMA BuildOrdered ==
    ASSUME NEW p, NEW m
    PROVE  Ordered(BuildrootFromPackagesStages(p, m)) /\ Ordered(BuildrootFromContainerStages(p, m))
<1> DEFINE rpm == <<NewRPMStage({Rpms(p.name, m.in.version)})>>
           deploy == <<NewContainerDeployStage(NewContainersInput(m.in.containers))>>
           dirs == When("EnsureDirs" \in p.opts, GenDirectoryNodesStages({Directory(FALSE, FALSE)}))
           copy == When("CopyFilesFrom" \in p.opts, <<NewCopyStage({p.of.target}, {})>>)
           labels == When("DisableSELinux" \notin p.opts, <<NewSELinuxStage>>)
<1>1. /\ BuildrootFromPackagesStages(p, m) = rpm \o labels
      /\ BuildrootFromContainerStages(p, m) = deploy \o dirs \o copy \o labels
  BY Zenon DEF BuildrootFromPackagesStages, BuildrootFromContainerStages, GenRPMStagesFromTransactions
<1>2. {"rpm"} \in SUBSET Placed /\ {"selinux"} \in SUBSET Placed /\ {"systemd"} \in SUBSET Placed
  BY DEF Placed
<1>3. ASSUME NEW T \in SUBSET Placed PROVE Lacks(deploy, T) /\ Lacks(dirs, T) /\ Lacks(copy, T)
  BY UsingOther, ReadingOther, NodesLacks, Lacks1, LacksWhen, Zenon
<1>4. Lacks(labels, {"rpm"}) /\ Lacks(labels, {"systemd"}) /\ Labelled(labels)
  <2>1. Other(NewSELinuxStage, {"rpm"}) /\ Other(NewSELinuxStage, {"systemd"})
    BY <1>2, PlacedOther
  <2>2. NewSELinuxStage.type \in AfterLabels
    BY DEF NewSELinuxStage, Stage, AfterLabels
  <2> QED
    BY <2>1, <2>2, Lacks1, LacksWhen, OnlyOne, OnlyWhen, NothingPlaced
<1>5. Packed(rpm) /\ Lacks(rpm, {"selinux"}) /\ Lacks(rpm, {"systemd"})
  BY <1>2, PackedOne, PlacedOther, Lacks1
<1> HIDE DEF rpm, deploy, dirs, copy, labels
<1>6. Ordered(rpm \o labels)
  <2>1. Packed(rpm \o labels) /\ Labelled(rpm \o labels)
    BY <1>4, <1>5, PackedThen, LabelledAfter
  <2>2. Lacks(rpm \o labels, {"systemd"})
    BY <1>4, <1>5, LacksConcat
  <2> QED
    BY <2>1, <2>2, NothingPlaced DEF Ordered
<1>7. Ordered(deploy \o dirs \o copy \o labels)
  <2>1. /\ Lacks(deploy \o dirs \o copy, {"selinux"}) /\ Lacks(deploy \o dirs \o copy \o labels, {"rpm"})
        /\ Lacks(deploy \o dirs \o copy \o labels, {"systemd"})
    BY <1>2, <1>3, <1>4, LacksConcat, Zenon
  <2>2. Labelled(deploy \o dirs \o copy \o labels)
    BY <1>4, <2>1, LabelledAfter
  <2> QED
    BY <2>1, <2>2, NothingPlaced DEF Ordered
<1> QED
  BY <1>1, <1>6, <1>7, Zenon

\* Nothing has a place among what makes the partitions ...
LEMMA PrepareLacks ==
    ASSUME NEW T \in SUBSET Placed, NEW c, NEW x
    PROVE  Lacks(GenImagePrepareStages(c, x), T) /\ Lacks(GenImageFinishStages(c), T)
<1>1. /\ Other(NewTruncateStage, T) /\ Other(NewSgdiskStage, T) /\ Other(NewSfdiskStage, T)
      /\ Other(NewLUKS2CreateStage, T) /\ Other(NewClevisLuksBindStage, T) /\ Other(NewLVM2CreateStage, T)
      /\ Other(NewMkfsFATStage, T) /\ Other(NewMkfsExt4Stage, T) /\ Other(NewMkfsXfsStage, T)
      /\ Other(NewMkfsBtrfsStage, T) /\ Other(NewBtrfsSubVol, T) /\ Other(NewMkswapStage, T)
      /\ Other(NewLVM2MetadataStage, T) /\ Other(NewLUKS2RemoveKeyStage, T)
  BY PlainOther
<1> QED
  BY <1>1, ReadingOther, Lacks2, Lacks1, LacksConcat, LacksWhen, Zenon
  DEF GenImagePrepareStages, GenDeviceCreationStages, GenFsStages, GenImageFinishStages

\* ... nor in the images and the archives made of another tree.
LEMMA ImagesLack ==
    ASSUME NEW T \in SUBSET Placed, NEW p, NEW os, NEW om
    PROVE  /\ Lacks(RawImageStages(p, os, om), T) /\ Lacks(RawOSTreeImageStages(p, os, om), T)
           /\ Lacks(ConverterStages(p), T) /\ Lacks(PXETreeStages(p, os, om), T)
           /\ Lacks(OSTreeCommitStages(os), T) /\ Lacks(OSTreeEncapsulateStages(p), T)
           /\ Lacks(OSFromContainerStages(om), T)
           /\ Lacks(BootcRootFSStages(p, os), T) /\ Lacks(BootcPXETreeStages(p), T)
<1>1. /\ Other(NewGrub2InstStage, T) /\ Other(NewBootctlInstallRootStage, T) /\ Other(NewBootupdStage, T)
      /\ Other(NewOVFStage, T) /\ Other(NewChmodStage, T) /\ Other(NewOSTreeInitStage, T)
      /\ Other(NewOSTreeGrub2MountsStage, T)
  BY PlainOther
<1>2. Lacks(RawImageStages(p, os, om), T)
  BY <1>1, UsingOther, ReadingOther, PrepareLacks, Lacks1, LacksConcat, LacksWhen, Zenon
  DEF RawImageStages
<1>3. Lacks(RawOSTreeImageStages(p, os, om), T)
  BY <1>1, ReadingOther, PrepareLacks, Lacks1, LacksConcat, LacksWhen, Zenon DEF RawOSTreeImageStages
<1>4. Lacks(ConverterStages(p), T)
  <2>1. Lacks(OVFStages(p), T)
    BY <1>1, ReadingOther, Lacks2, Zenon DEF OVFStages
  <2>2. Lacks(QCOW2Stages(p), T) /\ Lacks(VMDKStages(p), T) /\ Lacks(VPCStages(p), T)
    BY ReadingOther, Lacks1, Zenon DEF QCOW2Stages, VMDKStages, VPCStages
  <2>3. Lacks(TarStages(p), T) /\ Lacks(OCIContainerStages(p), T)
    BY ReadingOther, Lacks1, Zenon DEF TarStages, OCIContainerStages
  <2>4. Lacks(XZStages(p), T) /\ Lacks(ZstdStages(p), T) /\ Lacks(GzipStages(p), T)
    BY ReadingOther, Lacks1, Zenon DEF XZStages, ZstdStages, GzipStages
  <2>5. Lacks(VagrantStages(p), T)
    BY <2>1, ReadingOther, Lacks1, LacksConcat, LacksWhen, Zenon DEF VagrantStages
  <2> QED
    BY <2>1, <2>2, <2>3, <2>4, <2>5 DEF ConverterStages
<1>5. Lacks(PXETreeStages(p, os, om), T)
  <2>1. Other(IF "Erofs" \in p.opts THEN NewErofsStage({os.name}) ELSE NewSquashfsStage({os.name}), T)
    BY ReadingOther
  <2> QED
    BY <1>1, <2>1, ReadingOther, Lacks5, Zenon DEF PXETreeStages
<1>6. Lacks(OSTreeCommitStages(os), T) /\ Lacks(OSTreeEncapsulateStages(p), T)
  BY <1>1, ReadingOther, Lacks1, Lacks2, Zenon DEF OSTreeCommitStages, OSTreeEncapsulateStages
<1>7. Lacks(OSFromContainerStages(om), T)
  BY UsingOther, StorageLacks, Lacks1, LacksConcat, LacksWhen, Zenon DEF OSFromContainerStages
<1>8. Lacks(BootcRootFSStages(p, os), T)
  <2>1. Other(IF "Erofs" \in p.opts THEN NewErofsStage({}) ELSE NewSquashfsStage({}), T)
    BY ReadingOther
  <2> QED
    BY <1>1, <2>1, ReadingOther, Lacks4, Zenon DEF BootcRootFSStages
<1>9. Lacks(BootcPXETreeStages(p), T)
  BY <1>1, ReadingOther, Lacks6, Zenon DEF BootcPXETreeStages
<1> QED
  BY <1>2, <1>3, <1>4, <1>5, <1>6, <1>7, <1>8, <1>9, Zenon

\* The trees made of packages only.
LEMMA PackagesOrdered ==
    ASSUME NEW p, NEW m
    PROVE  Ordered(OSTreeCommitServerStages(p, m)) /\ Ordered(CoreOSStages(p, m))
<1>1. {"rpm"} \in SUBSET Placed /\ {"selinux"} \in SUBSET Placed /\ {"systemd"} \in SUBSET Placed
  BY DEF Placed
<1> DEFINE rpm == <<NewRPMStage({Rpms(p.name, m.in.version)})>>
<1>2. Packed(rpm) /\ Lacks(rpm, {"selinux"}) /\ Lacks(rpm, {"systemd"})
  BY <1>1, PackedOne, PlacedOther, Lacks1
<1> HIDE DEF rpm
<1>3. ASSUME NEW s, \A T \in SUBSET Placed : Lacks(s, T) PROVE Ordered(rpm \o s)
  <2>1. Packed(rpm \o s) /\ Lacks(rpm \o s, {"selinux"}) /\ Lacks(rpm \o s, {"systemd"})
    BY <1>1, <1>2, <1>3, PackedThen, LacksConcat
  <2> QED
    BY <2>1, NothingPlaced DEF Ordered
<1>4. Ordered(OSTreeCommitServerStages(p, m))
  <2> DEFINE s == <<NewLocaleStage, NewOSTreeInitStage, NewOSTreePullStage({p.of.tree}, {}),
                    NewChmodStage, NewChmodStage, NewNginxConfigStage>>
  <2>1. OSTreeCommitServerStages(p, m) = rpm \o s
    BY Zenon DEF OSTreeCommitServerStages, GenRPMStagesFromTransactions, rpm
  <2>2. ASSUME NEW T \in SUBSET Placed PROVE Lacks(s, T)
    <3>1. /\ Other(NewLocaleStage, T) /\ Other(NewOSTreeInitStage, T) /\ Other(NewChmodStage, T)
          /\ Other(NewNginxConfigStage, T)
      BY PlainOther
    <3> QED
      BY <3>1, ReadingOther, Lacks6, Zenon
  <2> HIDE DEF s
  <2> QED
    BY <1>3, <2>1, <2>2, Zenon
<1>5. Ordered(CoreOSStages(p, m))
  <2> DEFINE s == <<NewBuildstampStage, NewLocaleStage>>
             fdo == When("FDOCerts" \in p.opts, <<NewFDOStageForRootCerts({Inline("FDOCerts")})>>)
             dracut == <<NewDracutStage(m.kernelVer)>>
  <2>1. CoreOSStages(p, m) = rpm \o s \o fdo \o dracut
    BY Zenon DEF CoreOSStages, GenRPMStagesFromTransactions, rpm
  <2>2. ASSUME NEW T \in SUBSET Placed PROVE Lacks(s, T) /\ Lacks(fdo, T) /\ Lacks(dracut, T)
    <3>1. Other(NewBuildstampStage, T) /\ Other(NewLocaleStage, T)
      BY PlainOther
    <3> QED
      BY <3>1, UsingOther, Lacks1, Lacks2, LacksWhen, Zenon
  <2> HIDE DEF s, fdo, dracut
  <2>3. /\ Packed(rpm \o s \o fdo \o dracut) /\ Lacks(rpm \o s \o fdo \o dracut, {"selinux"})
        /\ Lacks(rpm \o s \o fdo \o dracut, {"systemd"})
    BY <1>1, <1>2, <2>2, PackedThen, LacksConcat, Zenon
  <2> QED
    BY <2>1, <2>3, NothingPlaced DEF Ordered
<1> QED
  BY <1>4, <1>5

\* The files that register a system have a unit, and enable nothing: the kickstart does.
LEMMA SubscriptionOrdered == ASSUME NEW p, NEW m PROVE Ordered(SubscriptionStages(p, m))
<1>1. ASSUME NEW T \in SUBSET Placed, "systemd.unit.create" \notin T
      PROVE  Lacks(SubscriptionStages(p, m), T)
  <2>1. Other(NewSystemdUnitCreateStage, T)
    BY <1>1, PlacedOther
  <2> QED
    BY <2>1, NodesLacks, Lacks1, LacksConcat, LacksWhen, Zenon DEF SubscriptionStages, SubscriptionUnit
<1>2. {"rpm"} \in SUBSET Placed /\ {"selinux"} \in SUBSET Placed /\ {"systemd"} \in SUBSET Placed
  BY DEF Placed
<1> QED
  BY <1>1, <1>2, NothingPlaced DEF Ordered

\* A deployment: when the mount points get a unit, services are enabled at the end.
LEMMA DeploymentOrdered == ASSUME NEW p, NEW m PROVE Ordered(OSTreeDeploymentStages(p, m))
<1> DEFINE c == p.opts
           start == <<OSTreeInitFsStage, NewOSTreeOsInitStage, NewMkdirStage>>
           deploy == IF m.in.commits # {} THEN doOSTreeSpec(c, m) ELSE doOSTreeContainerSpec(m)
           config == <<NewOSTreeConfigStage>>
           mounts == filesystemConfigStages(c)
           groups == Opt(c, "Groups", NewGroupsStage)
           users == Opt(c, "Users", NewUsersStage)
           ignition == When("Ignition" \in c, OSTreeIgnitionStages(c))
           root == When("LockRootUser" \in c /\ ~({"Users", "RootUser"} \subseteq c), <<NewUsersStage>>)
           keyboard == Opt(c, "Keyboard", NewKeymapStage)
           language == Opt(c, "Language", NewLocaleStage)
           fips == When("FIPS" \in c, GenFileNodesStages(GenFIPSFiles) \o GenFIPSStages)
           grub == When("UseBootupd" \notin c, <<NewGRUB2Stage(NoKernel)>>)
           dirs == GenDirectoryNodesStages(CustomDirectories(c))
           files == GenFileNodesStages(CustomFiles(c, m))
           services == When(OSTreeDeploymentServices(c), <<NewSystemdStage>>)
           labels == <<NewOSTreeSelinuxStage>>
           first == start \o deploy \o config
           all == first \o mounts \o groups \o users \o ignition \o root \o keyboard \o language
                    \o fips \o grub \o dirs \o files
<1>1. OSTreeDeploymentStages(p, m) = all \o services \o labels
  BY Zenon DEF OSTreeDeploymentStages
<1>2. ASSUME NEW T \in SUBSET Placed
      PROVE  /\ Lacks(start, T) /\ Lacks(deploy, T) /\ Lacks(config, T) /\ Lacks(groups, T)
             /\ Lacks(users, T) /\ Lacks(root, T) /\ Lacks(keyboard, T) /\ Lacks(language, T)
             /\ Lacks(fips, T) /\ Lacks(grub, T) /\ Lacks(dirs, T) /\ Lacks(files, T) /\ Lacks(labels, T)
  <2>1. /\ Other(OSTreeInitFsStage, T) /\ Other(NewOSTreeOsInitStage, T) /\ Other(NewMkdirStage, T)
        /\ Other(NewOSTreeConfigStage, T) /\ Other(NewGroupsStage, T) /\ Other(NewUsersStage, T)
        /\ Other(NewKeymapStage, T) /\ Other(NewLocaleStage, T) /\ Other(NewOSTreeSelinuxStage, T)
        /\ Other(NewUpdateCryptoPoliciesStage, T) /\ Other(NewDracutConfStage, T)
        /\ Other(NewOSTreeDeployStage, T) /\ Other(NewOSTreeRemotesStage, T)
        /\ Other(NewOSTreeFillvarStage, T)
    BY PlainOther
  <2>2. Lacks(doOSTreeSpec(c, m), T)
    BY <2>1, ReadingOther, Lacks1, Lacks2, LacksConcat, LacksWhen, Zenon DEF doOSTreeSpec
  <2>3. Lacks(doOSTreeContainerSpec(m), T)
    BY UsingOther, Lacks1, Zenon DEF doOSTreeContainerSpec
  <2>4. Lacks(deploy, T)
    BY <2>2, <2>3
  <2>5. Lacks(fips, T)
    BY <2>1, NodesLacks, Lacks2, LacksConcat, LacksWhen, Zenon DEF GenFIPSStages
  <2>6. Lacks(grub, T)
    BY UsingOther, Lacks1, LacksWhen, Zenon
  <2> QED
    BY <2>1, <2>4, <2>5, <2>6, NodesLacks, OptLacks, Lacks1, Lacks3, LacksWhen, Zenon
<1>3. ASSUME NEW T \in SUBSET Placed
      PROVE  /\ "systemd.unit.create" \notin T \/ ~ OSTreeDeploymentServices(c) => Lacks(ignition, T)
             /\ "systemd" \notin T /\ "systemd.unit.create" \notin T => Lacks(mounts, T)
             /\ "systemd" \notin T => Lacks(services, T)
  <2>1. Other(NewIgnitionStage, T) /\ Other(NewSystemdPresetStage, T)
    BY PlainOther
  <2>2. ASSUME "systemd.unit.create" \notin T PROVE Lacks(ignition, T)
    <3>1. Other(NewSystemdUnitCreateStage, T)
      BY <2>2, PlacedOther
    <3> QED
      BY <2>1, <3>1, Lacks1, LacksConcat, LacksWhen, Zenon DEF OSTreeIgnitionStages
  <2>3. ASSUME ~ OSTreeDeploymentServices(c) PROVE Lacks(ignition, T)
    <3>1. CASE "Ignition" \notin c
      BY <3>1, LacksEmpty DEF When
    <3>2. CASE "Ignition" \in c
      <4>1. "CustomFileSystems" \notin c
        BY <2>3, <3>2 DEF OSTreeDeploymentServices
      <4>2. When("CustomFileSystems" \in c, <<NewSystemdUnitCreateStage>>) = << >>
        BY <4>1 DEF When
      <4>3. Lacks(When("CustomFileSystems" \in c, <<NewSystemdUnitCreateStage>>), T)
        BY <4>2, LacksEmpty
      <4> QED
        BY <2>1, <4>3, Lacks1, LacksConcat, LacksWhen, Zenon DEF OSTreeIgnitionStages
    <3> QED
      BY <3>1, <3>2
  <2>4. "systemd" \notin T => Lacks(services, T)
    BY PlacedOther, Lacks1, LacksWhen
  <2> QED
    BY <2>2, <2>3, <2>4, MountsLacks
<1>4. Served(mounts)
  BY MountsServed
<1>5. OSTreeDeploymentServices(c) => services = <<NewSystemdStage>>
  BY DEF When
<1>6. ~ OSTreeDeploymentServices(c) => services = << >>
  BY DEF When
<1> HIDE DEF start, deploy, config, mounts, groups, users, ignition, root, keyboard, language, fips, grub,
             dirs, files, services, labels, c
<1>7. /\ {"rpm"} \in SUBSET Placed /\ {"selinux"} \in SUBSET Placed /\ {"systemd"} \in SUBSET Placed
      /\ {"systemd.unit.create"} \in SUBSET Placed
  BY DEF Placed
<1>8. ASSUME NEW T \in SUBSET Placed, "systemd" \notin T, "systemd.unit.create" \notin T
      PROVE  Lacks(all \o services \o labels, T)
  BY <1>2, <1>3, <1>8, LacksConcat, ZenonT(60)
<1>9. Served(all \o services)
  <2>1. CASE OSTreeDeploymentServices(c)
    <3>1. ASSUME NEW T \in SUBSET Placed, "systemd" \notin T, "systemd.unit.create" \notin T
          PROVE  Lacks(all, T)
      BY <1>2, <1>3, <3>1, LacksConcat, ZenonT(60)
    <3>2. IsSeq(all)
      BY <1>7, <3>1 DEF Lacks
    <3>3. NewSystemdStage.type = "systemd"
      BY DEF NewSystemdStage, Stage
    <3> HIDE DEF all
    <3> QED
      BY <1>5, <2>1, <3>2, <3>3, ServedLast
  <2>2. CASE ~ OSTreeDeploymentServices(c)
    <3> DEFINE U == {"systemd.unit.create"}
    <3>1. /\ Lacks(start, U) /\ Lacks(deploy, U) /\ Lacks(config, U) /\ Lacks(groups, U)
          /\ Lacks(users, U) /\ Lacks(root, U) /\ Lacks(keyboard, U) /\ Lacks(language, U)
          /\ Lacks(fips, U) /\ Lacks(grub, U) /\ Lacks(dirs, U) /\ Lacks(files, U)
          /\ Lacks(ignition, U) /\ Lacks(services, U)
      BY <1>2, <1>3, <1>6, <1>7, <2>2, LacksEmpty
    <3>2. /\ Served(start) /\ Served(deploy) /\ Served(config) /\ Served(groups)
          /\ Served(users) /\ Served(root) /\ Served(keyboard) /\ Served(language)
          /\ Served(fips) /\ Served(grub) /\ Served(dirs) /\ Served(files)
          /\ Served(ignition) /\ Served(services)
      BY <3>1, NothingPlaced
    <3> QED
      BY <1>4, <3>2, ServedConcat, ZenonT(60)
  <2> QED
    BY <2>1, <2>2
<1>10. Served(all \o services \o labels)
  <2>1. Served(labels)
    BY <1>2, <1>7, NothingPlaced
  <2> HIDE DEF all
  <2> QED
    BY <1>9, <2>1, ServedConcat
<1> HIDE DEF all
<1> QED
  BY <1>1, <1>7, <1>8, <1>10, NothingPlaced DEF Ordered

\* A bootable container on a disk: every unit is enabled with the files it comes with, and
\* the tree is labelled twice, last.
LEMMA RawBootcOrdered == ASSUME NEW p, NEW m PROVE Ordered(RawBootcImageStages(p, m))
<1> DEFINE c == p.opts
           U == {"systemd.unit.create"}
<1>1. /\ {"rpm"} \in SUBSET Placed /\ {"selinux"} \in SUBSET Placed /\ {"systemd"} \in SUBSET Placed
      /\ U \in SUBSET Placed
  BY DEF Placed
<1>2. Served(RawBootcSubscriptionStages(c))
  <2> DEFINE s == <<SubscriptionUnit>> \o GenDirectoryNodesStages(SubscriptionDirs(c, TRUE))
                    \o GenFileNodesStages(SubscriptionFiles(c, TRUE))
  <2>1. RawBootcSubscriptionStages(c) = s \o <<NewSystemdStage>>
    BY Zenon DEF RawBootcSubscriptionStages
  <2>2. Lacks(s, {})
    <3>1. {} \in SUBSET Placed /\ Other(SubscriptionUnit, {})
      BY DEF Other
    <3> QED
      BY <3>1, NodesLacks, Lacks1, LacksConcat, Zenon
  <2>3. NewSystemdStage.type = "systemd"
    BY DEF NewSystemdStage, Stage
  <2> HIDE DEF s
  <2> QED
    BY <2>1, <2>2, <2>3, ServedLast DEF Lacks
<1>3. ASSUME NEW T \in SUBSET Placed, "systemd" \notin T, "systemd.unit.create" \notin T
      PROVE  Lacks(RawBootcPostStages(c, m), T)
  <2>1. /\ Other(NewGroupsStage, T) /\ Other(NewUsersStage, T) /\ Other(NewIgnitionStage, T)
        /\ Other(NewGrub2DStage, T) /\ Other(NewMkdirStage, T)
    BY PlainOther
  <2>2. Other(NewSystemdStage, T) /\ Other(NewSystemdUnitCreateStage, T)
    BY <1>3, PlacedOther
  <2>3. Lacks(RawBootcSubscriptionStages(c), T)
    BY <2>2, NodesLacks, Lacks1, LacksConcat, Zenon DEF RawBootcSubscriptionStages, SubscriptionUnit
  <2>4. Lacks(filesystemConfigStages(c), T)
    BY <1>3, MountsLacks
  <2> QED
    BY <2>1, <2>3, <2>4, NodesLacks, OptLacks, Lacks1, LacksConcat, LacksWhen, Zenon
    DEF RawBootcPostStages, buildHomedirPaths
<1>4. Served(RawBootcPostStages(c, m))
  <2> DEFINE mounts == filesystemConfigStages(c)
             groups == Opt(c, "Groups", NewGroupsStage)
             homes == buildHomedirPaths(c)
             users == Opt(c, "Users", NewUsersStage)
             live == When("LiveBoot" \in c, GenDirectoryNodesStages({Directory(TRUE, FALSE)}))
             subscription == When("Subscription" \in c, RawBootcSubscriptionStages(c))
             dirs == GenDirectoryNodesStages(CustomDirectories(c))
             files == GenFileNodesStages(CustomFiles(c, m))
             ignition == Opt(c, "Ignition", NewIgnitionStage)
             grub == Opt(c, "Grub2Config", NewGrub2DStage)
  <2>1. RawBootcPostStages(c, m)
          = mounts \o groups \o homes \o users \o live \o subscription \o dirs \o files \o ignition \o grub
    BY Zenon DEF RawBootcPostStages
  <2>2. /\ Lacks(groups, U) /\ Lacks(homes, U) /\ Lacks(users, U) /\ Lacks(live, U) /\ Lacks(dirs, U)
        /\ Lacks(files, U) /\ Lacks(ignition, U) /\ Lacks(grub, U)
    <3>1. /\ Other(NewGroupsStage, U) /\ Other(NewUsersStage, U) /\ Other(NewIgnitionStage, U)
          /\ Other(NewGrub2DStage, U) /\ Other(NewMkdirStage, U)
      BY <1>1, PlainOther
    <3> QED
      BY <1>1, <3>1, NodesLacks, OptLacks, Lacks1, LacksWhen, Zenon DEF buildHomedirPaths
  <2>3. Served(mounts)
    BY MountsServed
  <2>4. Served(subscription)
    <3>1. Served(<< >>)
      BY <1>1, LacksEmpty, NothingPlaced
    <3> QED
      BY <1>2, <3>1 DEF When
  <2> HIDE DEF mounts, groups, homes, users, live, subscription, dirs, files, ignition, grub
  <2>5. /\ Served(groups) /\ Served(homes) /\ Served(users) /\ Served(live) /\ Served(dirs)
        /\ Served(files) /\ Served(ignition) /\ Served(grub)
    BY <2>2, NothingPlaced
  <2> QED
    BY <2>1, <2>3, <2>4, <2>5, ServedConcat, Zenon
<1> DEFINE post == When("UnifiedKernel" \notin c, RawBootcPostStages(c, m))
           prepare == GenImagePrepareStages(c \ {"Sgdisk"},
                                            IF "target" \in DOMAIN p.of THEN p.of.target ELSE p.build)
           install == <<NewBootcInstallToFilesystemStage(NewContainersInput(m.in.containers))>>
           finish == GenImageFinishStages(c)
           labels == When("SELinux" \in c /\ post # << >>, <<NewSELinuxStage, NewSELinuxStage>>)
<1>5. RawBootcImageStages(p, m) = prepare \o install \o finish \o post \o labels
  BY Zenon DEF RawBootcImageStages
<1>6. ASSUME NEW T \in SUBSET Placed PROVE Lacks(prepare, T) /\ Lacks(install, T) /\ Lacks(finish, T)
  BY PrepareLacks, UsingOther, Lacks1, Zenon
<1>7. /\ Served(post)
      /\ \A T \in SUBSET Placed : "systemd" \notin T /\ "systemd.unit.create" \notin T => Lacks(post, T)
  <2>1. Served(<< >>)
    BY <1>1, LacksEmpty, NothingPlaced
  <2> QED
    BY <1>3, <1>4, <2>1, LacksWhen DEF When
<1>8. /\ Lacks(labels, {"rpm"}) /\ Lacks(labels, U) /\ Labelled(labels)
  <2>1. Other(NewSELinuxStage, {"rpm"}) /\ Other(NewSELinuxStage, U)
    BY <1>1, PlacedOther
  <2>2. NewSELinuxStage.type \in AfterLabels
    BY DEF NewSELinuxStage, Stage, AfterLabels
  <2>3. Only(<<NewSELinuxStage, NewSELinuxStage>>, AfterLabels)
    BY <2>2, OnlyOne, OnlyConcat, Pair
  <2> QED
    BY <2>1, <2>3, Lacks2, LacksWhen, OnlyWhen, NothingPlaced
<1> HIDE DEF post, prepare, install, finish, labels
<1>9. Packed(RawBootcImageStages(p, m))
  <2>1. Lacks(prepare \o install \o finish \o post \o labels, {"rpm"})
    BY <1>1, <1>6, <1>7, <1>8, LacksConcat
  <2> QED
    BY <1>5, <2>1, NothingPlaced
<1>10. Labelled(RawBootcImageStages(p, m))
  <2>1. Lacks(prepare \o install \o finish \o post, {"selinux"})
    BY <1>1, <1>6, <1>7, LacksConcat
  <2> QED
    BY <1>5, <1>8, <2>1, LabelledAfter
<1>11. Enabled(RawBootcImageStages(p, m))
  <2>1. Served(prepare) /\ Served(install) /\ Served(finish) /\ Served(labels)
    BY <1>1, <1>6, <1>8, NothingPlaced
  <2>2. Served(prepare \o install \o finish \o post \o labels)
    BY <1>7, <2>1, ServedConcat, Zenon
  <2> QED
    BY <1>5, <2>2, NothingPlaced
<1> QED
  BY <1>9, <1>10, <1>11 DEF Ordered

\* The tree of the installer: packages or a container first; a live one is labelled last.
LEMMA AnacondaOrdered == ASSUME NEW p, NEW m PROVE Ordered(AnacondaStages(p, m))
<1> DEFINE c == p.opts
           rpm == <<NewRPMStage({Rpms(p.name, m.in.version)})>>
           deploy == <<NewContainerDeployStage(NewContainersInput(m.in.containers))>>
           first == IF m.in.version # 0 THEN rpm ELSE deploy
           payload == When("Payload" \in c, AnacondaPayloadConfig(c, m))
           stamp == <<NewBuildstampStage, NewLocaleStage>>
           last == IF "Live" \in c THEN liveStages(c, m) ELSE payloadStages(c, m)
           U == {"systemd.unit.create"}
<1>1. AnacondaStages(p, m) = first \o payload \o stamp \o last
  BY Zenon DEF AnacondaStages, GenRPMStagesFromTransactions
<1>2. {"rpm"} \in SUBSET Placed /\ {"selinux"} \in SUBSET Placed /\ U \in SUBSET Placed
  BY DEF Placed
<1>3. Packed(first) /\ Lacks(first, {"selinux"}) /\ Lacks(first, U)
  <2>1. Packed(rpm) /\ Lacks(rpm, {"selinux"}) /\ Lacks(rpm, U)
    BY <1>2, PackedOne, PlacedOther, Lacks1
  <2>2. Packed(deploy) /\ Lacks(deploy, {"selinux"}) /\ Lacks(deploy, U)
    BY <1>2, PackedOne, UsingOther, Lacks1
  <2> QED
    BY <2>1, <2>2
<1>4. ASSUME NEW T \in SUBSET Placed PROVE Lacks(payload, T) /\ Lacks(stamp, T)
  <2>1. /\ Other(NewKickstartStage, T) /\ Other(NewOSTreeInitStage, T) /\ Other(NewBuildstampStage, T)
        /\ Other(NewLocaleStage, T)
    BY PlainOther
  <2>2. Lacks(AnacondaCommitStages(m), T) /\ Lacks(AnacondaFlatpakStages(m), T)
    BY <2>1, UsingOther, ReadingOther, Lacks2, Zenon DEF AnacondaCommitStages, AnacondaFlatpakStages
  <2> QED
    BY <2>1, <2>2, Lacks1, Lacks2, LacksConcat, LacksWhen, Zenon DEF AnacondaPayloadConfig
<1>5. ASSUME NEW T \in SUBSET Placed, "systemd" \notin T
      PROVE  /\ Lacks(payloadStages(c, m), T)
             /\ \A f : Lacks(<<NewUsersStage, NewSystemdStage>> \o GenFileNodesStages(f)
                               \o <<NewDracutStage(m.kernelVer)>>, T)
  <2>1. /\ Other(NewUsersStage, T) /\ Other(NewAnacondaStage, T) /\ Other(NewLoraxScriptStage, T)
        /\ Other(NewSystemdLogindStage, T) /\ Other(NewSELinuxConfigStage, T)
    BY PlainOther
  <2>2. Other(NewSystemdStage, T)
    BY <1>5, PlacedOther
  <2>3. Lacks(<<NewCopyStage({}, {}), NewSystemdLogindStage, NewSystemdStage>>, T)
    BY <2>1, <2>2, ReadingOther, Lacks3, Zenon
  <2>4. Lacks(payloadStages(c, m), T)
    BY <2>1, <2>3, UsingOther, Lacks1, LacksConcat, LacksWhen, Zenon DEF payloadStages
  <2> QED
    BY <2>1, <2>2, <2>4, UsingOther, NodesLacks, Lacks1, Lacks2, LacksConcat, Zenon
<1>6. Lacks(last, {"rpm"}) /\ Lacks(last, U) /\ Labelled(last)
  <2> DEFINE live == <<NewUsersStage, NewSystemdStage>> \o GenFileNodesStages({File(Inline("livesys"))})
                       \o <<NewDracutStage(m.kernelVer)>>
             labels == When("SELinux" \in c, <<NewSELinuxStage>>)
  <2>1. liveStages(c, m) = live \o labels
    BY Zenon DEF liveStages
  <2>2. Lacks(live, {"rpm"}) /\ Lacks(live, {"selinux"}) /\ Lacks(live, U)
    BY <1>2, <1>5
  <2>3. Lacks(labels, {"rpm"}) /\ Lacks(labels, U) /\ Labelled(labels)
    <3>1. Other(NewSELinuxStage, {"rpm"}) /\ Other(NewSELinuxStage, U)
      BY <1>2, PlacedOther
    <3>2. NewSELinuxStage.type \in AfterLabels
      BY DEF NewSELinuxStage, Stage, AfterLabels
    <3> QED
      BY <3>1, <3>2, Lacks1, LacksWhen, OnlyOne, OnlyWhen, NothingPlaced
  <2> HIDE DEF live, labels
  <2>4. Lacks(live \o labels, {"rpm"}) /\ Lacks(live \o labels, U) /\ Labelled(live \o labels)
    BY <2>2, <2>3, LacksConcat, LabelledAfter
  <2>5. /\ Lacks(payloadStages(c, m), {"rpm"}) /\ Lacks(payloadStages(c, m), U)
        /\ Labelled(payloadStages(c, m))
    BY <1>2, <1>5, NothingPlaced
  <2> QED
    BY <2>1, <2>4, <2>5
<1> HIDE DEF first, payload, stamp, last
<1>7. Packed(first \o payload \o stamp \o last)
  BY <1>2, <1>3, <1>4, <1>6, PackedThen
<1>8. Labelled(first \o payload \o stamp \o last)
  <2>1. Lacks(first \o payload \o stamp, {"selinux"})
    BY <1>2, <1>3, <1>4, LacksConcat
  <2> QED
    BY <1>6, <2>1, LabelledAfter
<1>9. Lacks(first \o payload \o stamp \o last, U)
  BY <1>2, <1>3, <1>4, <1>6, LacksConcat
<1> QED
  BY <1>1, <1>7, <1>8, <1>9, NothingPlaced DEF Ordered

\* The trees of the ISOs, what they boot with and the ISOs.
LEMMA ISOsLack ==
    ASSUME NEW T \in SUBSET Placed, NEW p, NEW m, NEW a, NEW am
    PROVE  /\ Lacks(CoreOSISOTreeStages(p, a, am), T) /\ Lacks(EFIBootTreeStages, T)
           /\ Lacks(ISOTreeStages(p, m, a, am), T) /\ Lacks(ContainerISOTreeStages(p), T)
           /\ Lacks(ISORootfsStages(p), T) /\ Lacks(ISOStages(p), T)
<1>1. /\ Other(NewMkdirStage, T) /\ Other(NewTruncateStage, T) /\ Other(NewMkfsFATStage, T)
      /\ Other(NewGrubISOStage, T) /\ Other(NewGrub2ISOLegacyStage, T) /\ Other(NewGrub2InstStage, T)
      /\ Other(NewCreateaddrsizeStage, T) /\ Other(NewMkS390ImageStage, T) /\ Other(NewKickstartStage, T)
      /\ Other(NewDiscinfoStage, T) /\ Other(NewOSTreeInitStage, T) /\ Other(NewMkfsExt4Stage, T)
      /\ Other(NewImplantisomd5Stage, T)
  BY PlainOther
<1>2. \A x, y : /\ Other(NewCopyStage(x, y), T) /\ Other([NewCopyStage(x, {}) EXCEPT !.kernel = y], T)
                /\ Other(NewISOLinuxStage(x), T) /\ Other(NewTarStage(x), T)
                /\ Other(NewErofsStage(x), T) /\ Other(NewSquashfsStage(x), T)
                /\ Other([NewXorrisofsStage(x) EXCEPT !.use = y], T)
                /\ Other(NewOSTreePullStage(x, y), T) /\ Other(NewSkopeoStageWithOCI(x), T)
  BY ReadingOther, UsingOther, Zenon
<1>3. Lacks(CoreOSISOTreeStages(p, a, am), T)
  BY <1>1, <1>2, Lacks5, Lacks1, LacksConcat, LacksWhen, Zenon DEF CoreOSISOTreeStages
<1>4. Lacks(EFIBootTreeStages, T)
  BY <1>1, Lacks1, Zenon DEF EFIBootTreeStages
<1>5. Lacks(BootloaderStages(p, a.name), T)
  <2>1. Lacks(ISOLinuxGetISOBootStages(a.name), T)
    BY <1>2, Lacks1, Zenon DEF ISOLinuxGetISOBootStages
  <2>2. Lacks(Grub2X86GetISOBootStages, T)
    BY <1>1, Lacks2, Zenon DEF Grub2X86GetISOBootStages
  <2>3. Lacks(Grub2PPC64GetISOBootStages, T) /\ Lacks(S390GetISOBootStages, T)
    BY <1>1, NodesLacks, Lacks2, LacksConcat, Zenon DEF Grub2PPC64GetISOBootStages, S390GetISOBootStages
  <2>4. Lacks(EFIGetISOBootStages(p), T)
    BY <1>1, <1>2, Lacks4, Zenon DEF EFIGetISOBootStages
  <2> QED
    BY <2>1, <2>2, <2>3, <2>4, LacksConcat, LacksWhen, Zenon DEF BootloaderStages
<1>6. Lacks(makeKickstartStages(p), T) /\ Lacks(bootcInstallerKickstartStages(p), T)
  BY <1>1, <1>2, NodesLacks, Lacks1, Lacks2, LacksConcat, LacksWhen, Zenon
  DEF makeKickstartStages, bootcInstallerKickstartStages
<1>7. Lacks(ISOTreePayloadStages(p, m, am), T)
  <2>1. Lacks(ISOTreeCommitStages(p, m), T)
    BY <1>1, <1>2, Lacks2, LacksWhen, Zenon DEF ISOTreeCommitStages
  <2>2. Lacks(ostreeContainerStages(p, m), T)
    BY <1>1, <1>2, <1>6, Lacks2, LacksConcat, Zenon DEF ostreeContainerStages
  <2>3. Lacks(tarPayloadStages(p), T)
    BY <1>2, <1>6, Lacks1, LacksConcat, LacksWhen, Zenon DEF tarPayloadStages
  <2> QED
    BY <1>6, <2>1, <2>2, <2>3, LacksConcat, LacksWhen, Zenon DEF ISOTreePayloadStages
<1>8. Lacks(ISOTreeStages(p, m, a, am), T)
  <2>1. Other(ISOTreeRootfsStage(p, a), T)
    BY <1>2, Zenon DEF ISOTreeRootfsStage
  <2>2. Lacks(<<[NewCopyStage({a.name}, {}) EXCEPT !.kernel = ISOKernel(am)], ISOTreeRootfsStage(p, a)>>, T)
    BY <1>2, <2>1, Lacks2, Zenon
  <2> QED
    BY <1>1, <1>5, <1>6, <1>7, <2>2, Lacks1, LacksConcat, LacksWhen, Zenon DEF ISOTreeStages
<1>9. Lacks(ContainerISOTreeStages(p), T)
  <2> DEFINE rootfs == IF "Erofs" \in p.opts THEN NewErofsStage({p.of.tree})
                       ELSE NewSquashfsStage({p.of.tree})
             efi == NewCopyStage({p.of.efi}, {})
             copy == NewCopyStage({p.of.tree}, {})
  <2>1. Other(rootfs, T) /\ Other(efi, T) /\ Other(copy, T)
    BY ReadingOther
  <2> HIDE DEF rootfs, efi, copy
  <2>2. /\ Lacks(<<NewMkdirStage, copy, rootfs, NewGrub2ISOLegacyStage, NewGrub2InstStage>>, T)
        /\ Lacks(<<NewTruncateStage, NewMkfsFATStage, efi, efi, NewDiscinfoStage>>, T)
    BY <1>1, <2>1, Lacks5, Zenon
  <2>3. <<NewMkdirStage, copy, rootfs, NewGrub2ISOLegacyStage, NewGrub2InstStage, NewTruncateStage,
          NewMkfsFATStage, efi, efi, NewDiscinfoStage>>
          = <<NewMkdirStage, copy, rootfs, NewGrub2ISOLegacyStage, NewGrub2InstStage>>
              \o <<NewTruncateStage, NewMkfsFATStage, efi, efi, NewDiscinfoStage>>
    OBVIOUS
  <2>4. ContainerISOTreeStages(p) =
          <<NewMkdirStage, copy, rootfs, NewGrub2ISOLegacyStage, NewGrub2InstStage, NewTruncateStage,
            NewMkfsFATStage, efi, efi, NewDiscinfoStage>>
    BY DEF ContainerISOTreeStages, rootfs, efi, copy
  <2> QED
    BY <2>2, <2>3, <2>4, LacksConcat, Zenon
<1>10. Lacks(ISORootfsStages(p), T) /\ Lacks(ISOStages(p), T)
  BY <1>1, <1>2, Lacks4, Lacks2, Zenon DEF ISORootfsStages, ISOStages
<1> QED
  BY <1>3, <1>4, <1>8, <1>9, <1>10, Zenon

\* Whatever the pipeline and the memory of the objects, the stages keep the order.
LEMMA SerializeOrdered == ASSUME NEW p, NEW pls, NEW now PROVE Ordered(serialize(p, pls, now))
<1> DEFINE m == now[p.name]
           tree == Named(pls, p.of["tree"])
           tm == now[p.of["tree"]]
           coi == Named(pls, p.of["coi"])
           cm == now[p.of["coi"]]
           anaconda == Named(pls, p.of["anaconda"])
           am == now[p.of["anaconda"]]
           s == serialize(p, pls, now)
<1>1. s =
    CASE p.kind = "buildroot" -> BuildrootFromPackagesStages(p, m)
      [] p.kind = "buildroot-container" -> BuildrootFromContainerStages(p, m)
      [] p.kind = "os" -> OSStages(p, m)
      [] p.kind = "raw" -> RawImageStages(p, tree, tm)
      [] p.kind \in Converters -> ConverterStages(p)
      [] p.kind = "pxe-tree" -> PXETreeStages(p, tree, tm)
      [] p.kind = "subscription" -> SubscriptionStages(p, m)
      [] p.kind = "ostree-commit" -> OSTreeCommitStages(tree)
      [] p.kind = "commit-server" -> OSTreeCommitServerStages(p, m)
      [] p.kind = "ostree-encapsulate" -> OSTreeEncapsulateStages(p)
      [] p.kind = "os-from-container" -> OSFromContainerStages(m)
      [] p.kind = "ostree-deployment" -> OSTreeDeploymentStages(p, m)
      [] p.kind = "raw-ostree" -> RawOSTreeImageStages(p, tree, tm)
      [] p.kind = "raw-bootc" -> RawBootcImageStages(p, m)
      [] p.kind = "bootc-rootfs" -> BootcRootFSStages(p, tree)
      [] p.kind = "bootc-pxe-tree" -> BootcPXETreeStages(p)
      [] p.kind = "anaconda" -> AnacondaStages(p, m)
      [] p.kind = "coi" -> CoreOSStages(p, m)
      [] p.kind = "coi-iso-tree" -> CoreOSISOTreeStages(p, coi, cm)
      [] p.kind = "efi-boot-tree" -> EFIBootTreeStages
      [] p.kind = "anaconda-iso-tree" -> ISOTreeStages(p, m, anaconda, am)
      [] p.kind = "container-iso-tree" -> ContainerISOTreeStages(p)
      [] p.kind = "iso-rootfs" -> ISORootfsStages(p)
      [] OTHER -> ISOStages(p)
  BY Zenon DEF serialize
<1> HIDE DEF s, m, tree, tm, coi, cm, anaconda, am
<1>2. Placed \in SUBSET Placed
  OBVIOUS
<1>3. /\ Ordered(RawImageStages(p, tree, tm)) /\ Ordered(RawOSTreeImageStages(p, tree, tm))
      /\ Ordered(ConverterStages(p)) /\ Ordered(PXETreeStages(p, tree, tm))
      /\ Ordered(OSTreeCommitStages(tree)) /\ Ordered(OSTreeEncapsulateStages(p))
      /\ Ordered(OSFromContainerStages(m))
      /\ Ordered(BootcRootFSStages(p, tree)) /\ Ordered(BootcPXETreeStages(p))
  BY <1>2, ImagesLack, Unplaced, Zenon
<1>4. /\ Ordered(CoreOSISOTreeStages(p, coi, cm)) /\ Ordered(EFIBootTreeStages)
      /\ Ordered(ISOTreeStages(p, m, anaconda, am)) /\ Ordered(ContainerISOTreeStages(p))
      /\ Ordered(ISORootfsStages(p)) /\ Ordered(ISOStages(p))
  BY <1>2, ISOsLack, Unplaced, Zenon
<1>5. /\ Ordered(BuildrootFromPackagesStages(p, m)) /\ Ordered(BuildrootFromContainerStages(p, m))
      /\ Ordered(OSStages(p, m)) /\ Ordered(OSTreeDeploymentStages(p, m))
      /\ Ordered(RawBootcImageStages(p, m)) /\ Ordered(AnacondaStages(p, m))
      /\ Ordered(OSTreeCommitServerStages(p, m)) /\ Ordered(CoreOSStages(p, m))
      /\ Ordered(SubscriptionStages(p, m))
  BY BuildOrdered, OSOrdered, DeploymentOrdered, RawBootcOrdered, AnacondaOrdered, PackagesOrdered,
     SubscriptionOrdered, Zenon
<1>6. Ordered(s)
  BY <1>1, <1>3, <1>4, <1>5
<1> QED
  BY <1>6 DEF s

-----------------------------------------------------------------------------
(* The inductive invariant of the order: no step touches what has been     *)
(* serialized, and a pipeline is serialized into an ordered tree.          *)

OrderInv == IsSeq(out) /\ \A i \in DOMAIN out : Ordered(out[i].stages)

\* One more pipeline is serialized.
LEMMA OrderSerialize == ASSUME OrderInv, SerializePipeline PROVE OrderInv'
<1> DEFINE p == pipelines[idx]
           e == [name |-> p.name, build |-> p.build,
                 stages |-> serialize(p, pipelines, [mem EXCEPT ![p.name].hashed = world])]
<1>1. out' = out \/ out' = out \o <<e>>
  <2>1. out' = out \/ out' = Append(out, e)
    BY DEF SerializePipeline
  <2>2. Append(out, e) = out \o <<e>>
    <3> HIDE DEF e
    <3>1. PICK S : out \in Seq(S)
      BY DEF OrderInv, IsSeq
    <3>2. out \in Seq(S \union {e}) /\ e \in S \union {e}
      BY <3>1, SeqUnion
    <3> QED
      BY <3>2
  <2> QED
    BY <2>1, <2>2, Zenon
<1>2. Ordered(e.stages)
  BY SerializeOrdered
<1> HIDE DEF e
<1>3. CASE out' = out
  BY <1>3 DEF OrderInv
<1>4. CASE out' = out \o <<e>>
  <2>1. IsSeq(out) /\ IsSeq(<<e>>) /\ Len(<<e>>) = 1 /\ <<e>>[1] = e
    BY Short DEF OrderInv
  <2>2. ASSUME NEW i \in DOMAIN (out \o <<e>>) PROVE Ordered((out \o <<e>>)[i].stages)
    <3>1. CASE i \in 1 .. Len(out)
      <4>1. (out \o <<e>>)[i] = out[i] /\ i \in DOMAIN out
        BY <2>1, <3>1, Joined
      <4> QED
        BY <4>1 DEF OrderInv
    <3>2. CASE i \notin 1 .. Len(out)
      <4>1. i = Len(out) + 1
        BY <2>1, <3>2, Joined
      <4>2. (out \o <<e>>)[i] = e
        BY <2>1, <4>1, Joined
      <4> QED
        BY <1>2, <4>2
    <3> QED
      BY <3>1, <3>2
  <2> QED
    BY <1>4, <2>1, <2>2, Joined DEF OrderInv
<1> QED
  BY <1>1, <1>3, <1>4

\* TreeOrder holds for every image, whatever its options and however often its manifest is
\* serialized: packages are installed before anything else touches a tree, whatever is
\* written is written before the labels, and units exist before services are enabled.
THEOREM InOrder == Spec => []TreeOrder
<1>1. IsSeq(<< >>) /\ \A i \in DOMAIN << >> : FALSE
  <2>1. IsSeq(<< >>)
    BY Short
  <2> QED
    BY <2>1
<1>2. Init => OrderInv
  BY <1>1 DEF Init, OrderInv
<1>3. OrderInv /\ [Next]_vars => OrderInv'
  <2> SUFFICES ASSUME OrderInv, [Next]_vars PROVE OrderInv'
    OBVIOUS
  <2>1. CASE SerializePipeline
    BY <2>1, OrderSerialize
  <2>2. CASE GenerateAgain
    BY <1>1, <2>2 DEF GenerateAgain, OrderInv
  <2>3. ASSUME UNCHANGED out PROVE OrderInv'
    BY <2>3 DEF OrderInv
  <2>4. CASE checkOptions \/ MakeImage \/ addPipeline \/ Instantiated
    BY <2>3, <2>4 DEF checkOptions, MakeImage, addPipeline, Instantiated, Stop
  <2>5. CASE GetPackageSetChains \/ Depsolve \/ ResolveContainers \/ CheckContainerArch
             \/ ResolveCommits \/ ResolveFlatpaks \/ ResolutionFails
    BY <2>3, <2>5 DEF GetPackageSetChains, Depsolve, ResolveContainers, CheckContainerArch,
                      ResolveCommits, ResolveFlatpaks, ResolutionFails, Stop
  <2>6. CASE SerializeStart \/ Started \/ HostFileGone \/ Serialized \/ SerializeEnd \/ Ended
             \/ GenSources \/ GenSourcesFails \/ Publish \/ UNCHANGED vars
    BY <2>3, <2>6 DEF SerializeStart, Started, HostFileGone, Serialized, SerializeEnd, Ended,
                      GenSources, GenSourcesFails, Publish, Stop, vars
  <2> QED
    BY <2>1, <2>2, <2>4, <2>5, <2>6 DEF Next
<1>4. OrderInv => TreeOrder
  <2> SUFFICES ASSUME OrderInv, NEW i \in DOMAIN out
               PROVE  LET s == out[i].stages
                          At(t) == {k \in DOMAIN s : s[k].type = t}
                      IN  /\ \A r \in At("rpm") : \A k \in 1 .. (r - 1) : s[k].type \in BeforePackages
                          /\ \A l \in At("selinux") : \A k \in (l + 1) .. Len(s) : s[k].type \in AfterLabels
                          /\ \A u \in At("systemd.unit.create") :
                               At("systemd") # {} => \E k \in At("systemd") : k > u
    BY DEF TreeOrder
  <2>1. Packed(out[i].stages) /\ Labelled(out[i].stages) /\ Enabled(out[i].stages)
    BY DEF OrderInv, Ordered
  <2> QED
    BY <2>1 DEF Packed, Labelled, Enabled, Served
<1> QED
  BY <1>2, <1>3, <1>4, PTL DEF Spec

-----------------------------------------------------------------------------
(* The content the stages use.                                             *)

\* The stage s uses content of U only.
Uses(s, U) == s.use \subseteq U

\* So do the stages of a sequence.
Takes(s, U) == IsSeq(s) /\ \A k \in DOMAIN s : Uses(s[k], U)

\* What the constructors of StageTypes are made from.
LEMMA PlainUse ==
    ASSUME NEW U, NEW t, NEW x
    PROVE  /\ Uses(Stage(t), U) /\ Uses(Checked(t), U) /\ Uses(Encoded(t), U) /\ Uses(ForKernel(t, x), U)
           /\ Uses(Reading(t, x), U) /\ Uses([Stage(t) EXCEPT !.kernel = x], U)
           /\ Uses([Checked(t) EXCEPT !.kernel = x], U) /\ Uses([Checked(t) EXCEPT !.in = x], U)
           /\ Uses([Encoded(t) EXCEPT !.in = x], U)
  BY DEF Uses, Stage, Checked, Encoded, Reading, ForKernel

LEMMA TakesEmpty == ASSUME NEW U PROVE Takes(<< >>, U)
<1>1. IsSeq(<< >>)
  BY Short
<1>2. \A k \in DOMAIN << >> : FALSE
  OBVIOUS
<1> QED
  BY <1>1, <1>2, Zenon DEF Takes

LEMMA Takes1 == ASSUME NEW U, NEW a, Uses(a, U) PROVE Takes(<<a>>, U)
<1>1. IsSeq(<<a>>)
  BY Short
<1>2. \A k \in DOMAIN <<a>> : <<a>>[k] = a
  OBVIOUS
<1> QED
  BY <1>1, <1>2, Zenon DEF Takes

LEMMA TakesConcat ==
    ASSUME NEW U, NEW s, NEW t, Takes(s, U), Takes(t, U)
    PROVE  Takes(s \o t, U)
<1>1. PICK S : s \in Seq(S)
  BY DEF Takes, IsSeq
<1>2. PICK R : t \in Seq(R)
  BY DEF Takes, IsSeq
<1> DEFINE W == S \union R
<1>3. s \in Seq(W) /\ t \in Seq(R \union S)
  BY <1>1, <1>2, SeqUnion
<1>4. R \union S = W
  OBVIOUS
<1> HIDE DEF W
<1>5. s \in Seq(W) /\ t \in Seq(W)
  BY <1>3, <1>4
<1>6. /\ s \o t \in Seq(W) /\ Len(s \o t) = Len(s) + Len(t)
      /\ \A i \in 1 .. Len(s) + Len(t) : (s \o t)[i] = IF i <= Len(s) THEN s[i] ELSE t[i - Len(s)]
  BY <1>5, ConcatProperties
<1>7. ASSUME NEW k \in DOMAIN (s \o t) PROVE Uses((s \o t)[k], U)
  <2>1. k \in 1 .. Len(s) + Len(t) /\ Len(s) \in Nat /\ Len(t) \in Nat
    BY <1>5, <1>6
  <2>2. CASE k <= Len(s)
    <3>1. k \in DOMAIN s /\ (s \o t)[k] = s[k]
      BY <1>5, <1>6, <2>1, <2>2
    <3> QED
      BY <3>1 DEF Takes
  <2>3. CASE ~ (k <= Len(s))
    <3>1. k - Len(s) \in DOMAIN t /\ (s \o t)[k] = t[k - Len(s)]
      BY <1>5, <1>6, <2>1, <2>3
    <3> QED
      BY <3>1 DEF Takes
  <2> QED
    BY <2>2, <2>3
<1> QED
  BY <1>6, <1>7 DEF Takes, IsSeq

LEMMA TakesWhen == ASSUME NEW U, NEW c, NEW s, c => Takes(s, U) PROVE Takes(When(c, s), U)
  BY TakesEmpty DEF When

\* Stages written out one after the other.
LEMMA Takes2 ==
    ASSUME NEW U, NEW a, NEW b, Uses(a, U), Uses(b, U)
    PROVE  Takes(<<a, b>>, U)
<1>1. IsSeq(<<a, b>>)
  BY Short
<1>2. \A k \in DOMAIN <<a, b>> : <<a, b>>[k] \in {a, b}
  OBVIOUS
<1>3. \A x \in {a, b} : Uses(x, U)
  OBVIOUS
<1> QED
  BY <1>1, <1>2, <1>3, Zenon DEF Takes

LEMMA Takes3 ==
    ASSUME NEW U, NEW a, NEW b, NEW c, Uses(a, U), Uses(b, U), Uses(c, U)
    PROVE  Takes(<<a, b, c>>, U)
<1>1. IsSeq(<<a, b, c>>)
  BY Short
<1>2. \A k \in DOMAIN <<a, b, c>> : <<a, b, c>>[k] \in {a, b, c}
  OBVIOUS
<1>3. \A x \in {a, b, c} : Uses(x, U)
  OBVIOUS
<1> QED
  BY <1>1, <1>2, <1>3, Zenon DEF Takes

LEMMA Takes4 ==
    ASSUME NEW U, NEW a, NEW b, NEW c, NEW d, Uses(a, U), Uses(b, U), Uses(c, U), Uses(d, U)
    PROVE  Takes(<<a, b, c, d>>, U)
<1>1. IsSeq(<<a, b, c, d>>)
  BY Short
<1>2. \A k \in DOMAIN <<a, b, c, d>> : <<a, b, c, d>>[k] \in {a, b, c, d}
  OBVIOUS
<1>3. \A x \in {a, b, c, d} : Uses(x, U)
  OBVIOUS
<1> QED
  BY <1>1, <1>2, <1>3, Zenon DEF Takes

LEMMA Takes5 ==
    ASSUME NEW U, NEW a, NEW b, NEW c, NEW d, NEW e,
           Uses(a, U), Uses(b, U), Uses(c, U), Uses(d, U), Uses(e, U)
    PROVE  Takes(<<a, b, c, d, e>>, U)
<1>1. IsSeq(<<a, b, c, d, e>>)
  BY Short
<1>2. \A k \in DOMAIN <<a, b, c, d, e>> : <<a, b, c, d, e>>[k] \in {a, b, c, d, e}
  OBVIOUS
<1>3. \A x \in {a, b, c, d, e} : Uses(x, U)
  OBVIOUS
<1> QED
  BY <1>1, <1>2, <1>3, Zenon DEF Takes

LEMMA Takes6 ==
    ASSUME NEW U, NEW a, NEW b, NEW c, NEW d, NEW e, NEW f,
           Uses(a, U), Uses(b, U), Uses(c, U), Uses(d, U), Uses(e, U), Uses(f, U)
    PROVE  Takes(<<a, b, c, d, e, f>>, U)
<1>1. <<a, b, c, d, e, f>> = <<a, b, c>> \o <<d, e, f>>
  OBVIOUS
<1>2. Takes(<<a, b, c>>, U) /\ Takes(<<d, e, f>>, U)
  BY Takes3
<1> QED
  BY <1>1, <1>2, TakesConcat

\* An optional stage.
LEMMA OptTakes == ASSUME NEW U, NEW c, NEW o, NEW s, Uses(s, U) PROVE Takes(Opt(c, o, s), U)
  BY Takes1, TakesWhen DEF Opt

\* The stages that use no content and read no tree.
LEMMA PlainUses ==
    ASSUME NEW U
    PROVE  /\ Uses(NewChmodStage, U) /\ Uses(NewChownStage, U) /\ Uses(NewMkdirStage, U)
           /\ Uses(NewTruncateStage, U) /\ Uses(NewTmpfilesdStage, U) /\ Uses(NewDNF4VersionlockStage, U)
           /\ Uses(NewDNFAutomaticConfigStage, U) /\ Uses(NewDNFConfigStage, U)
           /\ Uses(NewDNFModuleConfigStage, U) /\ Uses(NewYumConfigStage, U) /\ Uses(NewYumReposStage, U)
           /\ Uses(NewAuthconfigStage, U) /\ Uses(NewAuthselectStage, U) /\ Uses(NewChronyStage, U)
           /\ Uses(NewCloudInitStage, U) /\ Uses(NewFirewallStage, U)
           /\ Uses(NewGcpGuestAgentConfigStage, U) /\ Uses(NewHostnameStage, U)
           /\ Uses(NewInsightsClientConfigStage, U) /\ Uses(NewKeymapStage, U) /\ Uses(NewLocaleStage, U)
           /\ Uses(NewMachineIdStage, U) /\ Uses(NewModprobeStage, U) /\ Uses(NewNMConfStage, U)
           /\ Uses(NewPamLimitsConfStage, U) /\ Uses(NewPwqualityConfStage, U)
           /\ Uses(NewRHSMFactsStage, U) /\ Uses(NewRHSMStage, U) /\ Uses(NewSELinuxConfigStage, U)
           /\ Uses(NewShellInitStage, U) /\ Uses(NewSshdConfigStage, U) /\ Uses(NewSysconfigStage, U)
           /\ Uses(NewSysctldStage, U) /\ Uses(NewTimezoneStage, U) /\ Uses(NewTunedStage, U)
           /\ Uses(NewUdevRulesStage, U) /\ Uses(NewWAAgentConfStage, U) /\ Uses(NewWSLConfStage, U)
           /\ Uses(NewWSLDistributionConfStage, U) /\ Uses(NewUsersStage, U) /\ Uses(NewGroupsStage, U)
           /\ Uses(NewFirstBootStage, U) /\ Uses(NewIgnitionStage, U) /\ Uses(NewSystemdJournaldStage, U)
           /\ Uses(NewSystemdLogindStage, U) /\ Uses(NewSystemdPresetStage, U)
           /\ Uses(NewSystemdStage, U) /\ Uses(NewSystemdUnitCreateStage, U)
           /\ Uses(NewSystemdUnitStage, U) /\ Uses(NewOscapAutotailorStage, U)
           /\ Uses(NewOscapRemediationStage, U) /\ Uses(NewUpdateCATrustStage, U)
           /\ Uses(NewUpdateCryptoPoliciesStage, U) /\ Uses(NewSELinuxStage, U)
           /\ Uses(NewBootcInstallConfigStage, U) /\ Uses(NewContainersStorageConfStage, U)
           /\ Uses(NewOSTreeConfigStage, U) /\ Uses(NewOSTreeDeployStage, U)
           /\ Uses(NewOSTreeFillvarStage, U) /\ Uses(NewOSTreeGrub2MountsStage, U)
           /\ Uses(OSTreeInitFsStage, U) /\ Uses(NewOSTreeInitStage, U) /\ Uses(NewOSTreeOsInitStage, U)
           /\ Uses(NewOSTreePrepTreeStage, U) /\ Uses(NewOSTreeRemotesStage, U)
           /\ Uses(NewOSTreeSelinuxStage, U) /\ Uses(NewBtrfsSubVol, U)
           /\ Uses(NewClevisLuksBindStage, U) /\ Uses(NewFSTabStage, U) /\ Uses(NewLUKS2CreateStage, U)
           /\ Uses(NewLUKS2RemoveKeyStage, U) /\ Uses(NewLVM2CreateStage, U)
           /\ Uses(NewLVM2MetadataStage, U) /\ Uses(NewMkfsBtrfsStage, U) /\ Uses(NewMkfsExt4Stage, U)
           /\ Uses(NewMkfsFATStage, U) /\ Uses(NewMkfsXfsStage, U) /\ Uses(NewMkswapStage, U)
           /\ Uses(NewSfdiskStage, U) /\ Uses(NewSgdiskStage, U) /\ Uses(NewDracutConfStage, U)
           /\ Uses(NewFixBLSStage, U) /\ Uses(NewGrub2DStage, U) /\ Uses(NewGrub2InstStage, U)
           /\ Uses(NewGrub2ISOLegacyStage, U) /\ Uses(NewGrubISOStage, U)
           /\ Uses(NewKernelCmdlineStage, U) /\ Uses(NewZiplStage, U)
           /\ Uses(NewBootctlInstallRootStage, U) /\ Uses(NewBootupdGenMetadataStage, U)
           /\ Uses(NewBootupdStage, U) /\ Uses(NewAnacondaStage, U) /\ Uses(NewBuildstampStage, U)
           /\ Uses(NewCreateaddrsizeStage, U) /\ Uses(NewDiscinfoStage, U)
           /\ Uses(NewImplantisomd5Stage, U) /\ Uses(NewKickstartStage, U)
           /\ Uses(NewLoraxScriptStage, U) /\ Uses(NewMkS390ImageStage, U) /\ Uses(NewOVFStage, U)
           /\ Uses(NewNginxConfigStage, U)
  BY PlainUse, Zenon
  DEF NewChmodStage, NewChownStage, NewMkdirStage, NewTruncateStage, NewTmpfilesdStage,
      NewDNF4VersionlockStage, NewDNFAutomaticConfigStage, NewDNFConfigStage, NewDNFModuleConfigStage,
      NewYumConfigStage, NewYumReposStage, NewAuthconfigStage, NewAuthselectStage, NewChronyStage,
      NewCloudInitStage, NewFirewallStage, NewGcpGuestAgentConfigStage, NewHostnameStage,
      NewInsightsClientConfigStage, NewKeymapStage, NewLocaleStage, NewMachineIdStage, NewModprobeStage,
      NewNMConfStage, NewPamLimitsConfStage, NewPwqualityConfStage, NewRHSMFactsStage, NewRHSMStage,
      NewSELinuxConfigStage, NewShellInitStage, NewSshdConfigStage, NewSysconfigStage, NewSysctldStage,
      NewTimezoneStage, NewTunedStage, NewUdevRulesStage, NewWAAgentConfStage, NewWSLConfStage,
      NewWSLDistributionConfStage, NewUsersStage, NewGroupsStage, NewFirstBootStage, NewIgnitionStage,
      NewSystemdJournaldStage, NewSystemdLogindStage, NewSystemdPresetStage, NewSystemdStage,
      NewSystemdUnitCreateStage, NewSystemdUnitStage, NewOscapAutotailorStage, NewOscapRemediationStage,
      NewUpdateCATrustStage, NewUpdateCryptoPoliciesStage, NewSELinuxStage, NewBootcInstallConfigStage,
      NewContainersStorageConfStage, NewOSTreeConfigStage, NewOSTreeDeployStage, NewOSTreeFillvarStage,
      NewOSTreeGrub2MountsStage, OSTreeInitFsStage, NewOSTreeInitStage, NewOSTreeOsInitStage,
      NewOSTreePrepTreeStage, NewOSTreeRemotesStage, NewOSTreeSelinuxStage, NewBtrfsSubVol,
      NewClevisLuksBindStage, NewFSTabStage, NewLUKS2CreateStage, NewLUKS2RemoveKeyStage,
      NewLVM2CreateStage, NewLVM2MetadataStage, NewMkfsBtrfsStage, NewMkfsExt4Stage, NewMkfsFATStage,
      NewMkfsXfsStage, NewMkswapStage, NewSfdiskStage, NewSgdiskStage, NewDracutConfStage,
      NewFixBLSStage, NewGrub2DStage, NewGrub2InstStage, NewGrub2ISOLegacyStage, NewGrubISOStage,
      NewKernelCmdlineStage, NewZiplStage, NewBootctlInstallRootStage, NewBootupdGenMetadataStage,
      NewBootupdStage, NewAnacondaStage, NewBuildstampStage, NewCreateaddrsizeStage, NewDiscinfoStage,
      NewImplantisomd5Stage, NewKickstartStage, NewLoraxScriptStage, NewMkS390ImageStage, NewOVFStage,
      NewNginxConfigStage
\* The stages that are given content, a kernel or trees.
LEMMA GivenUses ==
    ASSUME NEW U, NEW x, x \subseteq U, NEW y, NEW z
    PROVE  /\ Uses(NewRPMStage(x), U) /\ Uses(NewBootcInstallToFilesystemStage(x), U)
           /\ Uses(NewContainerDeployStage(x), U) /\ Uses(NewSkopeoStageWithOCI(x), U)
           /\ Uses(NewFlatpakBuildImportOCIStage(x), U) /\ Uses(NewOSTreeDeployContainerStage(x), U)
           /\ Uses(NewOSTreePasswdStage(x), U) /\ Uses(NewFDOStageForRootCerts(x), U)
           /\ Uses(NewCopyStage(y, x), U) /\ Uses(NewOSTreePullStage(y, x), U)
           /\ Uses([NewCopyStage(y, x) EXCEPT !.kernel = z], U)
  BY DEF Uses, Stage, Checked, Using, Reading, NewRPMStage, NewBootcInstallToFilesystemStage,
         NewContainerDeployStage, NewSkopeoStageWithOCI, NewFlatpakBuildImportOCIStage,
         NewOSTreeDeployContainerStage, NewOSTreePasswdStage, NewFDOStageForRootCerts, NewCopyStage,
         NewOSTreePullStage

\* Containers and the indexes that name them.
LEMMA SkopeoUses ==
    ASSUME NEW U, NEW x, x \subseteq U, NEW y, y \subseteq U
    PROVE  Uses(NewSkopeoStageWithContainersStorage(x, y), U)
  BY DEF Uses, Stage, Using, NewSkopeoStageWithContainersStorage

\* The stages that are told of a kernel or read trees, and use nothing else.
LEMMA ToldUses ==
    ASSUME NEW U, NEW y, NEW z
    PROVE  /\ Uses(NewDracutStage(y), U) /\ Uses(NewGRUB2Stage(y), U) /\ Uses(NewGrub2LegacyStage(y), U)
           /\ Uses(NewHMACStage(y), U) /\ Uses(NewZiplInstStage(y), U)
           /\ Uses([NewMkdirStage EXCEPT !.kernel = y], U)
           /\ Uses(NewCopyStage(y, {}), U) /\ Uses(NewOSTreePullStage(y, {}), U)
           /\ Uses([NewCopyStage(y, {}) EXCEPT !.kernel = z], U)
           /\ Uses(NewOSTreeCommitStage(y), U) /\ Uses(NewOSTreeEncapsulateStage(y), U)
           /\ Uses(NewWriteDeviceStage(y), U) /\ Uses(NewErofsStage(y), U)
           /\ Uses(NewISOLinuxStage(y), U) /\ Uses(NewSquashfsStage(y), U)
           /\ Uses(NewQEMUStage(y), U) /\ Uses(NewVagrantStage(y), U) /\ Uses(NewTarStage(y), U)
           /\ Uses(NewOCIArchiveStage(y), U) /\ Uses(NewGzipStage(y), U) /\ Uses(NewXzStage(y), U)
           /\ Uses(NewZstdStage(y), U)
<1>1. /\ Uses(NewDracutStage(y), U) /\ Uses(NewGRUB2Stage(y), U) /\ Uses(NewGrub2LegacyStage(y), U)
      /\ Uses(NewHMACStage(y), U) /\ Uses(NewZiplInstStage(y), U)
      /\ Uses([NewMkdirStage EXCEPT !.kernel = y], U)
      /\ Uses(NewOSTreeCommitStage(y), U) /\ Uses(NewOSTreeEncapsulateStage(y), U)
      /\ Uses(NewWriteDeviceStage(y), U) /\ Uses(NewErofsStage(y), U)
      /\ Uses(NewISOLinuxStage(y), U) /\ Uses(NewSquashfsStage(y), U)
      /\ Uses(NewQEMUStage(y), U) /\ Uses(NewVagrantStage(y), U) /\ Uses(NewTarStage(y), U)
      /\ Uses(NewOCIArchiveStage(y), U) /\ Uses(NewGzipStage(y), U) /\ Uses(NewXzStage(y), U)
      /\ Uses(NewZstdStage(y), U)
  BY PlainUse, Zenon
  DEF NewDracutStage, NewGRUB2Stage, NewGrub2LegacyStage, NewHMACStage, NewZiplInstStage, NewMkdirStage,
      NewOSTreeCommitStage, NewOSTreeEncapsulateStage, NewWriteDeviceStage, NewErofsStage,
      NewISOLinuxStage, NewSquashfsStage, NewQEMUStage, NewVagrantStage, NewTarStage,
      NewOCIArchiveStage, NewGzipStage, NewXzStage, NewZstdStage
<1>2. {} \subseteq U
  OBVIOUS
<1> QED
  BY <1>1, <1>2, GivenUses, Zenon

\* Files copy their content, directories none.
LEMMA NodesTakes ==
    ASSUME NEW U, NEW x
    PROVE  /\ {f.data : f \in x} \subseteq U => Takes(GenFileNodesStages(x), U)
           /\ Takes(GenDirectoryNodesStages(x), U)
<1>1. Uses(NewChmodStage, U) /\ Uses(NewChownStage, U) /\ Uses(NewMkdirStage, U)
  BY PlainUses, Zenon
<1>2. {f.data : f \in x} \subseteq U => Uses(NewCopyStage({}, {f.data : f \in x}), U)
  BY GivenUses
<1>3. Takes(GenDirectoryNodesStages(x), U)
  BY <1>1, Takes1, TakesConcat, TakesWhen, Zenon DEF GenDirectoryNodesStages
<1>4. {f.data : f \in x} \subseteq U => Takes(GenFileNodesStages(x), U)
  BY <1>1, <1>2, Takes1, TakesConcat, TakesWhen, Zenon DEF GenFileNodesStages
<1> QED
  BY <1>3, <1>4, Zenon

\* Files of inline data.
LEMMA InlineData ==
    ASSUME NEW U, NEW n, n \in U
    PROVE  /\ {f.data : f \in {File(n)}} \subseteq U /\ {f.data : f \in {PlainFile(n)}} \subseteq U
  BY DEF File, PlainFile

-----------------------------------------------------------------------------
(* The content the stages of every kind of pipeline use.                   *)

\* How the root file system is mounted.
LEMMA MountsTakes == ASSUME NEW U, NEW c PROVE Takes(filesystemConfigStages(c), U)
<1>1. Uses(NewFSTabStage, U) /\ Uses(NewSystemdUnitCreateStage, U) /\ Uses(NewSystemdStage, U)
  BY PlainUses, Zenon
<1> QED
  BY <1>1, Takes1, Takes2, TakesEmpty, Zenon DEF filesystemConfigStages, GenSystemdMountStages

\* The inline data of the files of an OS tree.
OSData ==
    {Inline(n) : n \in {"Files", "firstboot-marker", "firstboot-script", "subscription-key",
                        "insights-dropin", "boot-csv", "module-failsafe", "system-fips", "CACerts",
                        "FirstbootCerts"}}

\* The files of a registered system and those of a blueprint.
LEMMA FilesData ==
    ASSUME NEW U, NEW c, NEW m
    PROVE  /\ Inline("subscription-key") \in U /\ Inline("insights-dropin") \in U =>
                \A b : {f.data : f \in SubscriptionFiles(c, b)} \subseteq U
           /\ ("Files" \in c => Inline("Files") \in U) /\ ("UriFiles" \in c => HostFile(m.hashed) \in U) =>
                {f.data : f \in CustomFiles(c, m)} \subseteq U
<1>1. ASSUME Inline("subscription-key") \in U, Inline("insights-dropin") \in U, NEW b
      PROVE  {f.data : f \in SubscriptionFiles(c, b)} \subseteq U
  BY <1>1 DEF SubscriptionFiles, PlainFile
<1>2. ASSUME "Files" \in c => Inline("Files") \in U, "UriFiles" \in c => HostFile(m.hashed) \in U
      PROVE  {f.data : f \in CustomFiles(c, m)} \subseteq U
  BY <1>2 DEF CustomFiles, File, PlainFile
<1> QED
  BY <1>1, <1>2, Zenon

\* Containers of a tree, with an index only for what is pulled from a registry.
LEMMA StorageTakes ==
    ASSUME NEW U, NEW b, NEW specs, NewContainersInput(specs) \subseteq U,
           (\E s \in specs : ~ s.local) => NewFilesInputForManifestLists(specs) \subseteq U
    PROVE  Takes(GenContainerStorageStages(b, specs), U)
<1> DEFINE remote == {s \in specs : ~ s.local}
           local == specs \ remote
<1>1. Uses(NewContainersStorageConfStage, U) /\ {} \subseteq U
  BY PlainUses, Zenon
<1>2. NewContainersInput(remote) \subseteq U /\ NewContainersInput(local) \subseteq U
  BY DEF NewContainersInput
<1>3. remote # {} => Uses(NewSkopeoStageWithContainersStorage(NewContainersInput(remote),
                                                             NewFilesInputForManifestLists(specs)), U)
  BY <1>2, SkopeoUses
<1>4. Uses(NewSkopeoStageWithContainersStorage(NewContainersInput(local), {}), U)
  BY <1>1, <1>2, SkopeoUses
<1>5. /\ Takes(When(b, <<NewContainersStorageConfStage>>), U)
      /\ Takes(When(remote # {}, <<NewSkopeoStageWithContainersStorage(NewContainersInput(remote),
                                                             NewFilesInputForManifestLists(specs))>>), U)
      /\ Takes(When(local # {}, <<NewSkopeoStageWithContainersStorage(NewContainersInput(local), {})>>), U)
  BY <1>1, <1>3, <1>4, Takes1, TakesWhen, Zenon
<1> QED
  BY <1>5, TakesConcat, Zenon DEF GenContainerStorageStages

\* The stages of the OS pipeline use its packages, its parent, its containers and its files.
LEMMA OSTakes ==
    ASSUME NEW U, NEW p, NEW m, m.in.commits \subseteq U, Rpms(p.name, m.in.version) \in U,
           NewContainersInput(m.in.containers) \subseteq U,
           (\E s \in m.in.containers : ~ s.local) => NewFilesInputForManifestLists(m.in.containers) \subseteq U,
           OSData \subseteq U, "UriFiles" \in p.opts => HostFile(m.hashed) \in U
    PROVE  Takes(OSStages(p, m), U)
<1> DEFINE c == p.opts
<1>a. \A n \in {"Files", "firstboot-marker", "firstboot-script", "subscription-key", "insights-dropin",
                "boot-csv", "module-failsafe", "system-fips", "CACerts", "FirstbootCerts"} : Inline(n) \in U
  BY DEF OSData
<1>b. /\ {f.data : f \in FirstbootFiles} \subseteq U /\ {f.data : f \in GenFIPSFiles} \subseteq U
      /\ {f.data : f \in {PlainFile(Inline("module-failsafe"))}} \subseteq U
      /\ {f.data : f \in {File(Inline("CACerts"))}} \subseteq U
      /\ {f.data : f \in {File(Inline("FirstbootCerts"))}} \subseteq U
  BY <1>a DEF FirstbootFiles, GenFIPSFiles, File, PlainFile
<1>c. /\ \A b : {f.data : f \in SubscriptionFiles(c, b)} \subseteq U
      /\ {f.data : f \in CustomFiles(c, m)} \subseteq U
  <2>1. Inline("subscription-key") \in U /\ Inline("insights-dropin") \in U /\ Inline("Files") \in U
    BY <1>a
  <2> QED
    BY <2>1, FilesData
<1>d. /\ Takes(GenFileNodesStages(FirstbootFiles), U) /\ Takes(GenFileNodesStages(GenFIPSFiles), U)
      /\ Takes(GenFileNodesStages({PlainFile(Inline("module-failsafe"))}), U)
      /\ Takes(GenFileNodesStages({File(Inline("CACerts"))}), U)
      /\ Takes(GenFileNodesStages({File(Inline("FirstbootCerts"))}), U)
      /\ \A b : Takes(GenFileNodesStages(SubscriptionFiles(c, b)), U)
      /\ Takes(GenFileNodesStages(CustomFiles(c, m)), U)
      /\ \A x : Takes(GenDirectoryNodesStages(x), U)
  BY <1>b, <1>c, NodesTakes, Zenon
<1>1. Takes(prependStages(c), U)
  <2>1. Uses(NewKernelCmdlineStage, U) /\ Uses(NewDracutConfStage, U)
    BY PlainUses, Zenon
  <2> QED
    BY <2>1, OptTakes, TakesWhen, Takes1, TakesConcat, Zenon DEF prependStages
<1>2. Takes(OSRpmStages(p, m), U)
  <2>1. Uses(NewFixBLSStage, U) /\ Uses(NewOSTreePasswdStage(m.in.commits), U)
    BY PlainUses, GivenUses, Zenon
  <2>2. Uses(NewRPMStage({Rpms(p.name, m.in.version)}), U)
    BY GivenUses
  <2>3. \A b : Takes(GenContainerStorageStages(b, m.in.containers), U)
    BY StorageTakes
  <2> QED
    BY <2>1, <2>2, <2>3, TakesWhen, Takes1, TakesConcat, Zenon
    DEF OSRpmStages, GenRPMStagesFromTransactions
<1>3. Takes(OSUserStages(c), U)
  <2>1. /\ Uses(NewLocaleStage, U) /\ Uses(NewKeymapStage, U) /\ Uses(NewHostnameStage, U)
        /\ Uses(NewTimezoneStage, U) /\ Uses(NewChronyStage, U) /\ Uses(NewGroupsStage, U)
        /\ Uses(NewUsersStage, U) /\ Uses(NewFirstBootStage, U) /\ Uses(NewFirewallStage, U)
        /\ Uses(NewSysconfigStage, U) /\ Uses(NewSystemdLogindStage, U) /\ Uses(NewCloudInitStage, U)
        /\ Uses(NewModprobeStage, U)
    BY PlainUses, Zenon
  <2> QED
    BY <2>1, OptTakes, TakesWhen, Takes1, TakesConcat, ZenonT(30) DEF OSUserStages
<1>4. Takes(OSFirstbootStages(c), U)
  <2>1. Uses(NewSystemdUnitStage, U) /\ Uses(NewSystemdUnitCreateStage, U)
    BY PlainUses, Zenon
  <2> QED
    BY <2>1, OptTakes, <1>d, TakesWhen, Takes1, TakesConcat, Zenon
    DEF OSFirstbootStages, FirstbootUnits
<1>5. Takes(OSConfigStages(c), U)
  <2>1. /\ Uses(NewAuthselectStage, U) /\ Uses(NewSELinuxConfigStage, U) /\ Uses(NewTunedStage, U)
        /\ Uses(NewTmpfilesdStage, U) /\ Uses(NewPamLimitsConfStage, U) /\ Uses(NewSysctldStage, U)
        /\ Uses(NewDNFConfigStage, U) /\ Uses(NewDNFAutomaticConfigStage, U)
        /\ Uses(NewYumReposStage, U) /\ Uses(NewYumConfigStage, U)
        /\ Uses(NewGcpGuestAgentConfigStage, U) /\ Uses(NewSshdConfigStage, U)
        /\ Uses(NewInsightsClientConfigStage, U) /\ Uses(NewNMConfStage, U)
        /\ Uses(NewAuthconfigStage, U) /\ Uses(NewPwqualityConfStage, U) /\ Uses(NewRHSMStage, U)
        /\ Uses(NewWAAgentConfStage, U) /\ Uses(NewUdevRulesStage, U)
        /\ Uses(NewSystemdUnitCreateStage, U)
    BY PlainUses, Zenon
  <2>2. \A x, b : Takes(<<SubscriptionUnit>> \o GenDirectoryNodesStages(x)
                          \o GenFileNodesStages(SubscriptionFiles(c, b)), U)
    BY <1>d, <2>1, Takes1, TakesConcat, Zenon DEF SubscriptionUnit
  <2> QED
    BY <2>1, <2>2, OptTakes, TakesWhen, TakesConcat, ZenonT(90) DEF OSConfigStages
<1>6. Takes(OSBootStages(p, m), U)
  <2>1. \A v : /\ Takes(<<NewDracutStage(v)>>, U) /\ Takes(<<NewGRUB2Stage(v)>>, U)
               /\ Takes(<<NewGrub2LegacyStage(v)>>, U)
    BY ToldUses, Takes1, Zenon
  <2>2. Takes(<<NewZiplStage>>, U)
    BY PlainUses, Takes1, Zenon
  <2>3. \A v : Takes(<<NewHMACStage(v), [NewMkdirStage EXCEPT !.kernel = v]>>, U)
    BY ToldUses, Takes2, Zenon
  <2>4. \A v : Takes(<<[NewCopyStage({}, {Inline("boot-csv")}) EXCEPT !.kernel = v]>>, U)
    <3>1. {Inline("boot-csv")} \subseteq U
      BY <1>a
    <3> QED
      BY <3>1, GivenUses, Takes1, Zenon
  <2> QED
    BY <2>1, <2>2, <2>3, <2>4, MountsTakes, TakesWhen, TakesEmpty, TakesConcat, Zenon DEF OSBootStages
<1>7. Takes(OSFileStages(c, m), U)
  <2>1. /\ Uses(NewRHSMFactsStage, U) /\ Uses(NewSystemdJournaldStage, U) /\ Uses(NewSystemdStage, U)
        /\ Uses(NewShellInitStage, U) /\ Uses(NewWSLConfStage, U)
        /\ Uses(NewWSLDistributionConfStage, U) /\ Uses(NewDNFModuleConfigStage, U)
        /\ Uses(NewUpdateCryptoPoliciesStage, U) /\ Uses(NewDracutConfStage, U)
    BY PlainUses, Zenon
  <2> QED
    BY <2>1, OptTakes, <1>d, TakesWhen, Takes1, Takes2, TakesConcat, Zenon
    DEF OSFileStages, GenDNFModuleConfigStages, GenFIPSStages
<1>8. Takes(OSHardeningStages(c), U)
  <2>1. /\ Uses(NewOscapAutotailorStage, U) /\ Uses(NewOscapRemediationStage, U)
        /\ Uses(NewSystemdPresetStage, U) /\ Uses(NewUpdateCATrustStage, U)
        /\ Uses(NewDNF4VersionlockStage, U) /\ Uses(NewMachineIdStage, U) /\ Uses(NewSELinuxStage, U)
    BY PlainUses, Zenon
  <2> QED
    BY <2>1, OptTakes, <1>d, TakesWhen, Takes1, TakesConcat, Zenon DEF OSHardeningStages
<1>9. Takes(OSTreeStages(c), U)
  <2>1. /\ Uses(NewOSTreePrepTreeStage, U) /\ Uses(NewBootupdGenMetadataStage, U)
        /\ Uses(NewBootcInstallConfigStage, U)
    BY PlainUses, Zenon
  <2> QED
    BY <2>1, TakesWhen, Takes1, TakesConcat, Zenon DEF OSTreeStages
<1> QED
  BY <1>1, <1>2, <1>3, <1>4, <1>5, <1>6, <1>7, <1>8, <1>9, TakesConcat, TakesWhen, Zenon DEF OSStages

\* Build roots install their packages or deploy their container.
LEMMA BuildTakes ==
    ASSUME NEW U, NEW p, NEW m
    PROVE  /\ Rpms(p.name, m.in.version) \in U => Takes(BuildrootFromPackagesStages(p, m), U)
           /\ NewContainersInput(m.in.containers) \subseteq U => Takes(BuildrootFromContainerStages(p, m), U)
<1>1. Uses(NewSELinuxStage, U)
  BY PlainUses, Zenon
<1>2. ASSUME Rpms(p.name, m.in.version) \in U PROVE Takes(BuildrootFromPackagesStages(p, m), U)
  <2>1. Uses(NewRPMStage({Rpms(p.name, m.in.version)}), U)
    BY <1>2, GivenUses
  <2> QED
    BY <1>1, <2>1, Takes1, TakesConcat, TakesWhen, Zenon
    DEF BuildrootFromPackagesStages, GenRPMStagesFromTransactions
<1>3. ASSUME NewContainersInput(m.in.containers) \subseteq U
      PROVE  Takes(BuildrootFromContainerStages(p, m), U)
  <2>1. Uses(NewContainerDeployStage(NewContainersInput(m.in.containers)), U)
    BY <1>3, GivenUses
  <2> QED
    BY <1>1, <2>1, ToldUses, NodesTakes, Takes1, TakesConcat, TakesWhen, Zenon
    DEF BuildrootFromContainerStages
<1> QED
  BY <1>2, <1>3

\* Making the partitions, closing the devices and what is copied to a disk use nothing.
LEMMA RawTakes ==
    ASSUME NEW U
    PROVE  /\ \A c, x : Takes(GenImagePrepareStages(c, x), U)
           /\ \A c : Takes(GenImageFinishStages(c), U)
           /\ \A p, os, om : Takes(RawImageStages(p, os, om), U)
<1>1. /\ Uses(NewTruncateStage, U) /\ Uses(NewSgdiskStage, U) /\ Uses(NewSfdiskStage, U)
      /\ Uses(NewLUKS2CreateStage, U) /\ Uses(NewClevisLuksBindStage, U) /\ Uses(NewLVM2CreateStage, U)
      /\ Uses(NewMkfsFATStage, U) /\ Uses(NewMkfsExt4Stage, U) /\ Uses(NewMkfsXfsStage, U)
      /\ Uses(NewMkfsBtrfsStage, U) /\ Uses(NewBtrfsSubVol, U) /\ Uses(NewMkswapStage, U)
      /\ Uses(NewLVM2MetadataStage, U) /\ Uses(NewLUKS2RemoveKeyStage, U)
      /\ Uses(NewGrub2InstStage, U) /\ Uses(NewBootctlInstallRootStage, U)
  BY PlainUses, Zenon
<1>2. \A c, x : Takes(GenImagePrepareStages(c, x), U)
  BY <1>1, ToldUses, Takes2, Takes1, TakesConcat, TakesWhen, Zenon
  DEF GenImagePrepareStages, GenDeviceCreationStages, GenFsStages
<1>3. \A c : Takes(GenImageFinishStages(c), U)
  BY <1>1, Takes1, TakesConcat, TakesWhen, Zenon DEF GenImageFinishStages
<1>4. \A p, os, om : Takes(RawImageStages(p, os, om), U)
  BY <1>1, <1>2, <1>3, ToldUses, Takes1, TakesConcat, TakesWhen, Zenon DEF RawImageStages
<1> QED
  BY <1>2, <1>3, <1>4

\* Nor does what is made of one artifact.
LEMMA ConverterTakes == ASSUME NEW U, NEW p PROVE Takes(ConverterStages(p), U)
<1>1. Uses(NewOVFStage, U)
  BY PlainUses, Zenon
<1>2. Takes(OVFStages(p), U)
  BY <1>1, ToldUses, Takes2, Zenon DEF OVFStages
<1>3. Takes(QCOW2Stages(p), U) /\ Takes(VMDKStages(p), U) /\ Takes(VPCStages(p), U)
  BY ToldUses, Takes1, Zenon DEF QCOW2Stages, VMDKStages, VPCStages
<1>4. Takes(TarStages(p), U) /\ Takes(OCIContainerStages(p), U)
  BY ToldUses, Takes1, Zenon DEF TarStages, OCIContainerStages
<1>5. Takes(XZStages(p), U) /\ Takes(ZstdStages(p), U) /\ Takes(GzipStages(p), U)
  BY ToldUses, Takes1, Zenon DEF XZStages, ZstdStages, GzipStages
<1>6. Takes(VagrantStages(p), U)
  BY <1>2, ToldUses, Takes1, TakesConcat, TakesWhen, Zenon DEF VagrantStages
<1> QED
  BY <1>2, <1>3, <1>4, <1>5, <1>6 DEF ConverterStages

\* The files to boot from the network are inline data.
LEMMA PXETakes ==
    ASSUME NEW U, NEW p, NEW os, NEW om, PXETreeFiles \subseteq U
    PROVE  Takes(PXETreeStages(p, os, om), U)
<1>1. Uses(NewChmodStage, U)
  BY PlainUses, Zenon
<1>2. {Inline("pxe-grub.cfg")} \subseteq U /\ {Inline("pxe-README")} \subseteq U
  BY DEF PXETreeFiles
<1>3. Uses(NewCopyStage({}, {Inline("pxe-grub.cfg")}), U) /\ Uses(NewCopyStage({}, {Inline("pxe-README")}), U)
  BY <1>2, GivenUses, Zenon
<1>4. Uses([NewCopyStage({os.name}, {}) EXCEPT !.kernel = om.kernelVer], U)
  BY ToldUses, Zenon
<1>5. Uses(NewErofsStage({os.name}), U) /\ Uses(NewSquashfsStage({os.name}), U)
  BY ToldUses, Zenon
<1>6. Uses(IF "Erofs" \in p.opts THEN NewErofsStage({os.name}) ELSE NewSquashfsStage({os.name}), U)
  BY <1>5, Zenon
<1> QED
  BY <1>1, <1>3, <1>4, <1>6, Takes5, Zenon DEF PXETreeStages

\* The files that register a system are inline data too.
LEMMA SubscriptionTakes ==
    ASSUME NEW U, NEW p, NEW m, {f.data : f \in SubscriptionFiles(p.opts, TRUE)} \subseteq U
    PROVE  Takes(SubscriptionStages(p, m), U)
<1>1. Uses(NewSystemdUnitCreateStage, U)
  BY PlainUses, Zenon
<1> QED
  BY <1>1, NodesTakes, Takes1, TakesConcat, TakesWhen, Zenon DEF SubscriptionStages, SubscriptionUnit

\* A commit of a tree, its server and the container it is put into.
LEMMA CommitTakes ==
    ASSUME NEW U
    PROVE  /\ \A tree : Takes(OSTreeCommitStages(tree), U)
           /\ \A p : Takes(OSTreeEncapsulateStages(p), U)
           /\ \A p, m : Rpms(p.name, m.in.version) \in U => Takes(OSTreeCommitServerStages(p, m), U)
<1>1. /\ Uses(NewOSTreeInitStage, U) /\ Uses(NewLocaleStage, U) /\ Uses(NewChmodStage, U)
      /\ Uses(NewNginxConfigStage, U)
  BY PlainUses, Zenon
<1>2. \A tree : Takes(OSTreeCommitStages(tree), U)
  BY <1>1, ToldUses, Takes2, Zenon DEF OSTreeCommitStages
<1>3. \A p : Takes(OSTreeEncapsulateStages(p), U)
  BY ToldUses, Takes1, Zenon DEF OSTreeEncapsulateStages
<1>4. ASSUME NEW p, NEW m, Rpms(p.name, m.in.version) \in U PROVE Takes(OSTreeCommitServerStages(p, m), U)
  <2>1. Uses(NewRPMStage({Rpms(p.name, m.in.version)}), U)
    BY <1>4, GivenUses
  <2>2. Uses(NewOSTreePullStage({p.of.tree}, {}), U)
    BY ToldUses, Zenon
  <2> QED
    BY <1>1, <2>1, <2>2, Takes1, Takes6, TakesConcat, Zenon
    DEF OSTreeCommitServerStages, GenRPMStagesFromTransactions
<1> QED
  BY <1>2, <1>3, <1>4, Zenon

\* A tree made of a container, with another one in its storage: neither has a list.
LEMMA FromContainerTakes ==
    ASSUME NEW U, NEW m, NewContainersInput(m.in.containers) \subseteq U,
           \A s \in m.in.containers : ~ s.list
    PROVE  Takes(OSFromContainerStages(m), U)
<1> DEFINE payload == {s \in m.in.containers : s.name = "payload"}
<1>1. NewContainersInput(payload) \subseteq U /\ NewContainersInput(m.in.containers \ payload) \subseteq U
  BY DEF NewContainersInput
<1>2. NewFilesInputForManifestLists(payload) \subseteq U
  BY DEF NewFilesInputForManifestLists
<1>3. Uses(NewContainerDeployStage(NewContainersInput(m.in.containers \ payload)), U)
  BY <1>1, GivenUses
<1>4. Takes(GenContainerStorageStages(FALSE, payload), U)
  BY <1>1, <1>2, StorageTakes
<1>5. OSFromContainerStages(m) =
        <<NewContainerDeployStage(NewContainersInput(m.in.containers \ payload))>>
          \o When(payload # {}, GenContainerStorageStages(FALSE, payload))
  BY DEF OSFromContainerStages
<1>6. /\ Takes(<<NewContainerDeployStage(NewContainersInput(m.in.containers \ payload))>>, U)
      /\ Takes(When(payload # {}, GenContainerStorageStages(FALSE, payload)), U)
  BY <1>3, <1>4, Takes1, TakesWhen
<1> HIDE DEF payload
<1> QED
  BY <1>5, <1>6, TakesConcat

\* A deployment uses its commit, or its container, and its files.
LEMMA DeploymentTakes ==
    ASSUME NEW U, NEW p, NEW m, m.in.commits \subseteq U, NewContainersInput(m.in.containers) \subseteq U,
           "FIPS" \in p.opts => Inline("system-fips") \in U,
           "Files" \in p.opts => Inline("Files") \in U,
           "UriFiles" \in p.opts => HostFile(m.hashed) \in U
    PROVE  Takes(OSTreeDeploymentStages(p, m), U)
<1> DEFINE c == p.opts
<1>1. Takes(doOSTreeSpec(c, m), U)
  <2>1. /\ Uses(NewOSTreeDeployStage, U) /\ Uses(NewOSTreeRemotesStage, U)
        /\ Uses(NewOSTreeFillvarStage, U)
    BY PlainUses, Zenon
  <2>2. Uses(NewOSTreePullStage({}, m.in.commits), U)
    BY GivenUses, Zenon
  <2> QED
    BY <2>1, <2>2, Takes1, Takes2, TakesConcat, TakesWhen, Zenon DEF doOSTreeSpec
<1>2. Takes(doOSTreeContainerSpec(m), U)
  BY GivenUses, Takes1, Zenon DEF doOSTreeContainerSpec
<1>3. Takes(OSTreeIgnitionStages(c), U)
  <2>1. /\ Uses(NewIgnitionStage, U) /\ Uses(NewSystemdUnitCreateStage, U)
        /\ Uses(NewSystemdPresetStage, U)
    BY PlainUses, Zenon
  <2> QED
    BY <2>1, Takes1, TakesConcat, TakesWhen, Zenon DEF OSTreeIgnitionStages
<1>4. Takes(IF m.in.commits # {} THEN doOSTreeSpec(c, m) ELSE doOSTreeContainerSpec(m), U)
  BY <1>1, <1>2
<1>5. /\ Uses(OSTreeInitFsStage, U) /\ Uses(NewOSTreeOsInitStage, U) /\ Uses(NewMkdirStage, U)
      /\ Uses(NewOSTreeConfigStage, U) /\ Uses(NewGroupsStage, U) /\ Uses(NewUsersStage, U)
      /\ Uses(NewKeymapStage, U) /\ Uses(NewLocaleStage, U) /\ Uses(NewSystemdStage, U)
      /\ Uses(NewOSTreeSelinuxStage, U) /\ Uses(NewUpdateCryptoPoliciesStage, U)
      /\ Uses(NewDracutConfStage, U)
  BY PlainUses, Zenon
<1>6. Takes(GenFIPSStages, U)
  BY <1>5, Takes2, Zenon DEF GenFIPSStages
<1>7. Takes(When("UseBootupd" \notin c, <<NewGRUB2Stage(NoKernel)>>), U)
  BY ToldUses, Takes1, TakesWhen, Zenon
<1>8. Takes(<<OSTreeInitFsStage, NewOSTreeOsInitStage, NewMkdirStage>>, U)
  BY <1>5, Takes3, Zenon
<1>9. "FIPS" \in c => Takes(GenFileNodesStages(GenFIPSFiles), U)
  <2>1. "FIPS" \in c => {f.data : f \in GenFIPSFiles} \subseteq U
    BY InlineData DEF GenFIPSFiles
  <2> QED
    BY <2>1, NodesTakes, Zenon
<1>10. Takes(GenFileNodesStages(CustomFiles(c, m)), U)
  <2>1. {f.data : f \in CustomFiles(c, m)} \subseteq U
    BY FilesData
  <2> QED
    BY <2>1, NodesTakes, Zenon
<1>11. Takes(GenDirectoryNodesStages(CustomDirectories(c)), U)
  BY NodesTakes, Zenon
<1> HIDE DEF c
<1>12. Takes(When("FIPS" \in c, GenFileNodesStages(GenFIPSFiles) \o GenFIPSStages), U)
  BY <1>6, <1>9, TakesConcat, TakesWhen, Zenon
<1> QED
  BY <1>3, <1>4, <1>5, <1>7, <1>8, <1>10, <1>11, <1>12, MountsTakes, OptTakes, Takes1, TakesConcat,
     TakesWhen, ZenonT(60) DEF OSTreeDeploymentStages, c

\* A deployment on a disk takes the boot files from the commit.
LEMMA RawOSTreeTakes ==
    ASSUME NEW U, NEW p, NEW tree, NEW tm, tm.in.commits \subseteq U
    PROVE  Takes(RawOSTreeImageStages(p, tree, tm), U)
<1>1. Uses(NewBootupdStage, U) /\ Uses(NewGrub2InstStage, U)
  BY PlainUses, Zenon
<1>2. Uses(NewCopyStage({}, tm.in.commits), U)
  BY GivenUses, Zenon
<1> QED
  BY <1>1, <1>2, ToldUses, RawTakes, Takes1, TakesConcat, TakesWhen, Zenon DEF RawOSTreeImageStages

\* A bootable container on a disk: the container, the files of the blueprint but those of
\* the host, which serialize refuses, and those that register a system.
LEMMA RawBootcTakes ==
    ASSUME NEW U, NEW p, NEW m, NewContainersInput(m.in.containers) \subseteq U,
           "UnifiedKernel" \notin p.opts => /\ "UriFiles" \notin p.opts
                                            /\ "Files" \in p.opts => Inline("Files") \in U
                                            /\ "Subscription" \in p.opts =>
                                                 {f.data : f \in SubscriptionFiles(p.opts, TRUE)} \subseteq U
    PROVE  Takes(RawBootcImageStages(p, m), U)
<1> DEFINE c == p.opts
<1>1. /\ Uses(NewSELinuxStage, U) /\ Uses(NewGroupsStage, U) /\ Uses(NewUsersStage, U)
      /\ Uses(NewIgnitionStage, U) /\ Uses(NewGrub2DStage, U) /\ Uses(NewSystemdStage, U)
      /\ Uses(NewSystemdUnitCreateStage, U) /\ Uses(NewMkdirStage, U)
  BY PlainUses, Zenon
<1>2. "UnifiedKernel" \notin c => Takes(RawBootcPostStages(c, m), U)
  <2> SUFFICES ASSUME "UnifiedKernel" \notin c PROVE Takes(RawBootcPostStages(c, m), U)
    OBVIOUS
  <2>1. "Subscription" \in c => Takes(RawBootcSubscriptionStages(c), U)
    BY <1>1, NodesTakes, Takes1, TakesConcat, Zenon DEF RawBootcSubscriptionStages, SubscriptionUnit
  <2>2. {f.data : f \in CustomFiles(c, m)} \subseteq U
    BY FilesData
  <2>3. Takes(GenFileNodesStages(CustomFiles(c, m)), U)
    BY <2>2, NodesTakes, Zenon
  <2> HIDE DEF c
  <2> QED
    BY <1>1, <2>1, <2>3, MountsTakes, NodesTakes, OptTakes, Takes1, TakesConcat, TakesWhen, ZenonT(60)
    DEF RawBootcPostStages, buildHomedirPaths
<1> DEFINE post == When("UnifiedKernel" \notin c, RawBootcPostStages(c, m))
           x == IF "target" \in DOMAIN p.of THEN p.of.target ELSE p.build
<1>3. Takes(GenImagePrepareStages(c \ {"Sgdisk"}, x), U)
  BY RawTakes, Zenon
<1>4. Takes(post, U)
  BY <1>2, TakesWhen, Zenon
<1>5. Takes(<<NewSELinuxStage, NewSELinuxStage>>, U)
  BY <1>1, Takes2, Zenon
<1>6. Takes(<<NewBootcInstallToFilesystemStage(NewContainersInput(m.in.containers))>>, U)
  BY GivenUses, Takes1, Zenon
<1>7. Takes(When("SELinux" \in c /\ post # << >>, <<NewSELinuxStage, NewSELinuxStage>>), U)
  BY <1>5, TakesWhen, Zenon
<1>8. Takes(GenImageFinishStages(c), U)
  BY RawTakes, Zenon
<1> QED
  BY <1>3, <1>4, <1>6, <1>7, <1>8, TakesConcat, Zenon DEF RawBootcImageStages

\* The root file system of a disk image, and the files to boot it from the network.
LEMMA RootFSTakes ==
    ASSUME NEW U, NEW p
    PROVE  /\ \A tree : Takes(BootcRootFSStages(p, tree), U)
           /\ BootcPXETreeFiles \subseteq U => Takes(BootcPXETreeStages(p), U)
<1>1. Uses(NewChmodStage, U) /\ Uses(NewOSTreeGrub2MountsStage, U) /\ Uses(NewCopyStage({}, {}), U)
  BY PlainUses, ToldUses, Zenon
<1>2. Uses(NewErofsStage({}), U) /\ Uses(NewSquashfsStage({}), U)
  BY ToldUses, Zenon
<1>3. Uses(IF "Erofs" \in p.opts THEN NewErofsStage({}) ELSE NewSquashfsStage({}), U)
  BY <1>2, Zenon
<1>4. \A tree : Takes(BootcRootFSStages(p, tree), U)
  BY <1>1, <1>3, ToldUses, Takes4, Zenon DEF BootcRootFSStages
<1>5. ASSUME BootcPXETreeFiles \subseteq U PROVE Takes(BootcPXETreeStages(p), U)
  <2>1. {Inline("pxe-ostree-grub.cfg")} \subseteq U /\ {Inline("pxe-README")} \subseteq U
    BY <1>5 DEF BootcPXETreeFiles
  <2>2. /\ Uses(NewCopyStage({}, {Inline("pxe-ostree-grub.cfg")}), U)
        /\ Uses(NewCopyStage({}, {Inline("pxe-README")}), U) /\ Uses(NewCopyStage({p.of.tree}, {}), U)
    BY <2>1, GivenUses, ToldUses, Zenon
  <2> QED
    BY <1>1, <2>2, Takes6, Zenon DEF BootcPXETreeStages
<1> QED
  BY <1>4, <1>5, Zenon

LEMMA TakesMore == ASSUME NEW U, NEW B, B \subseteq U, NEW s, Takes(s, B) PROVE Takes(s, U)
  BY DEF Takes, Uses

\* The tree of the installer: its packages or its container, its payload and its inline data.
LEMMA AnacondaTakes ==
    ASSUME NEW U, NEW p, NEW m,
           m.in.version # 0 => Rpms(p.name, m.in.version) \in U,
           m.in.version = 0 => NewContainersInput(m.in.containers) \subseteq U,
           m.in.commits \subseteq U, m.in.flatpaks \subseteq U, AnacondaInline(p.opts) \subseteq U
    PROVE  Takes(AnacondaStages(p, m), U)
<1> DEFINE c == p.opts
<1>1. Takes(AnacondaPayloadConfig(c, m), U)
  <2>1. Uses(NewKickstartStage, U) /\ Uses(NewOSTreeInitStage, U)
    BY PlainUses, Zenon
  <2>2. Uses(NewOSTreePullStage({}, m.in.commits), U) /\ Uses(NewFlatpakBuildImportOCIStage(m.in.flatpaks), U)
    BY GivenUses
  <2>3. Takes(AnacondaCommitStages(m), U) /\ Takes(AnacondaFlatpakStages(m), U)
    BY <2>1, <2>2, Takes2, Zenon DEF AnacondaCommitStages, AnacondaFlatpakStages
  <2> QED
    BY <2>1, <2>3, Takes1, TakesConcat, TakesWhen, Zenon DEF AnacondaPayloadConfig
<1>2. Takes(payloadStages(c, m), U)
  <2>1. /\ Uses(NewUsersStage, U) /\ Uses(NewAnacondaStage, U) /\ Uses(NewLoraxScriptStage, U)
        /\ Uses(NewSystemdLogindStage, U) /\ Uses(NewSystemdStage, U) /\ Uses(NewSELinuxConfigStage, U)
    BY PlainUses, Zenon
  <2>2. Takes(<<NewCopyStage({}, {}), NewSystemdLogindStage, NewSystemdStage>>, U)
    BY <2>1, ToldUses, Takes3, Zenon
  <2> QED
    BY <2>1, <2>2, ToldUses, Takes1, TakesConcat, TakesWhen, Zenon DEF payloadStages
<1>3. "Live" \in c => Takes(liveStages(c, m), U)
  <2> SUFFICES ASSUME "Live" \in c PROVE Takes(liveStages(c, m), U)
    OBVIOUS
  <2>1. Uses(NewUsersStage, U) /\ Uses(NewSystemdStage, U) /\ Uses(NewSELinuxStage, U)
    BY PlainUses, Zenon
  <2>2. Inline("livesys") \in U
    BY DEF AnacondaInline
  <2>3. Takes(GenFileNodesStages({File(Inline("livesys"))}), U)
    BY <2>2, InlineData, NodesTakes
  <2> QED
    BY <2>1, <2>3, ToldUses, Takes1, Takes2, TakesConcat, TakesWhen, Zenon DEF liveStages
<1>4. m.in.version # 0 => Takes(GenRPMStagesFromTransactions(p.name, m.in.version), U)
  <2>1. m.in.version # 0 => Uses(NewRPMStage({Rpms(p.name, m.in.version)}), U)
    BY GivenUses
  <2> QED
    BY <2>1, Takes1, Zenon DEF GenRPMStagesFromTransactions
<1>5. m.in.version = 0 => Takes(<<NewContainerDeployStage(NewContainersInput(m.in.containers))>>, U)
  BY GivenUses, Takes1
<1>6. Takes(IF m.in.version # 0
              THEN GenRPMStagesFromTransactions(p.name, m.in.version)
              ELSE <<NewContainerDeployStage(NewContainersInput(m.in.containers))>>, U)
  BY <1>4, <1>5
<1>7. Takes(IF "Live" \in c THEN liveStages(c, m) ELSE payloadStages(c, m), U)
  BY <1>2, <1>3
<1>8. Takes(<<NewBuildstampStage, NewLocaleStage>>, U)
  BY PlainUses, Takes2, Zenon
<1> QED
  BY <1>1, <1>6, <1>7, <1>8, TakesConcat, TakesWhen, Zenon DEF AnacondaStages

\* The CoreOS installer and the tree of its ISO.
LEMMA CoreOSTakes ==
    ASSUME NEW U, NEW p, NEW m, Rpms(p.name, m.in.version) \in U,
           "FDOCerts" \in p.opts => Inline("FDOCerts") \in U
    PROVE  Takes(CoreOSStages(p, m), U)
<1>1. Uses(NewBuildstampStage, U) /\ Uses(NewLocaleStage, U)
  BY PlainUses, Zenon
<1>2. Uses(NewRPMStage({Rpms(p.name, m.in.version)}), U)
  BY GivenUses
<1>3. "FDOCerts" \in p.opts => Uses(NewFDOStageForRootCerts({Inline("FDOCerts")}), U)
  BY GivenUses
<1> QED
  BY <1>1, <1>2, <1>3, ToldUses, Takes2, Takes1, TakesConcat, TakesWhen, Zenon
  DEF CoreOSStages, GenRPMStagesFromTransactions

LEMMA CoreOSISOTakes ==
    ASSUME NEW U, NEW p, NEW coi, NEW cm,
           "IgnitionEmbedded" \in coi.opts => Inline("IgnitionConfig") \in U
    PROVE  Takes(CoreOSISOTreeStages(p, coi, cm), U)
<1>1. Uses(NewMkdirStage, U) /\ Uses(NewTruncateStage, U) /\ Uses(NewMkfsFATStage, U)
  BY PlainUses, Zenon
<1>2. /\ Uses(NewCopyStage({p.of.tree}, {}), U) /\ Uses(NewCopyStage({p.of.efi}, {}), U)
      /\ Uses(NewISOLinuxStage({coi.name}), U)
      /\ Uses([NewCopyStage({coi.name}, {}) EXCEPT !.kernel = cm.kernelVer], U)
  BY ToldUses, Zenon
<1>3. Takes(<<NewMkdirStage, NewTruncateStage, NewMkfsFATStage, NewCopyStage({p.of.efi}, {}),
              [NewCopyStage({coi.name}, {}) EXCEPT !.kernel = cm.kernelVer]>>, U)
  BY <1>1, <1>2, Takes5, Zenon
<1>4. "IgnitionEmbedded" \in coi.opts => Takes(<<NewCopyStage({}, {Inline("IgnitionConfig")})>>, U)
  BY GivenUses, Takes1
<1> QED
  BY <1>2, <1>3, <1>4, Takes1, TakesConcat, TakesWhen, Zenon DEF CoreOSISOTreeStages

\* What an ISO boots with.
LEMMA EFITakes == ASSUME NEW U PROVE Takes(EFIBootTreeStages, U)
<1>1. Uses(NewGrubISOStage, U)
  BY PlainUses, Zenon
<1> QED
  BY <1>1, Takes1, Zenon DEF EFIBootTreeStages

LEMMA BootloaderTakes ==
    ASSUME NEW U, NEW p, NEW tree, {f.data : f \in BootloaderFiles(p.opts)} \subseteq U
    PROVE  Takes(BootloaderStages(p, tree), U)
<1>1. /\ Uses(NewGrub2ISOLegacyStage, U) /\ Uses(NewGrub2InstStage, U) /\ Uses(NewMkdirStage, U)
      /\ Uses(NewCreateaddrsizeStage, U) /\ Uses(NewMkS390ImageStage, U) /\ Uses(NewTruncateStage, U)
      /\ Uses(NewMkfsFATStage, U)
  BY PlainUses, Zenon
<1>2. Takes(ISOLinuxGetISOBootStages(tree), U)
  BY ToldUses, Takes1, Zenon DEF ISOLinuxGetISOBootStages
<1>3. Takes(Grub2X86GetISOBootStages, U)
  BY <1>1, Takes2, Zenon DEF Grub2X86GetISOBootStages
<1>4. "Grub2PPC" \in p.opts => Takes(Grub2PPC64GetISOBootStages, U)
  <2>1. "Grub2PPC" \in p.opts => {f.data : f \in PPC64Files} \subseteq U
    BY DEF BootloaderFiles
  <2> QED
    BY <1>1, <2>1, NodesTakes, Takes2, TakesConcat, Zenon DEF Grub2PPC64GetISOBootStages
<1>5. "S390ISO" \in p.opts => Takes(S390GetISOBootStages, U)
  <2>1. "S390ISO" \in p.opts => /\ {f.data : f \in {PlainFile(Inline("s390-config"))}} \subseteq U
                                /\ {f.data : f \in {PlainFile(Inline("cdboot"))}} \subseteq U
    BY DEF BootloaderFiles, S390Files
  <2> QED
    BY <1>1, <2>1, NodesTakes, Takes2, TakesConcat, Zenon DEF S390GetISOBootStages
<1>6. Takes(EFIGetISOBootStages(p), U)
  BY <1>1, ToldUses, Takes4, Zenon DEF EFIGetISOBootStages
<1> QED
  BY <1>2, <1>3, <1>4, <1>5, <1>6, TakesConcat, TakesWhen, Zenon DEF BootloaderStages

-----------------------------------------------------------------------------
(* The tree of the installer's ISO gives the files of the kickstart to the *)
(* sources if it has a kickstart stage.                                    *)

\* There is a kickstart stage.
HasKickstart(s) == \E k \in DOMAIN s : s[k].type = "kickstart"

\* The stages use content of U, and more than that of B only if there is a kickstart stage.
Kicks(s, B, U) == Takes(s, U) /\ (Takes(s, B) \/ HasKickstart(s))

LEMMA KicksLess == ASSUME NEW U, NEW B, B \subseteq U, NEW s, Takes(s, B) PROVE Kicks(s, B, U)
  BY TakesMore DEF Kicks

LEMMA KickstartJoined ==
    ASSUME NEW s, NEW t, IsSeq(s), IsSeq(t), HasKickstart(s) \/ HasKickstart(t)
    PROVE  HasKickstart(s \o t)
<1>1. ASSUME HasKickstart(s) PROVE HasKickstart(s \o t)
  <2>1. PICK k \in DOMAIN s : s[k].type = "kickstart"
    BY <1>1 DEF HasKickstart
  <2>2. k \in DOMAIN (s \o t) /\ (s \o t)[k] = s[k]
    BY <2>1, Joined
  <2> QED
    BY <2>1, <2>2 DEF HasKickstart
<1>2. ASSUME HasKickstart(t) PROVE HasKickstart(s \o t)
  <2>1. PICK k \in DOMAIN t : t[k].type = "kickstart"
    BY <1>2 DEF HasKickstart
  <2>2. /\ Len(s) \in Nat /\ Len(t) \in Nat /\ DOMAIN t = 1 .. Len(t)
        /\ DOMAIN (s \o t) = 1 .. (Len(s) + Len(t))
        /\ \A i \in 1 .. Len(t) : (s \o t)[Len(s) + i] = t[i]
    BY Joined
  <2> DEFINE st == s \o t
  <2> HIDE DEF st
  <2>3. st[Len(s) + k] = t[k]
    BY <2>1, <2>2, Zenon DEF st
  <2>4. Len(s) + k \in DOMAIN st
    <3>1. k \in 1 .. Len(t)
      BY <2>1, <2>2, Zenon
    <3>2. DOMAIN st = 1 .. (Len(s) + Len(t))
      BY <2>2, Zenon DEF st
    <3> QED
      BY <2>2, <3>1, <3>2
  <2>5. HasKickstart(st)
    BY <2>1, <2>3, <2>4, Zenon DEF HasKickstart
  <2> QED
    BY <2>5 DEF st
<1> QED
  BY <1>1, <1>2

LEMMA KicksConcat ==
    ASSUME NEW B, NEW U, NEW s, NEW t, Kicks(s, B, U), Kicks(t, B, U)
    PROVE  Kicks(s \o t, B, U)
<1>1. Takes(s \o t, U)
  BY TakesConcat DEF Kicks
<1>2. IsSeq(s) /\ IsSeq(t)
  BY DEF Kicks, Takes
<1>3. CASE HasKickstart(s) \/ HasKickstart(t)
  BY <1>1, <1>2, <1>3, KickstartJoined DEF Kicks
<1>4. CASE ~ (HasKickstart(s) \/ HasKickstart(t))
  BY <1>1, <1>4, TakesConcat DEF Kicks
<1> QED
  BY <1>3, <1>4

LEMMA KicksWhen ==
    ASSUME NEW B, NEW U, NEW c, NEW s, c => Kicks(s, B, U)
    PROVE  Kicks(When(c, s), B, U)
  BY TakesEmpty DEF When, Kicks

LEMMA KickstartKicks ==
    ASSUME NEW B, NEW U, NEW s, Takes(s, U)
    PROVE  Kicks(<<NewKickstartStage>> \o s, B, U)
<1>1. Takes(<<NewKickstartStage>>, U)
  BY PlainUses, Takes1, Zenon
<1>2. HasKickstart(<<NewKickstartStage>>)
  BY DEF HasKickstart, NewKickstartStage, Stage, Checked, Encoded
<1>3. IsSeq(<<NewKickstartStage>>) /\ IsSeq(s)
  BY <1>1 DEF Takes
<1> QED
  BY <1>1, <1>2, <1>3, TakesConcat, KickstartJoined, Zenon DEF Kicks

\* A kickstart copies its files.
LEMMA MakeKickstartKicks ==
    ASSUME NEW B, NEW U, NEW p
    PROVE  /\ {f.data : f \in KickstartFiles(p)} \subseteq U => Kicks(makeKickstartStages(p), B, U)
           /\ {f.data : f \in BootcKickstartFiles(p)} \subseteq U => Kicks(bootcInstallerKickstartStages(p), B, U)
<1>1. Uses(NewKickstartStage, U) /\ Uses(NewMkdirStage, U)
  BY PlainUses, Zenon
<1>2. Takes(<<NewMkdirStage, NewCopyStage({p.of.subscription}, {})>>, U)
  BY <1>1, ToldUses, Takes2, Zenon
<1>3. ASSUME {f.data : f \in KickstartFiles(p)} \subseteq U PROVE Kicks(makeKickstartStages(p), B, U)
  <2> DEFINE first == When("UserFile" \in p.opts, <<NewKickstartStage>>)
             sub == When("subscription" \in DOMAIN p.of, <<NewMkdirStage, NewCopyStage({p.of.subscription}, {})>>)
             files == GenFileNodesStages(KickstartFiles(p))
  <2>1. Takes(files, U)
    BY <1>3, NodesTakes
  <2>2. Takes(sub, U)
    BY <1>2, TakesWhen
  <2>3. Kicks(first, B, U)
    <3>1. Takes(<< >>, U)
      BY TakesEmpty
    <3>2. Takes(<< >>, B)
      BY TakesEmpty
    <3>3. Takes(<<NewKickstartStage>>, U) /\ Takes(<<NewKickstartStage>>, B)
      BY PlainUses, Takes1, Zenon
    <3> QED
      BY <3>1, <3>2, <3>3 DEF Kicks, When
  <2>4. makeKickstartStages(p) = ((first \o <<NewKickstartStage>>) \o sub) \o files
    BY Zenon DEF makeKickstartStages
  <2> HIDE DEF first, sub, files
  <2>5. IsSeq(first) /\ IsSeq(<<NewKickstartStage>>) /\ HasKickstart(<<NewKickstartStage>>)
    <3>1. IsSeq(<<NewKickstartStage>>)
      BY Short
    <3>2. HasKickstart(<<NewKickstartStage>>)
      BY DEF HasKickstart, NewKickstartStage, Stage
    <3> QED
      BY <2>3, <3>1, <3>2 DEF Kicks, Takes
  <2>6. HasKickstart(first \o <<NewKickstartStage>>)
    BY <2>5, KickstartJoined, Zenon
  <2>7. Takes(first \o <<NewKickstartStage>>, U)
    BY <1>1, <2>3, Takes1, TakesConcat, Zenon DEF Kicks
  <2>8. Takes((first \o <<NewKickstartStage>>) \o sub, U) /\ HasKickstart((first \o <<NewKickstartStage>>) \o sub)
    BY <2>2, <2>6, <2>7, TakesConcat, KickstartJoined, Zenon DEF Takes
  <2>9. /\ Takes(((first \o <<NewKickstartStage>>) \o sub) \o files, U)
        /\ HasKickstart(((first \o <<NewKickstartStage>>) \o sub) \o files)
    BY <2>1, <2>8, TakesConcat, KickstartJoined, Zenon DEF Takes
  <2> QED
    BY <2>4, <2>9, Zenon DEF Kicks
<1>4. ASSUME {f.data : f \in BootcKickstartFiles(p)} \subseteq U
      PROVE  Kicks(bootcInstallerKickstartStages(p), B, U)
  <2>1. Takes(GenFileNodesStages(BootcKickstartFiles(p)), U)
    BY <1>4, NodesTakes
  <2> QED
    BY <2>1, KickstartKicks, Zenon DEF bootcInstallerKickstartStages
<1> QED
  BY <1>3, <1>4

\* The tree of the installer's ISO takes its payload and its files.  A container is
\* installed with a kickstart of its own, that of a commit registers the system: an
\* installer with both a container and a subscription is refused.
LEMMA ISOTreeTakes ==
    ASSUME NEW U, NEW p, NEW m, NEW a, NEW am,
           m.in.commits \subseteq U, NewContainersInput(m.in.containers) \subseteq U,
           "ISOContainer" \notin p.opts => m.in.containers = {},
           "ISOContainer" \in p.opts => "subscription" \notin DOMAIN p.of,
           ISOTreeInline(p, a, ISOTreeStages(p, m, a, am)) \subseteq U
    PROVE  Takes(ISOTreeStages(p, m, a, am), U)
<1> DEFINE stages == ISOTreeStages(p, m, a, am)
           boot == {f.data : f \in BootloaderFiles(p.opts)}
           files == {f.data : f \in IF "ISOContainer" \in p.opts THEN BootcKickstartFiles(p) ELSE KickstartFiles(p)}
           B == m.in.commits \union NewContainersInput(m.in.containers) \union boot
           W == B \union files
<1>1. /\ m.in.commits \subseteq B /\ NewContainersInput(m.in.containers) \subseteq B /\ boot \subseteq B
      /\ B \subseteq W /\ files \subseteq W
  OBVIOUS
<1>2. {f.data : f \in KickstartFiles(p)} \subseteq files
  BY DEF KickstartFiles, BootcKickstartFiles
<1>3. "ISOContainer" \in p.opts => {f.data : f \in BootcKickstartFiles(p)} \subseteq files
  OBVIOUS
<1>4. boot \subseteq files
  BY DEF KickstartFiles, BootcKickstartFiles
<1>5. ISOTreeInline(p, a, stages) = IF HasKickstart(stages) THEN files ELSE boot
  BY Zenon DEF ISOTreeInline, HasKickstart
<1>6. Takes(BootloaderStages(p, a.name), B)
  BY <1>1, BootloaderTakes
<1>7. IF HasKickstart(stages) THEN W \subseteq U ELSE B \subseteq U
  BY <1>4, <1>5
<1>8. stages = <<NewMkdirStage>>
        \o When("Live" \in a.opts, <<NewMkdirStage>>)
        \o <<[NewCopyStage({a.name}, {}) EXCEPT !.kernel = ISOKernel(am)], ISOTreeRootfsStage(p, a)>>
        \o BootloaderStages(p, a.name)
        \o When("Payload" \in a.opts, ISOTreePayloadStages(p, m, am))
        \o When({"Netinst", "Kickstart"} \subseteq (a.opts \union p.opts), makeKickstartStages(p))
        \o <<NewDiscinfoStage>>
  BY Zenon DEF ISOTreeStages
<1> HIDE DEF stages, files, boot, B, W
<1>9. {f.data : f \in KickstartFiles(p)} \subseteq W
  BY <1>1, <1>2
<1>10. Kicks(makeKickstartStages(p), B, W)
  BY <1>9, MakeKickstartKicks
<1>11. "ISOContainer" \in p.opts => Kicks(bootcInstallerKickstartStages(p), B, W)
  <2>1. "ISOContainer" \in p.opts => {f.data : f \in BootcKickstartFiles(p)} \subseteq W
    BY <1>1, <1>3
  <2> QED
    BY <2>1, MakeKickstartKicks
<1>12. /\ Uses(NewMkdirStage, B) /\ Uses(NewDiscinfoStage, B) /\ Uses(NewOSTreeInitStage, B)
  BY PlainUses, Zenon
<1>13. Uses(NewOSTreePullStage({}, m.in.commits), B)
       /\ Uses(NewSkopeoStageWithOCI(NewContainersInput(m.in.containers)), B)
  BY <1>1, GivenUses, Zenon
<1>14. Kicks(ISOTreeCommitStages(p, m), B, W)
  <2>1. Takes(ISOTreeCommitStages(p, m), B)
    BY <1>12, <1>13, Takes2, TakesWhen, Zenon DEF ISOTreeCommitStages
  <2> QED
    BY <1>1, <2>1, KicksLess, Zenon
<1>15. "ISOContainer" \in p.opts => Kicks(ostreeContainerStages(p, m), B, W)
  <2>1. Takes(<<NewMkdirStage, NewSkopeoStageWithOCI(NewContainersInput(m.in.containers))>>, B)
    BY <1>12, <1>13, Takes2, Zenon
  <2>2. Kicks(<<NewMkdirStage, NewSkopeoStageWithOCI(NewContainersInput(m.in.containers))>>, B, W)
    BY <1>1, <2>1, KicksLess, Zenon
  <2> QED
    BY <1>11, <2>2, KicksConcat, Zenon DEF ostreeContainerStages
<1>16. Kicks(tarPayloadStages(p), B, W)
  <2>1. Takes(<<NewTarStage({p.of.os})>>, B)
    BY ToldUses, Takes1, Zenon
  <2>2. Kicks(<<NewTarStage({p.of.os})>>, B, W)
    BY <1>1, <2>1, KicksLess, Zenon
  <2> QED
    BY <1>10, <2>2, KicksConcat, KicksWhen, Zenon DEF tarPayloadStages
<1>17. Kicks(ISOTreePayloadStages(p, m, am), B, W)
  <2>1. "container" \in Payloads(p, m, am) => "ISOContainer" \in p.opts
    BY DEF Payloads
  <2>2. Kicks(ISOTreeCommitStages(p, m) \o When("Kickstart" \in p.opts, makeKickstartStages(p)), B, W)
    BY <1>10, <1>14, KicksConcat, KicksWhen, Zenon
  <2> QED
    BY <1>15, <1>16, <2>1, <2>2, Zenon DEF ISOTreePayloadStages
<1>18. Kicks(BootloaderStages(p, a.name), B, W)
  BY <1>1, <1>6, KicksLess, Zenon
<1>19. Kicks(<<NewMkdirStage>>, B, W) /\ Kicks(<<NewDiscinfoStage>>, B, W)
  <2>1. Takes(<<NewMkdirStage>>, B) /\ Takes(<<NewDiscinfoStage>>, B)
    BY <1>12, Takes1, Zenon
  <2> QED
    BY <1>1, <2>1, KicksLess, Zenon
<1>20. Kicks(<<[NewCopyStage({a.name}, {}) EXCEPT !.kernel = ISOKernel(am)], ISOTreeRootfsStage(p, a)>>, B, W)
  <2>1. Uses(ISOTreeRootfsStage(p, a), B)
    BY ToldUses, Zenon DEF ISOTreeRootfsStage
  <2>2. Takes(<<[NewCopyStage({a.name}, {}) EXCEPT !.kernel = ISOKernel(am)], ISOTreeRootfsStage(p, a)>>, B)
    BY <2>1, ToldUses, Takes2, Zenon
  <2> QED
    BY <1>1, <2>2, KicksLess, Zenon
<1>21. Kicks(stages, B, W)
  BY <1>8, <1>10, <1>17, <1>18, <1>19, <1>20, KicksConcat, KicksWhen, Zenon
<1>22. Takes(stages, U)
  BY <1>7, <1>21, TakesMore DEF Kicks
<1> QED
  BY <1>22 DEF stages

\* The trees of the other ISOs use nothing, an ISO the files of its tree it boots with.
LEMMA ISOTakes ==
    ASSUME NEW U, NEW p, {TreeFile(n) : n \in DOMAIN MakerOf} \subseteq U
    PROVE  /\ Takes(ContainerISOTreeStages(p), U) /\ Takes(ISORootfsStages(p), U) /\ Takes(ISOStages(p), U)
<1> DEFINE tree == p.of.tree
           rootfs == IF "Erofs" \in p.opts THEN NewErofsStage({tree}) ELSE NewSquashfsStage({tree})
           efi == NewCopyStage({p.of.efi}, {})
           copy == NewCopyStage({tree}, {})
<1>1. /\ Uses(NewMkdirStage, U) /\ Uses(NewGrub2ISOLegacyStage, U) /\ Uses(NewGrub2InstStage, U)
      /\ Uses(NewTruncateStage, U) /\ Uses(NewMkfsFATStage, U) /\ Uses(NewDiscinfoStage, U)
      /\ Uses(NewMkfsExt4Stage, U) /\ Uses(NewImplantisomd5Stage, U)
  BY PlainUses, Zenon
<1>2. Uses(rootfs, U)
  BY ToldUses, Zenon
<1>3. Uses(efi, U) /\ Uses(copy, U)
  BY ToldUses, Zenon
<1>4. ContainerISOTreeStages(p) =
        <<NewMkdirStage, copy, rootfs, NewGrub2ISOLegacyStage, NewGrub2InstStage, NewTruncateStage,
          NewMkfsFATStage, efi, efi, NewDiscinfoStage>>
  BY DEF ContainerISOTreeStages
<1>5. Takes(ISORootfsStages(p), U)
  BY <1>1, ToldUses, Takes4, Zenon DEF ISORootfsStages
<1>6. Takes(ISOStages(p), U)
  <2> DEFINE x == [NewXorrisofsStage({tree}) EXCEPT !.use = xorrisofsStageOptions(p.opts)]
  <2>1. xorrisofsStageOptions(p.opts) \subseteq U
    BY DEF xorrisofsStageOptions, MakerOf
  <2>2. x.use = xorrisofsStageOptions(p.opts)
    BY DEF NewXorrisofsStage, Reading, Stage
  <2>3. ISOStages(p) = <<x, NewImplantisomd5Stage>>
    BY Zenon DEF ISOStages
  <2> HIDE DEF x
  <2>4. Uses(x, U)
    BY <2>1, <2>2, Zenon DEF Uses
  <2> QED
    BY <1>1, <2>3, <2>4, Takes2, Zenon
<1> HIDE DEF rootfs, efi, copy
<1>7. /\ Takes(<<NewMkdirStage, copy, rootfs, NewGrub2ISOLegacyStage, NewGrub2InstStage>>, U)
      /\ Takes(<<NewTruncateStage, NewMkfsFATStage, efi, efi, NewDiscinfoStage>>, U)
  BY <1>1, <1>2, <1>3, Takes5, Zenon
<1>8. <<NewMkdirStage, copy, rootfs, NewGrub2ISOLegacyStage, NewGrub2InstStage, NewTruncateStage,
        NewMkfsFATStage, efi, efi, NewDiscinfoStage>>
        = <<NewMkdirStage, copy, rootfs, NewGrub2ISOLegacyStage, NewGrub2InstStage>>
            \o <<NewTruncateStage, NewMkfsFATStage, efi, efi, NewDiscinfoStage>>
  OBVIOUS
<1> QED
  BY <1>4, <1>5, <1>6, <1>7, <1>8, TakesConcat, Zenon

\* The stages of an OS tree: the inline data they use is given, as it is looked for in them.
LEMMA OSGiven ==
    ASSUME NEW U, NEW p, NEW m, m.in.commits \subseteq U, Rpms(p.name, m.in.version) \in U,
           NewContainersInput(m.in.containers) \subseteq U,
           (\E s \in m.in.containers : ~ s.local) => NewFilesInputForManifestLists(m.in.containers) \subseteq U,
           "UriFiles" \in p.opts => HostFile(m.hashed) \in U, OSInline(OSStages(p, m)) \subseteq U
    PROVE  Takes(OSStages(p, m), U)
<1> DEFINE W == U \union OSData
           s == OSStages(p, m)
<1>1. U \subseteq W /\ OSData \subseteq W
  OBVIOUS
<1>2. Takes(s, W)
  <2> HIDE DEF W, s
  <2>1. /\ m.in.commits \subseteq W /\ Rpms(p.name, m.in.version) \in W /\ NewContainersInput(m.in.containers) \subseteq W
        /\ (\E t \in m.in.containers : ~ t.local) => NewFilesInputForManifestLists(m.in.containers) \subseteq W
        /\ "UriFiles" \in p.opts => HostFile(m.hashed) \in W
    BY <1>1
  <2> QED
    BY <1>1, <2>1, OSTakes DEF s
<1>3. \A u \in OSData : u[1] = "inline"
  BY DEF OSData, Inline
<1>4. \A k \in DOMAIN s : \A u \in s[k].use : u[1] = "inline" => u \in U
  BY DEF OSInline
<1> HIDE DEF s
<1>5. \A k \in DOMAIN s : s[k].use \subseteq U
  BY <1>2, <1>3, <1>4 DEF Takes, Uses
<1>6. Takes(s, U)
  BY <1>2, <1>5 DEF Takes, Uses
<1> QED
  BY <1>6 DEF s

\* A pipeline is supplied: what it gives to the sources and what it was resolved are in U,
\* with the files of a tree an ISO boots with, and no step has failed.
Supplied(p, pls, now, U) ==
    LET m == now[p.name]
    IN  /\ {TreeFile(n) : n \in DOMAIN MakerOf} \subseteq U
        /\ p.kind \in {"buildroot", "os", "coi", "commit-server"} \/ m.in.version # 0 =>
               Rpms(p.name, m.in.version) \in U
        /\ NewContainersInput(m.in.containers) \subseteq U
        /\ m.in.commits \subseteq U /\ m.in.flatpaks \subseteq U
        /\ getInline(p, pls, serialize(p, pls, now)) \subseteq U
        /\ p.kind = "os" /\ (\E s \in m.in.containers : ~ s.local) =>
               NewFilesInputForManifestLists(m.in.containers) \subseteq U
        /\ HashesHostFile(p) => HostFile(m.hashed) \in U
        /\ p.kind = "raw-ostree" => now[p.of.tree].in.commits \subseteq U
        /\ p.kind = "coi-iso-tree" => Inline("IgnitionConfig") \in U
        /\ p.kind = "os-from-container" => \A s \in m.in.containers : ~ s.list
        /\ p.kind = "raw-bootc" => ~ RawBootcImageFails(p.opts, m.in)
        /\ p.kind = "anaconda-iso-tree" =>
               /\ "ISOContainer" \notin p.opts => m.in.containers = {}
               /\ "ISOContainer" \in p.opts => "subscription" \notin DOMAIN p.of

\* Whatever the pipeline, its stages use what it is supplied with.
LEMMA SerializeTakes ==
    ASSUME NEW p, NEW pls, NEW now, NEW U, Supplied(p, pls, now, U)
    PROVE  Takes(serialize(p, pls, now), U)
<1> DEFINE m == now[p.name]
           tree == Named(pls, p.of["tree"])
           tm == now[p.of["tree"]]
           coi == Named(pls, p.of["coi"])
           cm == now[p.of["coi"]]
           anaconda == Named(pls, p.of["anaconda"])
           am == now[p.of["anaconda"]]
           s == serialize(p, pls, now)
<1>1. s =
    CASE p.kind = "buildroot" -> BuildrootFromPackagesStages(p, m)
      [] p.kind = "buildroot-container" -> BuildrootFromContainerStages(p, m)
      [] p.kind = "os" -> OSStages(p, m)
      [] p.kind = "raw" -> RawImageStages(p, tree, tm)
      [] p.kind \in Converters -> ConverterStages(p)
      [] p.kind = "pxe-tree" -> PXETreeStages(p, tree, tm)
      [] p.kind = "subscription" -> SubscriptionStages(p, m)
      [] p.kind = "ostree-commit" -> OSTreeCommitStages(tree)
      [] p.kind = "commit-server" -> OSTreeCommitServerStages(p, m)
      [] p.kind = "ostree-encapsulate" -> OSTreeEncapsulateStages(p)
      [] p.kind = "os-from-container" -> OSFromContainerStages(m)
      [] p.kind = "ostree-deployment" -> OSTreeDeploymentStages(p, m)
      [] p.kind = "raw-ostree" -> RawOSTreeImageStages(p, tree, tm)
      [] p.kind = "raw-bootc" -> RawBootcImageStages(p, m)
      [] p.kind = "bootc-rootfs" -> BootcRootFSStages(p, tree)
      [] p.kind = "bootc-pxe-tree" -> BootcPXETreeStages(p)
      [] p.kind = "anaconda" -> AnacondaStages(p, m)
      [] p.kind = "coi" -> CoreOSStages(p, m)
      [] p.kind = "coi-iso-tree" -> CoreOSISOTreeStages(p, coi, cm)
      [] p.kind = "efi-boot-tree" -> EFIBootTreeStages
      [] p.kind = "anaconda-iso-tree" -> ISOTreeStages(p, m, anaconda, am)
      [] p.kind = "container-iso-tree" -> ContainerISOTreeStages(p)
      [] p.kind = "iso-rootfs" -> ISORootfsStages(p)
      [] OTHER -> ISOStages(p)
  BY Zenon DEF serialize
<1> DEFINE Kinds == {"buildroot", "buildroot-container", "os", "raw", "pxe-tree", "subscription", "ostree-commit",
                     "commit-server", "ostree-encapsulate", "os-from-container", "ostree-deployment", "raw-ostree",
                     "raw-bootc", "bootc-rootfs", "bootc-pxe-tree", "anaconda", "coi", "coi-iso-tree",
                     "efi-boot-tree", "anaconda-iso-tree", "container-iso-tree", "iso-rootfs"}
<1>2. Kinds \intersect Converters = {}
  BY DEF Converters
<1>3. getInline(p, pls, s) =
    CASE p.kind = "os" -> OSInline(s)
      [] p.kind = "ostree-deployment" -> OSTreeDeploymentInline(p.opts)
      [] p.kind = "raw-bootc" -> genFileStagesAndRecordInlineData(p.opts)
      [] p.kind = "pxe-tree" -> PXETreeFiles
      [] p.kind = "bootc-pxe-tree" -> BootcPXETreeFiles
      [] p.kind = "subscription" -> {f.data : f \in SubscriptionFiles(p.opts, TRUE)}
      [] p.kind = "anaconda" -> AnacondaInline(p.opts)
      [] p.kind = "coi" -> CoreOSInline(p.opts)
      [] p.kind = "anaconda-iso-tree" -> ISOTreeInline(p, anaconda, s)
      [] OTHER -> {}
  BY Zenon DEF getInline
<1>4. getInline(p, pls, s) \subseteq U
  BY Zenon DEF Supplied
<1>5. /\ p.kind \in {"buildroot", "os", "coi", "commit-server"} \/ m.in.version # 0 =>
            Rpms(p.name, m.in.version) \in U
      /\ NewContainersInput(m.in.containers) \subseteq U /\ m.in.commits \subseteq U /\ m.in.flatpaks \subseteq U
      /\ p.kind = "os" /\ (\E t \in m.in.containers : ~ t.local) =>
            NewFilesInputForManifestLists(m.in.containers) \subseteq U
      /\ HashesHostFile(p) => HostFile(m.hashed) \in U
      /\ p.kind = "raw-ostree" => tm.in.commits \subseteq U
      /\ p.kind = "coi-iso-tree" => Inline("IgnitionConfig") \in U
      /\ p.kind = "os-from-container" => \A t \in m.in.containers : ~ t.list
      /\ p.kind = "raw-bootc" => ~ RawBootcImageFails(p.opts, m.in)
      /\ p.kind = "anaconda-iso-tree" =>
            /\ "ISOContainer" \notin p.opts => m.in.containers = {}
            /\ "ISOContainer" \in p.opts => "subscription" \notin DOMAIN p.of
      /\ {TreeFile(n) : n \in DOMAIN MakerOf} \subseteq U
  BY Zenon DEF Supplied
<1> HIDE DEF s, m, tree, tm, coi, cm, anaconda, am
<1>6. ASSUME p.kind = "os" PROVE Takes(s, U)
  <2>1. s = OSStages(p, m) /\ OSInline(s) \subseteq U
    BY <1>1, <1>2, <1>3, <1>4, <1>6
  <2>2. "UriFiles" \in p.opts => HostFile(m.hashed) \in U
    BY <1>5, <1>6 DEF HashesHostFile
  <2> QED
    BY <1>5, <1>6, <2>1, <2>2, OSGiven
<1>7. ASSUME p.kind = "ostree-deployment" PROVE Takes(s, U)
  <2>1. s = OSTreeDeploymentStages(p, m) /\ OSTreeDeploymentInline(p.opts) \subseteq U
    BY <1>1, <1>2, <1>3, <1>4, <1>7
  <2>2. "UriFiles" \in p.opts => HostFile(m.hashed) \in U
    BY <1>5, <1>7 DEF HashesHostFile
  <2>3. /\ "FIPS" \in p.opts => Inline("system-fips") \in U
        /\ "Files" \in p.opts => Inline("Files") \in U
    BY <2>1 DEF OSTreeDeploymentInline, GenFIPSFiles, File
  <2> QED
    BY <1>5, <2>1, <2>2, <2>3, DeploymentTakes
<1>8. ASSUME p.kind = "raw-bootc" PROVE Takes(s, U)
  <2>1. s = RawBootcImageStages(p, m) /\ genFileStagesAndRecordInlineData(p.opts) \subseteq U
    BY <1>1, <1>2, <1>3, <1>4, <1>8
  <2>2. ~ RawBootcImageFails(p.opts, m.in)
    BY <1>5, <1>8
  <2>3. "UnifiedKernel" \notin p.opts => /\ "UriFiles" \notin p.opts
                                         /\ "Files" \in p.opts => Inline("Files") \in U
                                         /\ "Subscription" \in p.opts =>
                                              {f.data : f \in SubscriptionFiles(p.opts, TRUE)} \subseteq U
    BY <2>1, <2>2 DEF RawBootcImageFails, genFileStagesAndRecordInlineData
  <2> QED
    BY <1>5, <2>1, <2>3, RawBootcTakes
<1>9. ASSUME p.kind = "pxe-tree" PROVE Takes(s, U)
  BY <1>1, <1>2, <1>3, <1>4, <1>9, PXETakes
<1>10. ASSUME p.kind = "bootc-pxe-tree" PROVE Takes(s, U)
  BY <1>1, <1>2, <1>3, <1>4, <1>10, RootFSTakes
<1>11. ASSUME p.kind = "subscription" PROVE Takes(s, U)
  BY <1>1, <1>2, <1>3, <1>4, <1>11, SubscriptionTakes
<1>12. ASSUME p.kind = "anaconda" PROVE Takes(s, U)
  <2>1. s = AnacondaStages(p, m) /\ AnacondaInline(p.opts) \subseteq U
    BY <1>1, <1>2, <1>3, <1>4, <1>12
  <2> QED
    BY <1>5, <2>1, AnacondaTakes
<1>13. ASSUME p.kind = "coi" PROVE Takes(s, U)
  <2>1. s = CoreOSStages(p, m) /\ CoreOSInline(p.opts) \subseteq U
    BY <1>1, <1>2, <1>3, <1>4, <1>13
  <2>2. "FDOCerts" \in p.opts => Inline("FDOCerts") \in U
    BY <2>1 DEF CoreOSInline
  <2> QED
    BY <1>5, <1>13, <2>1, <2>2, CoreOSTakes
<1>14. ASSUME p.kind = "anaconda-iso-tree" PROVE Takes(s, U)
  <2>1. s = ISOTreeStages(p, m, anaconda, am) /\ ISOTreeInline(p, anaconda, s) \subseteq U
    BY <1>1, <1>2, <1>3, <1>4, <1>14
  <2> QED
    BY <1>5, <1>14, <2>1, ISOTreeTakes
<1>15. ASSUME p.kind \in {"buildroot", "buildroot-container", "commit-server", "os-from-container"}
       PROVE  Takes(s, U)
  BY <1>1, <1>2, <1>5, <1>15, BuildTakes, CommitTakes, FromContainerTakes
<1>16. ASSUME p.kind = "raw-ostree" PROVE Takes(s, U)
  BY <1>1, <1>2, <1>5, <1>16, RawOSTreeTakes
<1>17. ASSUME p.kind = "coi-iso-tree" PROVE Takes(s, U)
  BY <1>1, <1>2, <1>5, <1>17, CoreOSISOTakes
<1>18. /\ Takes(RawImageStages(p, tree, tm), U) /\ Takes(ConverterStages(p), U)
       /\ Takes(OSTreeCommitStages(tree), U) /\ Takes(OSTreeEncapsulateStages(p), U)
       /\ Takes(BootcRootFSStages(p, tree), U) /\ Takes(EFIBootTreeStages, U)
       /\ Takes(ContainerISOTreeStages(p), U) /\ Takes(ISORootfsStages(p), U) /\ Takes(ISOStages(p), U)
  BY <1>5, RawTakes, ConverterTakes, CommitTakes, RootFSTakes, EFITakes, ISOTakes, Zenon
<1>19. ASSUME p.kind \in {"raw", "ostree-commit", "ostree-encapsulate", "bootc-rootfs", "efi-boot-tree",
                          "container-iso-tree", "iso-rootfs"}
       PROVE  Takes(s, U)
  BY <1>1, <1>2, <1>18, <1>19
<1>20. ASSUME p.kind \notin Kinds PROVE Takes(s, U)
  BY <1>1, <1>18, <1>20
<1> QED
  BY <1>6, <1>7, <1>8, <1>9, <1>10, <1>11, <1>12, <1>13, <1>14, <1>15, <1>16, <1>17, <1>19, <1>20 DEF s

-----------------------------------------------------------------------------
(* What the image definitions tell the pipelines.                          *)

\* The kinds of pipeline whose options or names matter to others.
ToldKinds == {"os", "anaconda", "anaconda-iso-tree", "coi", "coi-iso-tree"}

ToldNames == {"anaconda-tree", "coi-tree"}

\* A pipeline is told what the image was: an OS tree of its containers, an installer of the
\* commit it installs, wherever that is, the CoreOS installer of its configuration.
Fits(p, image) ==
    /\ p.kind = "os" => p.opts \intersect {"Containers", "LocalContainer"} \subseteq image.opts
    /\ p.name = "anaconda-tree" <=> p.kind = "anaconda"
    /\ p.kind = "anaconda" =>
         /\ p.build = "build"
         /\ image.kind = "ostree-installer" =>
              /\ "Payload" \in p.opts
              /\ "PayloadRootfs" \in image.opts => "AnacondaCommit" \in p.opts
    /\ p.kind = "anaconda-iso-tree" =>
         /\ p.of.anaconda = "anaconda-tree"
         /\ "subscription" \in DOMAIN p.of =>
              /\ image.kind = "ostree-installer"
              /\ "PayloadRootfs" \notin image.opts => "ISOCommit" \in p.opts
    /\ p.name = "coi-tree" <=> p.kind = "coi"
    /\ p.kind = "coi" => ("IgnitionConfig" \in image.opts => "IgnitionConfig" \in p.opts)
    /\ p.kind = "coi-iso-tree" => p.of.coi = "coi-tree"

AllFit(s, image) == IsSeq(s) /\ \A i \in DOMAIN s : Fits(s[i], image)

LEMMA FitNone == ASSUME NEW image PROVE AllFit(<< >>, image)
<1>1. IsSeq(<< >>)
  BY Short
<1>2. \A k \in DOMAIN << >> : FALSE
  OBVIOUS
<1> QED
  BY <1>1, <1>2, Zenon DEF AllFit

LEMMA Fit1 == ASSUME NEW image, NEW a, Fits(a, image) PROVE AllFit(<<a>>, image)
<1>1. IsSeq(<<a>>)
  BY Short
<1>2. \A k \in DOMAIN <<a>> : <<a>>[k] = a
  OBVIOUS
<1> QED
  BY <1>1, <1>2, Zenon DEF AllFit

LEMMA FitConcat ==
    ASSUME NEW image, NEW s, NEW t, AllFit(s, image), AllFit(t, image)
    PROVE  AllFit(s \o t, image)
<1>1. IsSeq(s) /\ IsSeq(t)
  BY DEF AllFit
<1>2. /\ IsSeq(s \o t) /\ Len(s) \in Nat /\ Len(t) \in Nat
      /\ DOMAIN s = 1 .. Len(s) /\ DOMAIN t = 1 .. Len(t) /\ DOMAIN (s \o t) = 1 .. (Len(s) + Len(t))
      /\ \A i \in 1 .. Len(s) : (s \o t)[i] = s[i]
      /\ \A i \in 1 .. Len(t) : (s \o t)[Len(s) + i] = t[i]
  BY <1>1, Joined
<1> DEFINE st == s \o t
<1>3. /\ IsSeq(st) /\ DOMAIN st = 1 .. (Len(s) + Len(t))
      /\ \A i \in 1 .. Len(s) : st[i] = s[i]
      /\ \A i \in 1 .. Len(t) : st[Len(s) + i] = t[i]
  BY <1>2
<1> HIDE DEF st
<1>4. ASSUME NEW k \in DOMAIN st PROVE Fits(st[k], image)
  <2>1. CASE k \in 1 .. Len(s)
    <3>1. st[k] = s[k] /\ k \in DOMAIN s
      BY <1>2, <1>3, <2>1, Zenon
    <3> QED
      BY <3>1, Zenon DEF AllFit
  <2>2. CASE k \notin 1 .. Len(s)
    <3> DEFINE j == k - Len(s)
    <3>1. j \in 1 .. Len(t) /\ k = Len(s) + j
      BY <1>2, <1>3, <2>2
    <3> HIDE DEF j
    <3>2. st[k] = t[j] /\ j \in DOMAIN t
      BY <1>2, <1>3, <3>1, Zenon
    <3> QED
      BY <3>2, Zenon DEF AllFit
  <2> QED
    BY <2>1, <2>2
<1>5. AllFit(st, image)
  BY <1>3, <1>4, Zenon DEF AllFit
<1> QED
  BY <1>5 DEF st

LEMMA FitWhen == ASSUME NEW image, NEW c, NEW s, c => AllFit(s, image) PROVE AllFit(When(c, s), image)
  BY FitNone DEF When

\* Pipelines written out one after the other.
LEMMA Fit2 == ASSUME NEW image, NEW a, NEW b, Fits(a, image), Fits(b, image) PROVE AllFit(<<a, b>>, image)
  BY Fit1, FitConcat, Pair, Zenon

LEMMA Fit3 ==
    ASSUME NEW image, NEW a, NEW b, NEW c, Fits(a, image), Fits(b, image), Fits(c, image)
    PROVE  AllFit(<<a, b, c>>, image)
<1>1. <<a, b, c>> = <<a, b>> \o <<c>>
  OBVIOUS
<1> QED
  BY <1>1, Fit1, Fit2, FitConcat, Zenon

LEMMA Fit4 ==
    ASSUME NEW image, NEW a, NEW b, NEW c, NEW d, Fits(a, image), Fits(b, image), Fits(c, image), Fits(d, image)
    PROVE  AllFit(<<a, b, c, d>>, image)
<1>1. <<a, b, c, d>> = <<a, b>> \o <<c, d>>
  OBVIOUS
<1> QED
  BY <1>1, Fit2, FitConcat, Zenon

LEMMA Fit5 ==
    ASSUME NEW image, NEW a, NEW b, NEW c, NEW d, NEW e,
           Fits(a, image), Fits(b, image), Fits(c, image), Fits(d, image), Fits(e, image)
    PROVE  AllFit(<<a, b, c, d, e>>, image)
<1>1. <<a, b, c, d, e>> = <<a, b, c>> \o <<d, e>>
  OBVIOUS
<1> QED
  BY <1>1, Fit2, Fit3, FitConcat, Zenon

\* Most pipelines are told nothing that matters.
LEMMA FitsPlain ==
    ASSUME NEW image, NEW kind, kind \notin ToldKinds, NEW name, name \notin ToldNames,
           NEW build, NEW of, NEW opts
    PROVE  Fits(Pipeline(kind, name, build, of, opts), image)
  BY DEF Fits, Pipeline, ToldKinds, ToldNames

\* An OS tree has the options of the image, and perhaps more.
LEMMA FitsOS ==
    ASSUME NEW image
    PROVE  /\ Fits(Pipeline("os", "os", "build", Nothing, OSOpts(image)), image)
           /\ \A more : more \intersect {"Containers", "LocalContainer"} = {} =>
                Fits(Pipeline("os", "os", "build", Nothing, OSOpts(image) \union more), image)
  BY DEF Fits, Pipeline, OSOpts

LEMMA BuildFit ==
    ASSUME NEW image
    PROVE  /\ AllFit(addBuildBootstrapPipelines(image), image)
           /\ AllFit(NewBuildFromContainer({}), image)
           /\ AllFit(BootcBuild(image), image)
           /\ AllFit(OSOnly(image), image)
           /\ \A opts : AllFit(BootcRaw(image, opts), image)
           /\ \A opts : AllFit(baseRawOstreeImage(opts), image)
           /\ \A name : name \notin ToldNames => AllFit(newGCETarPipelineForImg(name), image)
<1>1. AllFit(addBuildBootstrapPipelines(image), image)
  <2> DEFINE c == Pipeline("buildroot-container", "bootstrap-buildroot", "", Nothing, {"DisableSELinux"})
             p == Pipeline("buildroot", "build", "bootstrap-buildroot", Nothing, {"DisableSELinux"})
             q == Pipeline("buildroot", "build", "", Nothing, {})
  <2>1. Fits(c, image) /\ Fits(p, image) /\ Fits(q, image)
    BY FitsPlain DEF ToldKinds, ToldNames
  <2>2. addBuildBootstrapPipelines(image) = IF "Bootstrap" \in image.opts THEN <<c, p>> ELSE <<q>>
    BY Zenon DEF addBuildBootstrapPipelines
  <2> HIDE DEF c, p, q
  <2> QED
    BY <2>1, <2>2, Fit1, Fit2, Zenon
<1>2. AllFit(NewBuildFromContainer({}), image)
  <2>1. Fits(Pipeline("buildroot-container", "build", "", Nothing, {}), image)
    BY FitsPlain DEF ToldKinds, ToldNames
  <2> QED
    BY <2>1, Fit1, Zenon DEF NewBuildFromContainer
<1>3. AllFit(BootcBuild(image), image)
  <2> DEFINE c == Pipeline("buildroot-container", "target", "", Nothing, {"EnsureDirs"})
             p == Pipeline("buildroot-container", "build", "", [target |-> "target"], {"EnsureDirs", "CopyFilesFrom"})
  <2>1. Fits(c, image) /\ Fits(p, image)
    BY FitsPlain DEF ToldKinds, ToldNames
  <2>2. BootcBuild(image) = IF "BuildContainer" \in image.opts THEN <<c, p>> ELSE NewBuildFromContainer({})
    BY Zenon DEF BootcBuild
  <2> HIDE DEF c, p
  <2> QED
    BY <1>2, <2>1, <2>2, Fit2, Zenon
<1>4. AllFit(OSOnly(image), image)
  <2>1. Fits(Pipeline("os", "os", "build", Nothing, OSOpts(image)), image)
    BY FitsOS
  <2> QED
    BY <2>1, Fit1, Zenon DEF OSOnly
<1>5. ASSUME NEW opts PROVE AllFit(BootcRaw(image, opts), image)
  <2>1. \A of : Fits(Pipeline("raw-bootc", "image", "build", of, opts), image)
    BY FitsPlain DEF ToldKinds, ToldNames
  <2> QED
    BY <2>1, Fit1, Zenon DEF BootcRaw
<1>6. ASSUME NEW opts PROVE AllFit(baseRawOstreeImage(opts), image)
  <2>1. /\ Fits(Pipeline("ostree-deployment", "ostree-deployment", "build", Nothing, opts), image)
        /\ Fits(Pipeline("raw-ostree", "image", "build", Tree("ostree-deployment"), {}), image)
    BY FitsPlain DEF ToldKinds, ToldNames
  <2> QED
    BY <2>1, Fit2, Zenon DEF baseRawOstreeImage
<1>7. ASSUME NEW name, name \notin ToldNames PROVE AllFit(newGCETarPipelineForImg(name), image)
  <2>1. Fits(Pipeline("tar", name, "build", Tree("image"), {}), image)
    BY <1>7, FitsPlain DEF ToldKinds
  <2> QED
    BY <2>1, Fit1, Zenon DEF newGCETarPipelineForImg
<1> QED
  BY <1>1, <1>2, <1>3, <1>4, <1>5, <1>6, <1>7, Zenon

LEMMA CompressionFit ==
    ASSUME NEW image, ~ GetCompressionPipelinePanics(image), NEW x
    PROVE  AllFit(GetCompressionPipeline(image, x), image)
<1>1. image.compression # "" => image.compression \notin ToldKinds \union ToldNames
  BY DEF GetCompressionPipelinePanics, ToldKinds, ToldNames
<1>2. image.compression # "" =>
        Fits(Pipeline(image.compression, image.compression, "build", Tree(x), {}), image)
  BY <1>1, FitsPlain
<1> QED
  BY <1>2, Fit1, FitWhen, Zenon DEF GetCompressionPipeline

LEMMA FormatFit == ASSUME NEW image, NEW format PROVE AllFit(DiskFormat(format), image)
<1> DEFINE Conv(kind, name, input) == Pipeline(kind, name, "build", Tree(input), {})
           box == Pipeline("vagrant", "vagrant", "build", Tree("vmdk"), {"VirtualBox"})
           q == Conv("qcow2", "qcow2", "image")
           v == Conv("vmdk", "vmdk", "image")
           qv == Conv("vagrant", "vagrant", "qcow2")
           va == Conv("tar", "archive", "vagrant")
           o == Conv("ovf", "ovf", "vmdk")
           oa == Conv("tar", "archive", "ovf")
           g == Conv("tar", "archive", "image")
<1>1. /\ Fits(q, image) /\ Fits(v, image) /\ Fits(qv, image) /\ Fits(va, image) /\ Fits(o, image)
      /\ Fits(oa, image) /\ Fits(g, image) /\ Fits(box, image)
      /\ format \in {"qcow2", "vmdk", "vpc"} => Fits(Conv(format, format, "image"), image)
  BY FitsPlain DEF ToldKinds, ToldNames
<1> HIDE DEF box
<1>2. DiskFormat(format) =
        CASE format \in {"qcow2", "vmdk", "vpc"} -> <<Conv(format, format, "image")>>
          [] format = "vagrant-libvirt" -> <<q, qv, va>>
          [] format = "vagrant-virtualbox" -> <<v, box, va>>
          [] format = "ova" -> <<v, o, oa>>
          [] format = "gce" -> <<g>>
          [] OTHER -> << >>
  BY Zenon DEF DiskFormat, newGCETarPipelineForImg, box
<1> HIDE DEF q, v, qv, va, o, oa, g, Conv
<1> QED
  BY <1>1, <1>2, Fit1, Fit3, FitNone, Zenon

\* Images of a system that is installed from packages.
LEMMA SystemFit ==
    ASSUME NEW image
    PROVE  /\ ~ GetCompressionPipelinePanics(image) => AllFit(Archive(image), image)
           /\ AllFit(BaseContainer(image), image)
           /\ ~ GetCompressionPipelinePanics(image) => AllFit(DiskImage(image), image)
           /\ ~ GetCompressionPipelinePanics(image) => AllFit(PXETar(image), image)
           /\ AllFit(OSTreeArchive(image), image)
           /\ AllFit(OSTreeContainer(image), image)
<1>1. ASSUME ~ GetCompressionPipelinePanics(image) PROVE AllFit(Archive(image), image)
  <2>1. Fits(Pipeline("tar", "archive", "build", Tree("os"), {}), image)
    BY FitsPlain DEF ToldKinds, ToldNames
  <2> QED
    BY <1>1, <2>1, BuildFit, CompressionFit, Fit1, FitConcat, Zenon DEF Archive
<1>2. AllFit(BaseContainer(image), image)
  <2>1. Fits(Pipeline("container", "container", "build", Tree("os"), {}), image)
    BY FitsPlain DEF ToldKinds, ToldNames
  <2> QED
    BY <2>1, BuildFit, Fit1, FitConcat, Zenon DEF BaseContainer
<1>3. ASSUME ~ GetCompressionPipelinePanics(image) PROVE AllFit(DiskImage(image), image)
  <2> DEFINE raw == <<Pipeline("raw", "image", "build", Tree("os"), {})>>
             made == addBuildBootstrapPipelines(image) \o OSOnly(image) \o raw \o DiskFormat(image.format)
  <2>1. AllFit(raw, image)
    <3>1. Fits(Pipeline("raw", "image", "build", Tree("os"), {}), image)
      BY FitsPlain DEF ToldKinds, ToldNames
    <3> QED
      BY <3>1, Fit1
  <2>2. DiskImage(image) = made \o GetCompressionPipeline(image, Last(made).name)
    BY Zenon DEF DiskImage
  <2> HIDE DEF raw
  <2>3. AllFit(made, image)
    BY <2>1, BuildFit, FormatFit, FitConcat, Zenon
  <2> HIDE DEF made
  <2>4. AllFit(GetCompressionPipeline(image, Last(made).name), image)
    BY <1>3, CompressionFit
  <2> QED
    BY <2>2, <2>3, <2>4, FitConcat, Zenon
<1>4. ASSUME ~ GetCompressionPipelinePanics(image) PROVE AllFit(PXETar(image), image)
  <2> DEFINE o == Pipeline("os", "os", "build", Nothing, OSOpts(image) \union {"KernelName", "DracutConf"})
             p == Pipeline("pxe-tree", "pxe-tree", "build", Tree("os"), image.opts \intersect {"Erofs"})
             t == Pipeline("tar", "tar", "build", Tree("pxe-tree"), {})
  <2>1. Fits(o, image)
    BY FitsOS
  <2>2. Fits(p, image) /\ Fits(t, image)
    BY FitsPlain DEF ToldKinds, ToldNames
  <2>3. PXETar(image) = addBuildBootstrapPipelines(image) \o <<o, p, t>> \o GetCompressionPipeline(image, "tar")
    BY Zenon DEF PXETar
  <2> HIDE DEF o, p, t
  <2>4. AllFit(<<o, p, t>>, image)
    BY <2>1, <2>2, Fit3
  <2>5. AllFit(addBuildBootstrapPipelines(image), image) /\ AllFit(GetCompressionPipeline(image, "tar"), image)
    BY <1>4, BuildFit, CompressionFit
  <2> QED
    BY <2>3, <2>4, <2>5, FitConcat, Zenon
<1>5. AllFit(OSTreeArchive(image), image)
  <2> DEFINE more == {"OSTreeRef"} \union (IF "BootContainer" \in image.opts THEN {"Bootupd"} ELSE {})
             o == Pipeline("os", "os", "build", Nothing,
                           OSOpts(image) \union {"OSTreeRef"}
                             \union (IF "BootContainer" \in image.opts THEN {"Bootupd"} ELSE {}))
             c == Pipeline("ostree-commit", "ostree-commit", "build", Tree("os"), {})
             e == Pipeline("ostree-encapsulate", "ostree-encapsulate", "build", Tree("ostree-commit"), {})
             t == Pipeline("tar", "commit-archive", "build", Tree("ostree-commit"), {})
             last == IF "BootContainer" \in image.opts THEN e ELSE t
  <2>1. Fits(o, image)
    <3>1. OSOpts(image) \union {"OSTreeRef"} \union (IF "BootContainer" \in image.opts THEN {"Bootupd"} ELSE {})
            = OSOpts(image) \union more
      OBVIOUS
    <3>2. more \intersect {"Containers", "LocalContainer"} = {}
      OBVIOUS
    <3> HIDE DEF more
    <3> QED
      BY <3>1, <3>2, FitsOS, Zenon
  <2>2. Fits(c, image) /\ Fits(e, image) /\ Fits(t, image)
    BY FitsPlain DEF ToldKinds, ToldNames
  <2>3. OSTreeArchive(image) = addBuildBootstrapPipelines(image) \o <<o, c, last>>
    BY Zenon DEF OSTreeArchive
  <2> HIDE DEF o, c, e, t
  <2>4. Fits(last, image)
    BY <2>2, Zenon
  <2> HIDE DEF last
  <2>5. AllFit(<<o, c, last>>, image)
    BY <2>1, <2>2, <2>4, Fit3
  <2>6. AllFit(addBuildBootstrapPipelines(image), image)
    BY BuildFit
  <2> QED
    BY <2>3, <2>5, <2>6, FitConcat, Zenon
<1>6. AllFit(OSTreeContainer(image), image)
  <2> DEFINE o == Pipeline("os", "os", "build", Nothing, OSOpts(image) \union {"OSTreeRef"})
             c == Pipeline("ostree-commit", "ostree-commit", "build", Tree("os"), {})
             s == Pipeline("commit-server", "container-tree", "build", Tree("ostree-commit"), {})
             t == Pipeline("container", "container", "build", Tree("container-tree"), {})
  <2>1. Fits(o, image)
    BY FitsOS
  <2>2. Fits(c, image) /\ Fits(s, image) /\ Fits(t, image)
    BY FitsPlain DEF ToldKinds, ToldNames
  <2>3. OSTreeContainer(image) = addBuildBootstrapPipelines(image) \o <<o, c, s, t>>
    BY Zenon DEF OSTreeContainer
  <2> HIDE DEF o, c, s, t
  <2>4. AllFit(<<o, c, s, t>>, image)
    BY <2>1, <2>2, Fit4
  <2>5. AllFit(addBuildBootstrapPipelines(image), image)
    BY BuildFit
  <2> QED
    BY <2>3, <2>4, <2>5, FitConcat, Zenon
<1> QED
  BY <1>1, <1>2, <1>3, <1>4, <1>5, <1>6

\* Images of a bootable container.
LEMMA ContainerFit ==
    ASSUME NEW image
    PROVE  /\ AllFit(BootcDiskImage(image), image)
           /\ ~ GetCompressionPipelinePanics(image) => AllFit(BootcPXEImage(image), image)
           /\ AllFit(BootcLegacyDiskImage(image), image)
           /\ AllFit(ContainerBasedIso(image), image)
<1> DEFINE q == Pipeline("qcow2", "qcow2", "", Tree("image"), {})
           v == Pipeline("vmdk", "vmdk", "", Tree("image"), {})
           c == Pipeline("vpc", "vpc", "", Tree("image"), {})
           o == Pipeline("ovf", "ovf", "", Tree("vmdk"), {})
           a == Pipeline("tar", "archive", "", Tree("ovf"), {})
<1>1. Fits(q, image) /\ Fits(v, image) /\ Fits(c, image) /\ Fits(o, image) /\ Fits(a, image)
  BY FitsPlain DEF ToldKinds, ToldNames
<1>2. AllFit(BootcDiskImage(image), image)
  <2>1. BootcDiskImage(image) = BootcBuild(image) \o BootcRaw(image, image.opts) \o <<q, v, c, o, a>>
                                  \o newGCETarPipelineForImg("gce")
    BY Zenon DEF BootcDiskImage
  <2>2. AllFit(newGCETarPipelineForImg("gce"), image)
    BY BuildFit DEF ToldNames
  <2> HIDE DEF q, v, c, o, a
  <2>3. AllFit(<<q, v, c, o, a>>, image)
    BY <1>1, Fit5
  <2>4. AllFit(BootcBuild(image), image) /\ AllFit(BootcRaw(image, image.opts), image)
    BY BuildFit, Zenon
  <2> QED
    BY <2>1, <2>2, <2>3, <2>4, FitConcat, Zenon
<1>3. ASSUME ~ GetCompressionPipelinePanics(image) PROVE AllFit(BootcPXEImage(image), image)
  <2> DEFINE r == Pipeline("bootc-rootfs", "bootc-rootfs", "build", Tree("image"),
                           image.opts \intersect {"Erofs"})
             p == Pipeline("bootc-pxe-tree", "bootc-pxe-tree", "build", Tree("bootc-rootfs"), {})
             t == Pipeline("tar", "tar", "build", Tree("bootc-pxe-tree"), {})
  <2>1. Fits(r, image) /\ Fits(p, image) /\ Fits(t, image)
    BY FitsPlain DEF ToldKinds, ToldNames
  <2>2. BootcPXEImage(image) = BootcBuild(image) \o BootcRaw(image, image.opts \union {"LiveBoot"}) \o <<r, p, t>>
                                 \o GetCompressionPipeline(image, "tar")
    BY Zenon DEF BootcPXEImage
  <2> HIDE DEF r, p, t
  <2>3. AllFit(<<r, p, t>>, image)
    BY <2>1, Fit3
  <2>4. /\ AllFit(BootcBuild(image), image) /\ AllFit(BootcRaw(image, image.opts \union {"LiveBoot"}), image)
        /\ AllFit(GetCompressionPipeline(image, "tar"), image)
    BY <1>3, BuildFit, CompressionFit, Zenon
  <2> QED
    BY <2>2, <2>3, <2>4, FitConcat, Zenon
<1>4. AllFit(BootcLegacyDiskImage(image), image)
  <2> DEFINE opts == (image.opts \intersect {"Users", "RootUser", "Groups", "BadPassword",
                                "PartitionTable", "FAT", "EXT4", "XFS", "LUKS", "UEFI", "BIOS",
                                "TreeBootFiles", "BuildBootFiles"})
                              \union {"FromContainer", "UseBootupd"}
  <2>1. BootcLegacyDiskImage(image) = NewBuildFromContainer({}) \o baseRawOstreeImage(opts) \o <<q, v, o, a>>
    BY Zenon DEF BootcLegacyDiskImage
  <2> HIDE DEF q, v, o, a, opts
  <2>2. AllFit(<<q, v, o, a>>, image)
    BY <1>1, Fit4
  <2>3. AllFit(NewBuildFromContainer({}), image) /\ AllFit(baseRawOstreeImage(opts), image)
    BY BuildFit, Zenon
  <2> QED
    BY <2>1, <2>2, <2>3, FitConcat, Zenon
<1>5. AllFit(ContainerBasedIso(image), image)
  <2> DEFINE x == Pipeline("os-from-container", "os-tree", "build", Nothing,
                           image.opts \intersect {"PayloadContainer"})
             e == Pipeline("efi-boot-tree", "efiboot-tree", "build", Nothing, image.opts)
             t == Pipeline("container-iso-tree", "bootiso-tree", "build",
                           [tree |-> "os-tree", efi |-> "efiboot-tree"], image.opts)
             i == Pipeline("iso", "bootiso", "build", Tree("bootiso-tree"), {"Grub2ISO"})
  <2>1. Fits(x, image) /\ Fits(e, image) /\ Fits(t, image) /\ Fits(i, image)
    BY FitsPlain DEF ToldKinds, ToldNames
  <2>2. ContainerBasedIso(image) = NewBuildFromContainer({}) \o <<x, e, t, i>>
    BY Zenon DEF ContainerBasedIso
  <2> HIDE DEF x, e, t, i
  <2>3. AllFit(<<x, e, t, i>>, image)
    BY <2>1, Fit4
  <2>4. AllFit(NewBuildFromContainer({}), image)
    BY BuildFit
  <2> QED
    BY <2>2, <2>3, <2>4, FitConcat, Zenon
<1> QED
  BY <1>2, <1>3, <1>4, <1>5

\* Images of a commit.
LEMMA OSTreeFit ==
    ASSUME NEW image
    PROVE  /\ ~ GetCompressionPipelinePanics(image) => AllFit(OSTreeDiskImage(image), image)
           /\ AllFit(OSTreeSimplifiedInstaller(image), image)
<1>1. ASSUME ~ GetCompressionPipelinePanics(image) PROVE AllFit(OSTreeDiskImage(image), image)
  <2>1. Fits(Pipeline("buildroot", "build", "", Nothing, {}), image)
    BY FitsPlain DEF ToldKinds, ToldNames
  <2> QED
    BY <1>1, <2>1, BuildFit, FormatFit, CompressionFit, Fit1, FitWhen, FitConcat, Zenon DEF OSTreeDiskImage
<1>2. AllFit(OSTreeSimplifiedInstaller(image), image)
  <2> DEFINE arch == image.opts \intersect {"AARCH64", "S390X", "PPC64LE", "BadArch"}
             coi == {"KernelName"} \union arch
                      \union (image.opts \intersect {"FDOCerts", "IgnitionEmbedded", "IgnitionConfig", "RPMKeys",
                                                     "KernelMissing", "Biosdevname"})
             x == Pipeline("xz", "xz", "build", Tree("image"), {})
             c == Pipeline("coi", "coi-tree", "build", Nothing, coi)
             e == Pipeline("efi-boot-tree", "efiboot-tree", "build", Nothing, arch)
             of == [tree |-> "xz", coi |-> "coi-tree", efi |-> "efiboot-tree"]
             t == Pipeline("coi-iso-tree", "bootiso-tree", "build", of, IF arch = {} THEN {"ISOLinux"} ELSE {})
             i == Pipeline("iso", "bootiso", "build", Tree("bootiso-tree"),
                           image.opts \intersect {"Syslinux", "Grub2ISO"})
  <2>1. OSTreeSimplifiedInstaller(image) =
          addBuildBootstrapPipelines(image) \o baseRawOstreeImage(image.opts) \o <<x, c, e, t, i>>
    BY Zenon DEF OSTreeSimplifiedInstaller
  <2>2. "IgnitionConfig" \in image.opts => "IgnitionConfig" \in coi
    OBVIOUS
  <2>3. of.coi = "coi-tree"
    OBVIOUS
  <2> HIDE DEF arch, coi, of
  <2>4. Fits(x, image) /\ Fits(e, image) /\ Fits(i, image)
    BY FitsPlain DEF ToldKinds, ToldNames
  <2>5. Fits(c, image)
    BY <2>2 DEF Fits, Pipeline
  <2>6. Fits(t, image)
    BY <2>3 DEF Fits, Pipeline
  <2> HIDE DEF x, c, e, t, i
  <2>7. AllFit(<<x, c, e, t, i>>, image)
    BY <2>4, <2>5, <2>6, Fit5
  <2>8. AllFit(addBuildBootstrapPipelines(image), image) /\ AllFit(baseRawOstreeImage(image.opts), image)
    BY BuildFit, Zenon
  <2> QED
    BY <2>1, <2>7, <2>8, FitConcat, Zenon
<1> QED
  BY <1>1, <1>2

\* The tree of the installer, what it boots with, and the tree of its ISO.
LEMMA InstallerFit ==
    ASSUME NEW image
    PROVE  /\ \A opts : (image.kind = "ostree-installer" =>
                           /\ "Payload" \in opts
                           /\ "PayloadRootfs" \in image.opts => "AnacondaCommit" \in opts) =>
                AllFit(AnacondaTree(image, opts), image)
           /\ AllFit(ISORootfsImg(image), image) /\ AllFit(Bootloaders(image), image)
           /\ \A more, opts : ("subscription" \in more =>
                                 /\ image.kind = "ostree-installer"
                                 /\ "PayloadRootfs" \notin image.opts => "ISOCommit" \in opts) =>
                AllFit(ISOPipelines(image, more, opts), image)
<1>1. ASSUME NEW opts, image.kind = "ostree-installer" =>
                           /\ "Payload" \in opts
                           /\ "PayloadRootfs" \in image.opts => "AnacondaCommit" \in opts
      PROVE  AllFit(AnacondaTree(image, opts), image)
  <2>1. Fits(Pipeline("anaconda", "anaconda-tree", "build", Nothing,
                      (image.opts \ {"Kickstart", "SELinux"}) \union opts), image)
    BY <1>1 DEF Fits, Pipeline
  <2> QED
    BY <2>1, Fit1, Zenon DEF AnacondaTree
<1>2. AllFit(ISORootfsImg(image), image)
  <2>1. Fits(Pipeline("iso-rootfs", "rootfs-image", "build", Tree("anaconda-tree"), {}), image)
    BY FitsPlain DEF ToldKinds, ToldNames
  <2> QED
    BY <2>1, Fit1, FitWhen, Zenon DEF ISORootfsImg
<1>3. AllFit(Bootloaders(image), image)
  <2>1. Fits(Pipeline("efi-boot-tree", "efiboot-tree", "build", Nothing, image.opts), image)
    BY FitsPlain DEF ToldKinds, ToldNames
  <2> QED
    BY <2>1, Fit1, FitWhen, Zenon DEF Bootloaders
<1>4. ASSUME NEW more, NEW opts,
             "subscription" \in more =>
                 /\ image.kind = "ostree-installer"
                 /\ "PayloadRootfs" \notin image.opts => "ISOCommit" \in opts
      PROVE  AllFit(ISOPipelines(image, more, opts), image)
  <2> DEFINE efi == IF UEFIBoot(image) THEN {"efi"} ELSE {}
             rootfs == IF "SquashfsExt4" \in image.opts THEN {"rootfs"} ELSE {}
             roles == {"anaconda"} \union efi \union rootfs \union more
             of == [role \in roles |-> ISOTreeOf[role]]
             t == Pipeline("anaconda-iso-tree", "bootiso-tree", "build", of, image.opts \union opts)
             i == Pipeline("iso", "bootiso", "build", Tree("bootiso-tree"), image.opts \intersect BootTypes)
  <2>1. ISOPipelines(image, more, opts) = <<t, i>>
    BY Zenon DEF ISOPipelines
  <2>2. of.anaconda = "anaconda-tree"
    BY DEF ISOTreeOf
  <2>3. "subscription" \in DOMAIN of => "subscription" \in more
    OBVIOUS
  <2> HIDE DEF of
  <2>4. Fits(t, image)
    BY <1>4, <2>2, <2>3 DEF Fits, Pipeline
  <2>5. Fits(i, image)
    BY FitsPlain DEF ToldKinds, ToldNames
  <2> HIDE DEF t, i
  <2> QED
    BY <2>1, <2>4, <2>5, Fit2, Zenon
<1> QED
  BY <1>1, <1>2, <1>3, <1>4

LEMMA AnacondaFit ==
    ASSUME NEW image
    PROVE  /\ image.kind = "live-installer" => AllFit(AnacondaLiveInstaller(image), image)
           /\ image.kind = "netinst" => AllFit(AnacondaNetInstaller(image), image)
           /\ image.kind = "ostree-installer" => AllFit(AnacondaOSTreeInstaller(image), image)
           /\ image.kind # "ostree-installer" =>
                /\ AllFit(AnacondaTarInstaller(image), image)
                /\ AllFit(AnacondaContainerInstaller(image), image)
                /\ AllFit(AnacondaContainerInstallerLegacy(image), image)
<1>1. ASSUME image.kind # "ostree-installer"
      PROVE  /\ \A opts : AllFit(AnacondaTree(image, opts), image)
             /\ \A opts : AllFit(ISOPipelines(image, {}, opts), image)
             /\ \A opts : AllFit(ISOPipelines(image, {"os"}, opts), image)
  <2>1. "subscription" \notin {} /\ "subscription" \notin {"os"}
    OBVIOUS
  <2> QED
    BY <1>1, <2>1, InstallerFit, Zenon
<1>2. ASSUME image.kind = "live-installer" PROVE AllFit(AnacondaLiveInstaller(image), image)
  <2>1. image.kind # "ostree-installer"
    BY <1>2
  <2> QED
    BY <1>1, <2>1, BuildFit, InstallerFit, FitConcat, Zenon DEF AnacondaLiveInstaller
<1>3. ASSUME image.kind = "netinst" PROVE AllFit(AnacondaNetInstaller(image), image)
  <2>1. image.kind # "ostree-installer"
    BY <1>3
  <2> QED
    BY <1>1, <2>1, BuildFit, InstallerFit, FitConcat, Zenon DEF AnacondaNetInstaller
<1>4. ASSUME image.kind = "ostree-installer" PROVE AllFit(AnacondaOSTreeInstaller(image), image)
  <2> DEFINE inRootfs == "PayloadRootfs" \in image.opts
             subscription == "Subscription" \in image.opts
             installer == {"Payload", "KernelName"} \union (IF inRootfs THEN {"AnacondaCommit"} ELSE {})
             s == Pipeline("subscription", "subscription", "build", Nothing, image.opts)
             more == IF subscription THEN {"subscription"} ELSE {}
             opts == IF inRootfs THEN {} ELSE {"ISOCommit"}
  <2>1. AnacondaOSTreeInstaller(image) =
          addBuildBootstrapPipelines(image) \o AnacondaTree(image, installer)
            \o ISORootfsImg(image) \o Bootloaders(image)
            \o When(subscription, <<s>>) \o ISOPipelines(image, more, opts)
    BY Zenon DEF AnacondaOSTreeInstaller
  <2>2. "Payload" \in installer /\ (inRootfs => "AnacondaCommit" \in installer)
    OBVIOUS
  <2>3. ~ inRootfs => "ISOCommit" \in opts
    OBVIOUS
  <2>4. Fits(s, image)
    BY FitsPlain DEF ToldKinds, ToldNames
  <2> HIDE DEF installer, s, more, opts
  <2>5. AllFit(AnacondaTree(image, installer), image) /\ AllFit(ISOPipelines(image, more, opts), image)
    BY <1>4, <2>2, <2>3, InstallerFit, Zenon
  <2>6. AllFit(When(subscription, <<s>>), image)
    BY <2>4, Fit1, FitWhen, Zenon
  <2> HIDE DEF subscription
  <2>7. /\ AllFit(addBuildBootstrapPipelines(image), image)
        /\ AllFit(ISORootfsImg(image), image) /\ AllFit(Bootloaders(image), image)
    BY BuildFit, InstallerFit, Zenon
  <2> DEFINE sub == When(subscription, <<s>>)
  <2> HIDE DEF sub
  <2>8. AllFit(sub, image)
    BY <2>6 DEF sub
  <2> QED
    BY <2>1, <2>5, <2>7, <2>8, FitConcat, Zenon DEF sub
<1>5. ASSUME image.kind # "ostree-installer"
      PROVE  /\ AllFit(AnacondaTarInstaller(image), image)
             /\ AllFit(AnacondaContainerInstaller(image), image)
             /\ AllFit(AnacondaContainerInstallerLegacy(image), image)
  <2>1. AllFit(<<Pipeline("os", "os", "build", Nothing, OSOpts(image))>>, image)
    BY FitsOS, Fit1, Zenon
  <2>2. AllFit(AnacondaTarInstaller(image), image)
    BY <1>1, <1>5, <2>1, BuildFit, InstallerFit, FitConcat, Zenon DEF AnacondaTarInstaller
  <2>3. AllFit(AnacondaContainerInstaller(image), image)
    BY <1>1, <1>5, BuildFit, InstallerFit, FitConcat, Zenon DEF AnacondaContainerInstaller
  <2>4. AllFit(AnacondaContainerInstallerLegacy(image), image)
    BY <1>1, <1>5, BuildFit, InstallerFit, FitConcat, Zenon DEF AnacondaContainerInstallerLegacy
  <2> QED
    BY <2>2, <2>3, <2>4
<1> QED
  BY <1>2, <1>3, <1>4, <1>5

\* Whatever the image.
LEMMA ImageFit ==
    ASSUME NEW image, ~ InstantiateManifestPanics(image)
    PROVE  AllFit(InstantiateManifest(image), image)
<1>1. image.kind \in Compressed => ~ GetCompressionPipelinePanics(image)
  BY DEF InstantiateManifestPanics
<1>2. Compressed = {"archive", "disk", "pxe-tar", "bootc-pxe", "ostree-disk"}
  BY DEF Compressed
<1> DEFINE s == InstantiateManifest(image)
<1>3. s = CASE image.kind = "archive" -> Archive(image)
            [] image.kind = "base-container" -> BaseContainer(image)
            [] image.kind = "disk" -> DiskImage(image)
            [] image.kind = "pxe-tar" -> PXETar(image)
            [] image.kind = "bootc-disk" -> BootcDiskImage(image)
            [] image.kind = "bootc-legacy-disk" -> BootcLegacyDiskImage(image)
            [] image.kind = "bootc-pxe" -> BootcPXEImage(image)
            [] image.kind = "container-based-iso" -> ContainerBasedIso(image)
            [] image.kind = "ostree-disk" -> OSTreeDiskImage(image)
            [] image.kind = "ostree-archive" -> OSTreeArchive(image)
            [] image.kind = "ostree-container" -> OSTreeContainer(image)
            [] image.kind = "simplified-installer" -> OSTreeSimplifiedInstaller(image)
            [] image.kind = "live-installer" -> AnacondaLiveInstaller(image)
            [] image.kind = "netinst" -> AnacondaNetInstaller(image)
            [] image.kind = "ostree-installer" -> AnacondaOSTreeInstaller(image)
            [] image.kind = "image-installer" -> AnacondaTarInstaller(image)
            [] image.kind = "bootc-installer" -> AnacondaContainerInstaller(image)
            [] OTHER -> AnacondaContainerInstallerLegacy(image)
  BY Zenon DEF InstantiateManifest
<1> HIDE DEF s
<1>4. ASSUME image.kind \in Compressed PROVE AllFit(s, image)
  <2>1. ~ GetCompressionPipelinePanics(image)
    BY <1>1, <1>4
  <2>2. /\ AllFit(Archive(image), image) /\ AllFit(DiskImage(image), image) /\ AllFit(PXETar(image), image)
        /\ AllFit(BootcPXEImage(image), image) /\ AllFit(OSTreeDiskImage(image), image)
    BY <2>1, SystemFit, ContainerFit, OSTreeFit, Zenon
  <2> QED
    BY <1>2, <1>3, <1>4, <2>2
<1>5. ASSUME image.kind \in {"base-container", "bootc-disk", "bootc-legacy-disk", "container-based-iso",
                             "ostree-archive", "ostree-container", "simplified-installer"}
      PROVE  AllFit(s, image)
  <2>1. /\ AllFit(BaseContainer(image), image) /\ AllFit(BootcDiskImage(image), image)
        /\ AllFit(BootcLegacyDiskImage(image), image) /\ AllFit(ContainerBasedIso(image), image)
        /\ AllFit(OSTreeArchive(image), image) /\ AllFit(OSTreeContainer(image), image)
        /\ AllFit(OSTreeSimplifiedInstaller(image), image)
    BY SystemFit, ContainerFit, OSTreeFit, Zenon
  <2> QED
    BY <1>3, <1>5, <2>1
<1>6. ASSUME image.kind \in {"live-installer", "netinst", "ostree-installer"} PROVE AllFit(s, image)
  BY <1>3, <1>6, AnacondaFit
<1>7. ASSUME image.kind \notin Compressed, image.kind # "ostree-installer",
             image.kind \notin {"base-container", "bootc-disk", "bootc-legacy-disk", "container-based-iso",
                                "ostree-archive", "ostree-container", "simplified-installer",
                                "live-installer", "netinst"}
      PROVE  AllFit(s, image)
  <2>1. /\ AllFit(AnacondaTarInstaller(image), image)
        /\ AllFit(AnacondaContainerInstaller(image), image)
        /\ AllFit(AnacondaContainerInstallerLegacy(image), image)
    BY <1>7, AnacondaFit
  <2> QED
    BY <1>2, <1>3, <1>7, <2>1
<1>8. AllFit(s, image)
  BY <1>4, <1>5, <1>6, <1>7
<1> QED
  BY <1>8 DEF s

-----------------------------------------------------------------------------
(* The inductive invariant of the sources.                                 *)

\* The steps from serializeStart and from serialize on.
Late == {"serialize", "end", "sources", "done"}

Later == {"start"} \union Late

\* The kinds of pipeline that are made of packages, whatever their options.
Depsolved == {"buildroot", "os", "coi", "commit-server"}

\* What may have been resolved for a pipeline.
Answer(p, in) ==
    /\ DOMAIN in = InputFields
    /\ p.kind \in Depsolved => in.version # 0
    /\ \A s \in in.containers :
         /\ s.name \in getContainerSources(p)
         /\ s.list => \/ s.name = "app" /\ ~ s.local
                      \/ s.name = "local" /\ "LocalList" \in img.opts
         /\ ~ s.local => s.name # "local"
    /\ in.commits # {} => getOSTreeCommitSources(p)
    /\ in.flatpaks # {} => p.kind = "anaconda"

\* The image definition has told every pipeline what the image was.
Fitting == \A i \in DOMAIN pipelines : Fits(pipelines[i], img)

\* Whatever a pipeline has asked for is resolved, step by step, and nothing else.
Answered ==
    /\ world \in Nat \ {0}
    /\ pc = "depsolve" =>
         \A i \in DOMAIN pipelines :
           pipelines[i].kind \in Depsolved => chains[pipelines[i].name] # {}
    /\ pc \in {"containers", "commits", "flatpaks"} \union Later =>
         /\ DOMAIN resolved = DOMAIN mem
         /\ \A i \in DOMAIN pipelines : Answer(pipelines[i], resolved[pipelines[i].name])
    /\ pc \in {"commits", "flatpaks"} \union Later =>
         \A i \in DOMAIN pipelines :
           getContainerSources(pipelines[i]) # {} => resolved[pipelines[i].name].containers # {}
    /\ pc \in {"flatpaks"} \union Later =>
         \A i \in DOMAIN pipelines :
           getOSTreeCommitSources(pipelines[i]) => resolved[pipelines[i].name].commits # {}

\* An object keeps what was resolved for its pipeline while it is serialized, whatever was left
\* in it, and one without serializeStart keeps nothing.
Held ==
    \A i \in DOMAIN pipelines :
      LET p == pipelines[i]
      IN  /\ p.kind \notin Stateful => mem[p.name].in = NoInputs
          /\ p.kind \in Stateful /\ (pc = "serialize" \/ (pc = "start" /\ i < idx)) =>
               mem[p.name].in = resolved[p.name]

\* What a stage of the named pipeline uses is given to the sources, or is one of the exceptions.
Covered(u, name) ==
    \/ u \in merged.content \union ContainerSources(merged.specs)
    \/ u[1] = "tree"
    \/ MixedLists /\ u[1] = "skopeo-index"
    \/ LivefsMoved /\ name = "anaconda-tree"
    \/ /\ u = HostFile(u[3])
       /\ merged.files \/ \E q \in Range(pipelines) : q.kind = "ostree-deployment"
    \/ EmptyIgnition(u)

\* A pipeline that was serialized has given what was resolved for it, and what its stages use.
Gave(p, s) ==
    /\ resolved[p.name].commits \subseteq merged.content
    /\ p.kind # "anaconda" => resolved[p.name].containers \subseteq merged.specs
    /\ p.kind = "coi" /\ "IgnitionConfig" \in p.opts => Inline("IgnitionConfig") \in merged.content
    /\ \A k \in DOMAIN s : \A u \in s[k].use : Covered(u, p.name)

Provided ==
    /\ pc \in Late => \A i \in DOMAIN out : Gave(pipelines[i], out[i].stages)
    /\ pc = "done" =>
         sources = merged.content \union ContainerSources(merged.specs)
                     \union (IF merged.files THEN {HostFile(world)} ELSE {})

SourcesInv == ResolveInv /\ Fitting /\ Answered /\ Held /\ Provided

\* Every step leads from pipelines in order to such.
LEMMA ResolveStep == ASSUME ResolveInv, [Next]_vars PROVE ResolveInv'
<1>1. AbortInv'
  BY AbortStep DEF ResolveInv
<1> QED
  BY <1>1, ResolveAdd, ResolveSerialize, ResolveMade, ResolveRest DEF Next

\* The domains of the pipelines and of their objects.
LEMMA Domains ==
    ASSUME ResolveInv
    PROVE  /\ Len(pipelines) \in Nat /\ DOMAIN pipelines = 1 .. Len(pipelines) /\ idx \in Nat \ {0}
           /\ DOMAIN mem = {pipelines[i].name : i \in DOMAIN pipelines}
           /\ \A i \in DOMAIN pipelines : /\ pipelines[i].name \in DOMAIN mem
                                          /\ DOMAIN mem[pipelines[i].name] = ObjectFields
                                          /\ Named(pipelines, pipelines[i].name) = pipelines[i]
           /\ \A i, j \in DOMAIN pipelines : pipelines[i].name = pipelines[j].name => i = j
<1>1. AbortInv
  BY DEF ResolveInv
<1>2. IsSeq(pipelines) /\ NamesDiffer /\ Objects /\ idx \in Nat \ {0}
  BY <1>1 DEF AbortInv, Shape
<1> QED
  BY <1>1, <1>2, SeqLen, NamedIs DEF NamesDiffer, Objects

\* The pipelines are added as the image definition has told them.
LEMMA FittingStep == ASSUME ResolveInv, ResolveInv', Fitting, [Next]_vars PROVE Fitting'
<1>1. CASE UNCHANGED <<img, pipelines>>
  BY <1>1 DEF Fitting
<1>2. CASE MakeImage
  <2>1. pc = "image" /\ pipelines' = pipelines
    BY <1>2 DEF MakeImage, Stop
  <2>2. Len(pipelines) = 0
    BY <2>1 DEF ResolveInv, AbortInv, Shape
  <2>3. DOMAIN pipelines = {}
    BY <2>2, Domains
  <2> QED
    BY <2>1, <2>3 DEF Fitting
<1>3. CASE addPipeline
  <2> DEFINE M == InstantiateManifest(img)
  <2>1. /\ ~ InstantiateManifestPanics(img) /\ idx <= Len(M) /\ UNCHANGED img
        /\ pipelines' = pipelines \/ pipelines' = Append(pipelines, M[idx])
        /\ pc = "instantiate"
    BY <1>3, Zenon DEF addPipeline
  <2>2. AllFit(M, img)
    BY <2>1, ImageFit
  <2> HIDE DEF M
  <2>3. IsSeq(M) /\ DOMAIN M = 1 .. Len(M) /\ Len(M) \in Nat
    BY <2>2, SeqLen DEF AllFit
  <2>4. idx \in DOMAIN M /\ idx = Len(pipelines) + 1
    BY <2>1, <2>3, Domains DEF ResolveInv, AbortInv, Shape
  <2>5. Fits(M[idx], img)
    BY <2>2, <2>4 DEF AllFit
  <2>6. CASE pipelines' = pipelines
    BY <2>1, <2>6 DEF Fitting
  <2>7. CASE pipelines' = Append(pipelines, M[idx])
    <3>1. PICK S : pipelines \in Seq(S)
      BY DEF ResolveInv, AbortInv, IsSeq
    <3>2. pipelines \in Seq(S \union {M[idx]})
      BY <3>1, SeqUnion
    <3>3. /\ DOMAIN pipelines' = 1 .. idx /\ pipelines'[idx] = M[idx]
          /\ \A i \in DOMAIN pipelines : pipelines'[i] = pipelines[i]
          /\ DOMAIN pipelines = 1 .. (idx - 1) /\ idx \in Nat
      BY <2>4, <2>7, <3>2
    <3>4. ASSUME NEW i \in DOMAIN pipelines' PROVE Fits(pipelines'[i], img')
      <4>1. i = idx \/ i \in DOMAIN pipelines
        BY <3>3
      <4> QED
        BY <2>1, <2>5, <3>3, <4>1 DEF Fitting
    <3> QED
      BY <3>4 DEF Fitting
  <2> QED
    BY <2>1, <2>6, <2>7
<1>4. CASE checkOptions \/ Instantiated
  BY <1>1, <1>4 DEF checkOptions, Instantiated, Stop
<1>5. CASE GetPackageSetChains \/ Depsolve \/ ResolveContainers \/ CheckContainerArch
           \/ ResolveCommits \/ ResolveFlatpaks \/ ResolutionFails
  BY <1>1, <1>5 DEF GetPackageSetChains, Depsolve, ResolveContainers, CheckContainerArch,
                    ResolveCommits, ResolveFlatpaks, ResolutionFails, Stop
<1>6. CASE \/ SerializeStart \/ Started \/ HostFileGone \/ SerializePipeline \/ Serialized
           \/ SerializeEnd \/ Ended \/ GenSources \/ GenSourcesFails \/ GenerateAgain \/ Publish
           \/ UNCHANGED vars
  BY <1>1, <1>6 DEF SerializeStart, Started, HostFileGone, SerializePipeline, Serialized, SerializeEnd,
                    Ended, GenSources, GenSourcesFails, GenerateAgain, Publish, Stop, vars
<1> QED
  BY <1>2, <1>3, <1>4, <1>5, <1>6 DEF Next

\* A step that resolves nothing.
LEMMA AnsweredKept ==
    ASSUME ResolveInv, ResolveInv', Answered, UNCHANGED <<img, pipelines, chains, resolved>>,
           world' \in Nat \ {0},
           pc' \in {"depsolve", "containers", "commits", "flatpaks"} => pc' = pc,
           pc' \in Later => pc \in Later
    PROVE  Answered'
<1>1. DOMAIN mem' = DOMAIN mem
  BY DEF ResolveInv, AbortInv, Shape, Objects
<1>2. \A i \in DOMAIN pipelines :
        Answer(pipelines[i], resolved[pipelines[i].name]) =>
            Answer(pipelines[i], resolved[pipelines[i].name])'
  BY DEF Answer
<1> QED
  BY <1>1, <1>2 DEF Answered, Later, Late

\* The packages are asked for and depsolved.
LEMMA AnsweredPackages ==
    ASSUME ResolveInv, ResolveInv', Answered, GetPackageSetChains \/ Depsolve
    PROVE  Answered'
<1>1. UNCHANGED <<img, pipelines, mem, world>>
  BY DEF GetPackageSetChains, Depsolve
<1>2. CASE GetPackageSetChains
  <2>1. \/ pc' = "failed"
        \/ /\ pc' = "depsolve"
           /\ chains' = [n \in DOMAIN mem |-> getPackageSetChain(Named(pipelines, n), pipelines)]
    BY <1>2 DEF GetPackageSetChains
  <2>2. ASSUME pc' = "depsolve", NEW i \in DOMAIN pipelines, pipelines[i].kind \in Depsolved
        PROVE  chains'[pipelines[i].name] # {}
    <3> DEFINE p == pipelines[i]
    <3>1. p.name \in DOMAIN mem /\ Named(pipelines, p.name) = p
      BY Domains
    <3>2. chains'[p.name] = getPackageSetChain(p, pipelines)
      BY <2>1, <2>2, <3>1
    <3> HIDE DEF p
    <3>3. p.kind \in {"buildroot", "os", "coi", "commit-server"}
      BY <2>2 DEF Depsolved, p
    <3>4. \A asked : BuildrootPackages(asked) # {}
      BY DEF BuildrootPackages
    <3>5. OSPackages(p.opts) # {} /\ CoreOSBootPackages(p.opts) # {}
      <4>1. "base" \in OSPackages(p.opts)
        BY Zenon DEF OSPackages
      <4>2. "base" \in CoreOSBootPackages(p.opts)
        BY DEF CoreOSBootPackages
      <4> QED
        BY <4>1, <4>2
    <3>6. getPackageSetChain(p, pipelines) # {}
      <4>1. CASE p.kind = "buildroot"
        <5>1. getPackageSetChain(p, pipelines) =
                BuildrootPackages(UNION {getBuildPackages(q, pipelines) : q \in Dependents(p, pipelines)})
          BY <4>1 DEF getPackageSetChain
        <5> QED
          BY <3>4, <5>1, Zenon
      <4>2. CASE p.kind = "os"
        BY <3>5, <4>2 DEF getPackageSetChain
      <4>3. CASE p.kind = "coi"
        BY <3>5, <4>3 DEF getPackageSetChain
      <4>4. CASE p.kind = "commit-server"
        BY <4>4 DEF getPackageSetChain
      <4> QED
        BY <3>3, <4>1, <4>2, <4>3, <4>4
    <3> QED
      BY <3>2, <3>6 DEF p
  <2> QED
    BY <1>1, <2>1, <2>2 DEF Answered, Later, Late
<1>3. CASE Depsolve
  <2>1. /\ pc = "depsolve" /\ pc' = "containers"
        /\ resolved' = [n \in DOMAIN chains |->
                          [NoInputs EXCEPT !.version = IF chains[n] = {} THEN 0 ELSE world]]
    BY <1>3 DEF Depsolve
  <2>2. DOMAIN chains = DOMAIN mem
    BY <2>1 DEF ResolveInv, AbortInv, Results
  <2>3. ASSUME NEW i \in DOMAIN pipelines
        PROVE  Answer(pipelines[i], resolved'[pipelines[i].name])
    <3> DEFINE p == pipelines[i]
               in == resolved'[p.name]
    <3>1. p.name \in DOMAIN chains
      BY <2>2, Domains
    <3>2. in = [NoInputs EXCEPT !.version = IF chains[p.name] = {} THEN 0 ELSE world]
      BY <2>1, <3>1
    <3>3. p.kind \in Depsolved => chains[p.name] # {}
      BY <2>1 DEF Answered
    <3>4. world # 0
      BY DEF Answered
    <3> HIDE DEF p, in
    <3>5. /\ DOMAIN in = InputFields /\ in.containers = {} /\ in.commits = {} /\ in.flatpaks = {}
          /\ in.version = IF chains[p.name] = {} THEN 0 ELSE world
      BY <3>2 DEF NoInputs, InputFields
    <3>6. Answer(p, in)
      BY <3>3, <3>4, <3>5 DEF Answer
    <3> QED
      BY <3>6 DEF p, in
  <2>4. \A i \in DOMAIN pipelines : Answer(pipelines[i], resolved'[pipelines[i].name])
                                    => Answer(pipelines[i], resolved[pipelines[i].name])'
    BY <1>1 DEF Answer
  <2>5. DOMAIN resolved' = DOMAIN mem'
    BY <1>1, <2>1, <2>2
  <2> QED
    BY <1>1, <2>1, <2>3, <2>4, <2>5 DEF Answered, Later, Late
<1> QED
  BY <1>2, <1>3

\* The containers are resolved, those of one pipeline after another.
LEMMA AnsweredContainers ==
    ASSUME ResolveInv, ResolveInv', Answered, ResolveContainers \/ CheckContainerArch
    PROVE  Answered'
<1>1. UNCHANGED <<img, pipelines, mem, world>> /\ pc = "containers"
  BY DEF ResolveContainers, CheckContainerArch, Stop
<1>2. /\ DOMAIN resolved = DOMAIN mem
      /\ \A i \in DOMAIN pipelines : Answer(pipelines[i], resolved[pipelines[i].name])
  BY <1>1 DEF Answered
<1>3. CASE ResolveContainers
  <2> DEFINE Specs(n) ==
        {ContainerSpec(c, world, c = "local" \/ (c = "bootc" /\ "LocalBootc" \in img.opts),
                       (c = "app" /\ "ManifestList" \in img.opts) \/ (c = "local" /\ "LocalList" \in img.opts)) :
           c \in getContainerSources(Named(pipelines, n))}
  <2>1. pc' = "containers"
    BY <1>1, <1>3 DEF ResolveContainers
  <2>2. PICK n \in Unresolved : resolved' = [resolved EXCEPT ![n].containers = Specs(n)]
    BY <1>3, Zenon DEF ResolveContainers
  <2>3. ASSUME NEW p, Named(pipelines, n) = p, NEW s \in Specs(n)
        PROVE  /\ s.name \in getContainerSources(p)
               /\ s.list => \/ s.name = "app" /\ ~ s.local
                            \/ s.name = "local" /\ "LocalList" \in img.opts
               /\ ~ s.local => s.name # "local"
    <3>1. PICK c \in getContainerSources(p) :
            s = ContainerSpec(c, world, c = "local" \/ (c = "bootc" /\ "LocalBootc" \in img.opts),
                              (c = "app" /\ "ManifestList" \in img.opts)
                                \/ (c = "local" /\ "LocalList" \in img.opts))
      BY <2>3
    <3>2. /\ s.name = c
          /\ s.local = (c = "local" \/ (c = "bootc" /\ "LocalBootc" \in img.opts))
          /\ s.list = ((c = "app" /\ "ManifestList" \in img.opts) \/ (c = "local" /\ "LocalList" \in img.opts))
      BY <3>1 DEF ContainerSpec
    <3> QED
      BY <3>1, <3>2
  <2> HIDE DEF Specs
  <2>4. ASSUME NEW i \in DOMAIN pipelines
        PROVE  Answer(pipelines[i], resolved'[pipelines[i].name])
    <3> DEFINE p == pipelines[i]
               in == resolved[p.name]
               new == resolved'[p.name]
    <3>1. p.name \in DOMAIN resolved /\ Answer(p, in) /\ Named(pipelines, p.name) = p
      BY <1>2, Domains
    <3>2. new = IF p.name = n THEN [in EXCEPT !.containers = Specs(n)] ELSE in
      BY <2>2, <3>1
    <3> HIDE DEF p, in, new
    <3>3. ASSUME p.name # n PROVE Answer(p, new)
      BY <3>1, <3>2, <3>3
    <3>4. ASSUME p.name = n PROVE Answer(p, new)
      <4>1. new = [in EXCEPT !.containers = Specs(n)] /\ DOMAIN in = InputFields
        BY <3>1, <3>2, <3>4 DEF Answer
      <4>2. /\ DOMAIN new = InputFields /\ new.containers = Specs(n)
            /\ new.version = in.version /\ new.commits = in.commits /\ new.flatpaks = in.flatpaks
        BY <4>1 DEF InputFields
      <4>3. Named(pipelines, n) = p
        BY <3>1, <3>4
      <4> QED
        BY <2>3, <3>1, <4>2, <4>3 DEF Answer
    <3>5. Answer(p, new)
      BY <3>3, <3>4
    <3> QED
      BY <3>5 DEF p, new
  <2>5. \A i \in DOMAIN pipelines : Answer(pipelines[i], resolved'[pipelines[i].name])
                                    => Answer(pipelines[i], resolved[pipelines[i].name])'
    BY <1>1 DEF Answer
  <2>6. DOMAIN resolved' = DOMAIN mem'
    BY <1>1, <1>2, <2>2
  <2> QED
    BY <1>1, <2>1, <2>4, <2>5, <2>6 DEF Answered, Later, Late
<1>4. CASE CheckContainerArch
  <2>1. resolved' = resolved /\ pc' \in {"failed", "commits"} /\ Unresolved = {}
    BY <1>4 DEF CheckContainerArch, Stop
  <2>2. ASSUME NEW i \in DOMAIN pipelines, getContainerSources(pipelines[i]) # {}
        PROVE  resolved[pipelines[i].name].containers # {}
    <3>1. pipelines[i].name \in DOMAIN resolved /\ Named(pipelines, pipelines[i].name) = pipelines[i]
      BY <1>2, Domains
    <3>2. pipelines[i].name \notin Unresolved
      BY <2>1
    <3> QED
      BY <2>2, <3>1, <3>2 DEF Unresolved
  <2>3. \A i \in DOMAIN pipelines : Answer(pipelines[i], resolved[pipelines[i].name])
                                    => Answer(pipelines[i], resolved[pipelines[i].name])'
    BY <1>1, <2>1 DEF Answer
  <2> QED
    BY <1>1, <1>2, <2>1, <2>2, <2>3 DEF Answered, Later, Late
<1> QED
  BY <1>3, <1>4

\* The commits and the flatpaks are resolved.
LEMMA AnsweredCommits ==
    ASSUME ResolveInv, ResolveInv', Answered, ResolveCommits \/ ResolveFlatpaks
    PROVE  Answered'
<1>1. UNCHANGED <<img, pipelines, mem, world>> /\ pc \in {"commits", "flatpaks"}
  BY DEF ResolveCommits, ResolveFlatpaks
<1>2. /\ DOMAIN resolved = DOMAIN mem
      /\ \A i \in DOMAIN pipelines : Answer(pipelines[i], resolved[pipelines[i].name])
      /\ \A i \in DOMAIN pipelines :
           getContainerSources(pipelines[i]) # {} => resolved[pipelines[i].name].containers # {}
  BY <1>1 DEF Answered
<1>3. CASE ResolveCommits
  <2>1. /\ pc' = "flatpaks"
        /\ resolved' = [n \in DOMAIN resolved |->
                          [resolved[n] EXCEPT !.commits =
                             IF getOSTreeCommitSources(Named(pipelines, n)) THEN {Commit(n, world)} ELSE {}]]
    BY <1>3 DEF ResolveCommits
  <2>2. ASSUME NEW i \in DOMAIN pipelines
        PROVE  /\ Answer(pipelines[i], resolved'[pipelines[i].name])
               /\ getContainerSources(pipelines[i]) # {} => resolved'[pipelines[i].name].containers # {}
               /\ getOSTreeCommitSources(pipelines[i]) => resolved'[pipelines[i].name].commits # {}
    <3> DEFINE p == pipelines[i]
               in == resolved[p.name]
               new == resolved'[p.name]
    <3>1. /\ p.name \in DOMAIN resolved /\ Answer(p, in) /\ Named(pipelines, p.name) = p
          /\ getContainerSources(p) # {} => in.containers # {}
      BY <1>2, Domains
    <3>2. new = [in EXCEPT !.commits = IF getOSTreeCommitSources(p) THEN {Commit(p.name, world)} ELSE {}]
      BY <2>1, <3>1
    <3> HIDE DEF p, in, new
    <3>3. DOMAIN in = InputFields
      BY <3>1 DEF Answer
    <3>4. /\ DOMAIN new = InputFields /\ new.containers = in.containers
          /\ new.version = in.version /\ new.flatpaks = in.flatpaks
          /\ new.commits = IF getOSTreeCommitSources(p) THEN {Commit(p.name, world)} ELSE {}
      BY <3>2, <3>3 DEF InputFields
    <3>5. getOSTreeCommitSources(p) <=> new.commits # {}
      BY <3>4
    <3>6. Answer(p, new)
      BY <3>1, <3>4, <3>5 DEF Answer
    <3> QED
      BY <3>1, <3>4, <3>5, <3>6 DEF p, new
  <2>3. \A i \in DOMAIN pipelines : Answer(pipelines[i], resolved'[pipelines[i].name])
                                    => Answer(pipelines[i], resolved[pipelines[i].name])'
    BY <1>1 DEF Answer
  <2>4. DOMAIN resolved' = DOMAIN mem'
    BY <1>1, <1>2, <2>1
  <2> QED
    BY <1>1, <2>1, <2>2, <2>3, <2>4 DEF Answered, Later, Late
<1>4. CASE ResolveFlatpaks
  <2>1. /\ pc = "flatpaks" /\ pc' = "start"
        /\ resolved' = [n \in DOMAIN resolved |->
                          [resolved[n] EXCEPT !.flatpaks =
                             IF getFlatpakSources(Named(pipelines, n)) THEN {Flatpak(n, world)} ELSE {}]]
    BY <1>4 DEF ResolveFlatpaks
  <2>2. ASSUME NEW i \in DOMAIN pipelines
        PROVE  /\ Answer(pipelines[i], resolved'[pipelines[i].name])
               /\ getContainerSources(pipelines[i]) # {} => resolved'[pipelines[i].name].containers # {}
               /\ getOSTreeCommitSources(pipelines[i]) => resolved'[pipelines[i].name].commits # {}
    <3> DEFINE p == pipelines[i]
               in == resolved[p.name]
               new == resolved'[p.name]
    <3>1. /\ p.name \in DOMAIN resolved /\ Answer(p, in) /\ Named(pipelines, p.name) = p
          /\ getContainerSources(p) # {} => in.containers # {}
          /\ getOSTreeCommitSources(p) => in.commits # {}
      BY <1>2, <2>1, Domains DEF Answered
    <3>2. new = [in EXCEPT !.flatpaks = IF getFlatpakSources(p) THEN {Flatpak(p.name, world)} ELSE {}]
      BY <2>1, <3>1
    <3> HIDE DEF p, in, new
    <3>3. DOMAIN in = InputFields
      BY <3>1 DEF Answer
    <3>4. /\ DOMAIN new = InputFields /\ new.containers = in.containers
          /\ new.version = in.version /\ new.commits = in.commits
          /\ new.flatpaks = IF getFlatpakSources(p) THEN {Flatpak(p.name, world)} ELSE {}
      BY <3>2, <3>3 DEF InputFields
    <3>5. new.flatpaks # {} => p.kind = "anaconda"
      BY <3>4 DEF getFlatpakSources
    <3>6. Answer(p, new)
      BY <3>1, <3>4, <3>5 DEF Answer
    <3> QED
      BY <3>1, <3>4, <3>6 DEF p, new
  <2>3. \A i \in DOMAIN pipelines : Answer(pipelines[i], resolved'[pipelines[i].name])
                                    => Answer(pipelines[i], resolved[pipelines[i].name])'
    BY <1>1 DEF Answer
  <2>4. DOMAIN resolved' = DOMAIN mem'
    BY <1>1, <1>2, <2>1
  <2> QED
    BY <1>1, <2>1, <2>2, <2>3, <2>4 DEF Answered, Later, Late
<1> QED
  BY <1>3, <1>4

LEMMA AnsweredStep == ASSUME ResolveInv, ResolveInv', Answered, [Next]_vars PROVE Answered'
<1>1. world \in Nat \ {0}
  BY DEF Answered
<1>2. CASE checkOptions \/ MakeImage \/ addPipeline \/ Instantiated \/ GenerateAgain
  <2>1. /\ world' = world
        /\ pc' \in {"refused", "panicked", "image", "check", "instantiate", "chains"}
    BY <1>2 DEF checkOptions, MakeImage, addPipeline, Instantiated, GenerateAgain, Stop
  <2> QED
    BY <1>1, <2>1 DEF Answered, Later, Late
<1>3. CASE ResolutionFails \/ HostFileGone \/ GenSourcesFails
  <2>1. world' = world /\ pc' \in {"panicked", "failed"}
    BY <1>3 DEF ResolutionFails, HostFileGone, GenSourcesFails, Stop
  <2> QED
    BY <1>1, <2>1 DEF Answered, Later, Late
<1>4. CASE \/ SerializeStart \/ Started \/ SerializePipeline \/ Serialized
           \/ SerializeEnd \/ Ended \/ GenSources
  <2>1. /\ UNCHANGED <<img, pipelines, chains, resolved, world>> /\ pc \in Later
        /\ pc' \in Later \union {"failed", "panicked"}
    BY <1>4 DEF SerializeStart, Started, SerializePipeline, Serialized, SerializeEnd, Ended, GenSources,
                Later, Late
  <2> QED
    BY <1>1, <2>1, AnsweredKept DEF Later, Late
<1>5. CASE Publish \/ UNCHANGED vars
  <2>1. UNCHANGED <<img, pipelines, chains, resolved, pc>> /\ world' \in {world, world + 1}
    BY <1>5 DEF Publish, vars
  <2> QED
    BY <1>1, <2>1, AnsweredKept
<1> QED
  BY <1>2, <1>3, <1>4, <1>5, AnsweredPackages, AnsweredContainers, AnsweredCommits DEF Next

\* A step that starts and ends no pipeline.
LEMMA HeldKept ==
    ASSUME ResolveInv, Held, pipelines' = pipelines,
           \A n \in DOMAIN mem : mem'[n].in = mem[n].in,
           pc' \in {"start", "serialize"} => /\ resolved' = resolved
                                             /\ pc' = pc /\ (pc' = "start" => idx' = idx)
    PROVE  Held'
<1>1. \A i \in DOMAIN pipelines : mem'[pipelines[i].name].in = mem[pipelines[i].name].in
  BY Domains
<1> QED
  BY <1>1 DEF Held

\* A new pipeline has no inputs.
LEMMA HeldAdd == ASSUME ResolveInv, Held, addPipeline PROVE Held'
<1> DEFINE p == InstantiateManifest(img)[idx]
<1>1. /\ pc = "instantiate" /\ pc' \in {"instantiate", "panicked"}
      /\ \/ UNCHANGED <<pipelines, mem>>
         \/ /\ pipelines' = Append(pipelines, p)
            /\ mem' = [n \in DOMAIN mem \union {p.name} |-> IF n = p.name THEN NewObject(p) ELSE mem[n]]
            /\ ~ \E q \in Range(pipelines) : q.name = p.name
  BY Zenon DEF addPipeline
<1> HIDE DEF p
<1>2. CASE UNCHANGED <<pipelines, mem>>
  BY <1>1, <1>2 DEF Held
<1>3. CASE /\ pipelines' = Append(pipelines, p)
           /\ mem' = [n \in DOMAIN mem \union {p.name} |-> IF n = p.name THEN NewObject(p) ELSE mem[n]]
           /\ ~ \E q \in Range(pipelines) : q.name = p.name
  <2>1. PICK S : pipelines \in Seq(S)
    BY DEF ResolveInv, AbortInv, IsSeq
  <2>2. pipelines \in Seq(S \union {p})
    BY <2>1, SeqUnion
  <2>3. /\ DOMAIN pipelines' = 1 .. Len(pipelines) + 1 /\ pipelines'[Len(pipelines) + 1] = p
        /\ \A i \in DOMAIN pipelines : pipelines'[i] = pipelines[i]
        /\ DOMAIN pipelines = 1 .. Len(pipelines) /\ Len(pipelines) \in Nat
    BY <1>3, <2>2
  <2>4. ASSUME NEW i \in DOMAIN pipelines', pipelines'[i].kind \notin Stateful
        PROVE  mem'[pipelines'[i].name].in = NoInputs
    <3>1. CASE i = Len(pipelines) + 1
      <4>1. pipelines'[i] = p /\ NewObject(p).in = NoInputs
        BY <2>3, <3>1 DEF NewObject
      <4>2. mem'[p.name] = NewObject(p)
        BY <1>3
      <4> QED
        BY <4>1, <4>2
    <3>2. CASE i \in DOMAIN pipelines
      <4>1. pipelines'[i] = pipelines[i] /\ pipelines[i].name \in DOMAIN mem
        BY <2>3, <3>2, Domains
      <4>2. pipelines[i].name # p.name
        BY <1>3, <3>2 DEF Range
      <4>3. mem'[pipelines[i].name] = mem[pipelines[i].name]
        BY <1>3, <4>1, <4>2
      <4> QED
        BY <2>4, <3>2, <4>1, <4>3 DEF Held
    <3> QED
      BY <2>3, <3>1, <3>2
  <2> QED
    BY <1>1, <2>4 DEF Held
<1> QED
  BY <1>1, <1>2, <1>3

\* serializeStart: the pipeline that is come to keeps its inputs.
LEMMA HeldStart == ASSUME ResolveInv, Held, SerializeStart PROVE Held'
<1> DEFINE p == pipelines[idx]
           m == mem[p.name]
           in == resolved[p.name]
<1>1. /\ pc = "start" /\ idx <= Len(pipelines) /\ UNCHANGED <<pipelines, resolved>>
      /\ \/ pc' = "failed" /\ mem' = mem
         \/ /\ mem' = [mem EXCEPT ![p.name] = Kept(p, m, in)]
            /\ \/ pc' = "failed"
               \/ pc' = pc /\ idx' = idx + 1 /\ ~ InputsRefused(p, in)
  BY DEF SerializeStart
<1>2. /\ idx \in DOMAIN pipelines /\ idx \in Nat /\ p.name \in DOMAIN mem
      /\ DOMAIN m = ObjectFields
  BY <1>1, Domains
<1>3. p.kind \notin Stateful => Kept(p, m, in) = m
  BY DEF Kept
<1>4. p.kind \in Stateful /\ ~ InputsRefused(p, in) => Kept(p, m, in).in = in
  <2> SUFFICES ASSUME p.kind \in Stateful, ~ InputsRefused(p, in) PROVE Kept(p, m, in).in = in
    OBVIOUS
  <2>1. PICK v : Kept(p, m, in) = [m EXCEPT !.started = TRUE, !.in = in, !.kernelVer = v]
    BY DEF Kept
  <2> HIDE DEF m, in, p
  <2> QED
    BY <1>2, <2>1 DEF ObjectFields
<1>5. CASE pc' = "failed" /\ mem' = mem
  BY <1>1, <1>5 DEF Held
<1>6. CASE /\ mem' = [mem EXCEPT ![p.name] = Kept(p, m, in)]
           /\ \/ pc' = "failed"
              \/ pc' = pc /\ idx' = idx + 1 /\ ~ InputsRefused(p, in)
  <2>1. ASSUME NEW i \in DOMAIN pipelines
        PROVE  /\ pipelines[i].kind \notin Stateful => mem'[pipelines[i].name].in = NoInputs
               /\ pipelines[i].kind \in Stateful /\ pc' = "start" /\ i < idx' =>
                    mem'[pipelines[i].name].in = resolved[pipelines[i].name]
    <3>1. CASE i = idx
      <4>1. pipelines[i] = p /\ mem'[p.name] = Kept(p, m, in) /\ in = resolved[p.name]
        BY <1>2, <1>6, <3>1
      <4>2. p.kind \notin Stateful => m.in = NoInputs
        BY <1>2 DEF Held
      <4> HIDE DEF p, m, in
      <4> QED
        BY <1>3, <1>4, <1>6, <4>1, <4>2
    <3>2. CASE i # idx
      <4>1. pipelines[i].name # p.name /\ pipelines[i].name \in DOMAIN mem
        BY <1>2, <3>2, Domains
      <4>2. mem'[pipelines[i].name] = mem[pipelines[i].name]
        BY <1>6, <4>1
      <4>3. i \in Nat /\ (pc' = "start" /\ i < idx' => i < idx)
        BY <1>1, <1>2, <1>6, <3>2, Domains
      <4> QED
        BY <1>1, <4>2, <4>3 DEF Held
    <3> QED
      BY <3>1, <3>2
  <2>2. pc' # "serialize"
    BY <1>1
  <2> QED
    BY <1>1, <2>1, <2>2 DEF Held
<1> QED
  BY <1>1, <1>5, <1>6

\* serialize and serializeEnd: what an object was told is written, and its inputs are forgotten.
LEMMA HeldSerialize == ASSUME ResolveInv, Held, SerializePipeline PROVE Held'
<1> DEFINE p == pipelines[idx]
           hashed == [mem EXCEPT ![p.name].hashed = world]
<1>1. /\ pc = "serialize" /\ UNCHANGED <<pipelines, resolved>> /\ idx <= Len(pipelines)
      /\ pc' \in {pc, "failed", "panicked"}
      /\ mem' = mem \/ mem' = serializeCaches(p, hashed)
  BY DEF SerializePipeline
<1>2. /\ idx \in DOMAIN pipelines /\ p.name \in DOMAIN mem
      /\ \A n \in DOMAIN mem : DOMAIN mem[n] = ObjectFields
  BY <1>1, Domains
<1>3. DOMAIN hashed = DOMAIN mem
      /\ \A n \in DOMAIN mem : hashed[n].in = mem[n].in /\ DOMAIN hashed[n] = ObjectFields
  BY <1>2 DEF ObjectFields
<1> HIDE DEF hashed
<1>4. \A n \in DOMAIN mem : serializeCaches(p, hashed)[n].in = hashed[n].in
  <2>1. CASE p.kind = "anaconda-iso-tree"
    <3>1. serializeCaches(p, hashed) =
            [hashed EXCEPT ![p.of.anaconda].kernelPath = ISOKernel(hashed[p.of.anaconda])]
      BY <2>1 DEF serializeCaches
    <3> QED
      BY <1>3, <3>1 DEF ObjectFields
  <2>2. CASE p.kind # "anaconda-iso-tree"
    BY <2>2 DEF serializeCaches
  <2> QED
    BY <2>1, <2>2
<1>5. \A n \in DOMAIN mem : mem'[n].in = mem[n].in
  BY <1>1, <1>3, <1>4
<1> QED
  BY <1>1, <1>5, HeldKept

LEMMA HeldEnd == ASSUME ResolveInv, Held, SerializeEnd PROVE Held'
<1> DEFINE p == pipelines[idx]
<1>1. /\ pc = "end" /\ pc' \in {"end", "panicked"} /\ UNCHANGED <<pipelines, resolved>>
      /\ idx <= Len(pipelines)
      /\ mem' = mem \/ mem' = [mem EXCEPT ![p.name] = Forgotten(p, mem[p.name])]
  BY DEF SerializeEnd
<1>2. idx \in DOMAIN pipelines
  BY <1>1, Domains
<1>3. ASSUME NEW i \in DOMAIN pipelines, pipelines[i].kind \notin Stateful
      PROVE  mem'[pipelines[i].name].in = NoInputs
  <2>1. mem[pipelines[i].name].in = NoInputs /\ pipelines[i].name \in DOMAIN mem
    BY <1>3, Domains DEF Held
  <2>2. i = idx => Forgotten(p, mem[p.name]) = mem[p.name]
    BY <1>3 DEF Forgotten
  <2>3. i # idx => pipelines[i].name # p.name
    BY <1>2, Domains
  <2> QED
    BY <1>1, <2>1, <2>2, <2>3
<1> QED
  BY <1>1, <1>3 DEF Held

LEMMA HeldStep == ASSUME ResolveInv, Held, [Next]_vars PROVE Held'
<1>1. CASE \/ checkOptions \/ MakeImage \/ Instantiated \/ GenerateAgain \/ GetPackageSetChains \/ Depsolve
           \/ ResolveContainers \/ CheckContainerArch \/ ResolveCommits \/ ResolutionFails
  <2>1. UNCHANGED <<pipelines, mem>> /\ pc' \notin {"start", "serialize"}
    BY <1>1 DEF checkOptions, MakeImage, Instantiated, GenerateAgain, GetPackageSetChains, Depsolve,
                ResolveContainers, CheckContainerArch, ResolveCommits, ResolutionFails, Stop
  <2> QED
    BY <2>1, HeldKept
<1>2. CASE HostFileGone \/ Serialized \/ Ended \/ GenSources \/ GenSourcesFails
  <2>1. UNCHANGED <<pipelines, mem>> /\ pc' \notin {"start", "serialize"}
    BY <1>2 DEF HostFileGone, Serialized, Ended, GenSources, GenSourcesFails, Stop
  <2> QED
    BY <2>1, HeldKept
<1>3. CASE ResolveFlatpaks
  <2>1. UNCHANGED <<pipelines, mem>> /\ pc' = "start" /\ idx' = 1
    BY <1>3 DEF ResolveFlatpaks
  <2>2. \A i \in DOMAIN pipelines : ~ (i < 1)
    BY Domains
  <2> QED
    BY <2>1, <2>2 DEF Held
<1>4. CASE Started
  <2>1. UNCHANGED <<pipelines, mem, resolved>> /\ pc = "start" /\ idx > Len(pipelines) /\ pc' = "serialize"
    BY <1>4 DEF Started
  <2>2. \A i \in DOMAIN pipelines : i < idx
    BY <2>1, Domains
  <2> QED
    BY <2>1, <2>2 DEF Held
<1>5. CASE Publish \/ UNCHANGED vars
  <2>1. UNCHANGED <<pipelines, mem, resolved, pc, idx>>
    BY <1>5 DEF Publish, vars
  <2> QED
    BY <2>1, HeldKept
<1> QED
  BY <1>1, <1>2, <1>3, <1>4, <1>5, HeldAdd, HeldStart, HeldSerialize, HeldEnd DEF Next

\* What is kept while the pipelines are serialized.
LEMMA HeldIs ==
    ASSUME ResolveInv, Held, pc = "serialize", NEW i \in DOMAIN pipelines
    PROVE  \/ pipelines[i].kind \in Stateful /\ mem[pipelines[i].name].in = resolved[pipelines[i].name]
           \/ pipelines[i].kind \notin Stateful /\ mem[pipelines[i].name].in = NoInputs
  BY DEF Held

\* What precedes a pipeline are pipelines.
LEMMA Preceding ==
    ASSUME ResolveInv, NEW i \in DOMAIN pipelines
    PROVE  \A j \in 1 .. (i - 1) : j \in DOMAIN pipelines
<1>1. Len(pipelines) \in Nat /\ DOMAIN pipelines = 1 .. Len(pipelines)
  BY Domains
<1> QED
  BY <1>1

\* The pipelines a pipeline points to were serialized before it.
LEMMA Earlier ==
    ASSUME ResolveInv, NEW i \in DOMAIN pipelines, NEW n,
           \/ n = pipelines[i].build /\ n # ""
           \/ \E r \in DOMAIN pipelines[i].of : n = pipelines[i].of[r]
    PROVE  \E j \in 1 .. (i - 1) : j \in DOMAIN pipelines /\ pipelines[j].name = n
<1>1. Sound(pipelines[i], Known(pipelines, i))
  BY DEF ResolveInv, Linked
<1>2. n \in Known(pipelines, i)
  BY <1>1 DEF Sound
<1>3. \A j \in 1 .. (i - 1) : j \in DOMAIN pipelines
  BY Preceding
<1> QED
  BY <1>2, <1>3 DEF Known

\* Larger sets of containers have more sources.
LEMMA SourcesGrow ==
    ASSUME NEW S, NEW T, S \subseteq T
    PROVE  /\ NewContainersInput(S) \subseteq ContainerSources(T)
           /\ ContainerSources(S) \subseteq ContainerSources(T)
<1>1. NewContainersInput(S) \subseteq NewContainersInput(T)
  BY DEF NewContainersInput
<1>2. NewFilesInputForManifestLists({s \in S : ~ s.local})
        \subseteq NewFilesInputForManifestLists({s \in T : ~ s.local})
  BY DEF NewFilesInputForManifestLists
<1> QED
  BY <1>1, <1>2 DEF ContainerSources

\* The indexes an OS tree refers to are those of the sources, unless it embeds containers of
\* both origins.
LEMMA IndexesGiven ==
    ASSUME NEW p, NEW in, p.kind = "os", Answer(p, in), Fits(p, img), ~ MixedLists,
           \E s \in in.containers : ~ s.local
    PROVE  NewFilesInputForManifestLists(in.containers) \subseteq ContainerSources(in.containers)
<1>1. ASSUME NEW s \in in.containers, s.list PROVE ~ s.local
  <2> SUFFICES ASSUME s.local PROVE FALSE
    OBVIOUS
  <2>1. s.name = "local" /\ "LocalList" \in img.opts /\ s.name \in getContainerSources(p)
    BY <1>1 DEF Answer
  <2>2. PICK t \in in.containers : t.name # "local" /\ t.name \in getContainerSources(p)
    BY DEF Answer
  <2>3. "Containers" \in p.opts
    BY <2>1 DEF getContainerSources
  <2>4. getContainerSources(p) =
          (IF "OnlyLocal" \in p.opts THEN {} ELSE {"app"})
            \union (IF p.opts \intersect {"LocalContainer", "OnlyLocal"} # {} THEN {"local"} ELSE {})
    BY <2>3 DEF getContainerSources
  <2>5. "OnlyLocal" \notin p.opts
    BY <2>2, <2>4
  <2>6. "LocalContainer" \in p.opts
    BY <2>1, <2>4, <2>5
  <2>7. "Containers" \in img.opts /\ "LocalContainer" \in img.opts
    BY <2>3, <2>6 DEF Fits
  <2> QED
    BY <2>1, <2>7 DEF MixedLists
<1>2. {s \in in.containers : s.list} \subseteq {s \in {t \in in.containers : ~ t.local} : s.list}
  BY <1>1
<1> QED
  BY <1>2 DEF NewFilesInputForManifestLists, ContainerSources

\* The container an installer is made of is that of its build root, unless it has moved.
LEMMA LivefsGiven ==
    ASSUME ResolveInv, Fitting, Answered, pc = "serialize", NEW i \in DOMAIN pipelines,
           pipelines[i].kind = "anaconda", ~ LivefsMoved,
           resolved[pipelines[i].name].containers # {}
    PROVE  \E j \in 1 .. (i - 1) :
             /\ j \in DOMAIN pipelines /\ pipelines[j].kind # "anaconda"
             /\ resolved[pipelines[j].name].containers = resolved[pipelines[i].name].containers
<1> DEFINE p == pipelines[i]
           in == resolved[p.name]
<1>1. Answer(p, in) /\ Fits(p, img)
  BY DEF Answered, Fitting, Later, Late
<1>2. p.kind = "anaconda" /\ in.containers # {} /\ p \in Range(pipelines)
  BY DEF Range
<1> HIDE DEF p, in
<1>3. getContainerSources(p) # {}
  BY <1>1, <1>2 DEF Answer
<1>4. "Livefs" \in p.opts
  BY <1>2, <1>3 DEF getContainerSources
<1>5. in.containers = resolved["build"].containers
  BY <1>2, <1>4 DEF LivefsMoved, in
<1>6. p.build = "build"
  BY <1>1, <1>2 DEF Fits
<1>7. PICK j \in 1 .. (i - 1) : j \in DOMAIN pipelines /\ pipelines[j].name = "build"
  BY <1>6, Earlier DEF p
<1>8. Fits(pipelines[j], img)
  BY <1>7 DEF Fitting
<1>9. pipelines[j].kind # "anaconda"
  BY <1>7, <1>8 DEF Fits
<1> QED
  BY <1>5, <1>7, <1>9 DEF p, in

\* The tree of an ISO has one payload: a container excludes what the subscription of an
\* installer comes with, a commit.
LEMMA PayloadOnce ==
    ASSUME ResolveInv, Fitting, Answered, Held, pc = "serialize", NEW i \in DOMAIN pipelines,
           pipelines[i].kind = "anaconda-iso-tree", ~ serializeFails(pipelines[i], pipelines, mem),
           "ISOContainer" \in pipelines[i].opts
    PROVE  "subscription" \notin DOMAIN pipelines[i].of
<1> SUFFICES ASSUME "subscription" \in DOMAIN pipelines[i].of PROVE FALSE
  OBVIOUS
<1> DEFINE p == pipelines[i]
           m == mem[p.name]
           a == Named(pipelines, "anaconda-tree")
           am == mem["anaconda-tree"]
<1>1. p.kind = "anaconda-iso-tree" /\ Fits(p, img) /\ "subscription" \in DOMAIN p.of /\ "ISOContainer" \in p.opts
  BY DEF Fitting
<1>2. /\ p.of.anaconda = "anaconda-tree" /\ img.kind = "ostree-installer"
      /\ "PayloadRootfs" \notin img.opts => "ISOCommit" \in p.opts
  <2> HIDE DEF p
  <2> QED
    BY <1>1 DEF Fits
<1>3. "anaconda" \in DOMAIN p.of
  <2>1. Roles(p) \subseteq DOMAIN p.of
    BY DEF ResolveInv, Linked, Sound
  <2> HIDE DEF p
  <2> QED
    BY <1>1, <2>1 DEF Roles, PlainKinds
<1>4. PICK j \in 1 .. (i - 1) : j \in DOMAIN pipelines /\ pipelines[j].name = "anaconda-tree"
  BY <1>2, <1>3, Earlier
<1>5. a = pipelines[j] /\ Fits(a, img) /\ a.name = "anaconda-tree"
  BY <1>4, Domains DEF Fitting
<1>6. /\ a.kind = "anaconda" /\ "Payload" \in a.opts
      /\ "PayloadRootfs" \in img.opts => "AnacondaCommit" \in a.opts
  <2> HIDE DEF a
  <2> QED
    BY <1>2, <1>5 DEF Fits
<1>7. m.in = resolved[p.name] /\ am.in = resolved["anaconda-tree"]
  <2>1. {"anaconda", "anaconda-iso-tree"} \subseteq Stateful
    BY DEF Stateful
  <2>2. p.kind \in Stateful /\ pipelines[j].kind \in Stateful
    BY <1>1, <1>5, <1>6, <2>1
  <2> QED
    BY <1>4, <2>2, HeldIs
<1>8. m.in.commits # {} \/ am.in.commits # {}
  <2>1. /\ getOSTreeCommitSources(p) => resolved[p.name].commits # {}
        /\ getOSTreeCommitSources(a) => resolved["anaconda-tree"].commits # {}
    BY <1>4, <1>5 DEF Answered, Later, Late
  <2> HIDE DEF p, a, m, am
  <2>2. getOSTreeCommitSources(p) \/ getOSTreeCommitSources(a)
    BY <1>1, <1>2, <1>6 DEF getOSTreeCommitSources
  <2> QED
    BY <1>7, <2>1, <2>2
<1>9. m.in.containers # {}
  <2>1. getContainerSources(p) # {} => resolved[p.name].containers # {}
    BY DEF Answered, Later, Late
  <2> HIDE DEF p, m
  <2>2. getContainerSources(p) # {}
    BY <1>1 DEF getContainerSources
  <2> QED
    BY <1>7, <2>1, <2>2
<1>10. ~ ISOTreeFails(p, m, a, am)
  <2>1. serializeFails(p, pipelines, mem) = ISOTreeFails(p, m, Named(pipelines, p.of.anaconda), mem[p.of.anaconda])
    BY <1>1, Zenon DEF serializeFails
  <2> QED
    BY <1>2, <2>1
<1> HIDE DEF p, m, a, am
<1>11. "commit" \in Payloads(p, m, am) /\ "container" \in Payloads(p, m, am)
  BY <1>8, <1>9 DEF Payloads
<1>12. IsFiniteSet(Payloads(p, m, am))
  <2>1. Payloads(p, m, am) \subseteq {"commit", "container", "tree"}
    BY DEF Payloads
  <2>2. IsFiniteSet({"commit", "container", "tree"})
    <3>1. IsFiniteSet({"commit"} \union {"container"} \union {"tree"})
      BY FS_Singleton, FS_AddElement
    <3> QED
      BY <3>1
  <2> QED
    BY <2>1, <2>2, FS_Subset
<1>13. Cardinality(Payloads(p, m, am)) = 1
  BY <1>6, <1>10 DEF ISOTreeFails
<1>14. \E x : Payloads(p, m, am) = {x}
  BY <1>12, <1>13, FS_Singleton
<1> QED
  BY <1>11, <1>14

\* What was given is not taken back.
LEMMA GaveMore ==
    ASSUME UNCHANGED <<img, pipelines, resolved>>, merged.content \subseteq merged'.content,
           merged.specs \subseteq merged'.specs, merged.files => merged'.files,
           NEW p, NEW s, Gave(p, s)
    PROVE  Gave(p, s)'
<1>1. ASSUME NEW u, Covered(u, p.name) PROVE Covered(u, p.name)'
  <2>1. ContainerSources(merged.specs) \subseteq ContainerSources(merged'.specs)
    BY SourcesGrow
  <2>2. /\ u \in merged.content => u \in merged'.content
        /\ u \in ContainerSources(merged.specs) => u \in ContainerSources(merged'.specs)
    BY <2>1
  <2>3. MixedLists' = MixedLists /\ LivefsMoved' = LivefsMoved /\ EmptyIgnition(u)' = EmptyIgnition(u)
        /\ Range(pipelines)' = Range(pipelines)
    BY Zenon DEF MixedLists, LivefsMoved, EmptyIgnition
  <2> QED
    BY <1>1, <2>2, <2>3, Zenon DEF Covered
<1>2. \A k \in DOMAIN s : \A u \in s[k].use : Covered(u, p.name)'
  BY <1>1 DEF Gave
<1>3. resolved'[p.name].commits \subseteq merged'.content
  BY DEF Gave
<1>4. p.kind # "anaconda" => resolved'[p.name].containers \subseteq merged'.specs
  BY DEF Gave
<1>5. p.kind = "coi" /\ "IgnitionConfig" \in p.opts => Inline("IgnitionConfig") \in merged'.content
  BY DEF Gave
<1> QED
  BY <1>2, <1>3, <1>4, <1>5, Zenon DEF Gave

\* The pipeline that is serialized, what was resolved for it and what its object holds.
LEMMA SerializeGives ==
    ASSUME SourcesInv, pc = "serialize", NEW i \in DOMAIN pipelines, i = idx,
           NEW p, p = pipelines[i], NEW now, now = [mem EXCEPT ![p.name].hashed = world],
           NEW m, m = now[p.name], NEW s, s = serialize(p, pipelines, now),
           ~ serializeFails(p, pipelines, mem),
           UNCHANGED <<img, pipelines, resolved>>,
           merged' = [content |-> merged.content \union getOSTreeCommits(p, m)
                        \union (IF resolved[p.name].version = 0 THEN {}
                                ELSE {Rpms(p.name, resolved[p.name].version)})
                        \union getFlatpakSpecs(p, m) \union getInline(p, pipelines, s),
                      specs |-> merged.specs \union getContainerSpecs(p, m),
                      files |-> merged.files \/ fileRefs(p)]
    PROVE  Gave(p, s)'
<1> DEFINE in == resolved[p.name]
<1>1. /\ ResolveInv /\ Fitting /\ Answered /\ Held /\ Provided
  BY DEF SourcesInv
<1>2. Fits(p, img) /\ Answer(p, in)
  BY <1>1 DEF Fitting, Answered, Later, Late
<1>3. /\ p.name \in DOMAIN mem /\ Named(pipelines, p.name) = p
      /\ \A n \in DOMAIN mem : DOMAIN mem[n] = ObjectFields
  BY <1>1, Domains
<1>4. \A n \in DOMAIN mem : now[n].in = mem[n].in
  BY <1>3 DEF ObjectFields
<1>5. \/ p.kind \in Stateful /\ m.in = in
      \/ p.kind \notin Stateful /\ m.in = NoInputs
  BY <1>1, <1>3, <1>4, HeldIs
<1>6. Sound(p, Known(pipelines, i))
  BY <1>1 DEF ResolveInv, Linked
<1>7. \A j \in 1 .. (i - 1) : j \in DOMAIN pipelines /\ Gave(pipelines[j], out[j].stages)
  <2>1. DOMAIN out = 1 .. (i - 1)
    <3>1. IsSeq(out) /\ Len(out) = i - 1
      BY <1>1 DEF ResolveInv, Emitted
    <3> QED
      BY <3>1, SeqLen
  <2>2. \A j \in 1 .. (i - 1) : j \in DOMAIN pipelines
    BY <1>1, Preceding
  <2> QED
    BY <1>1, <2>1, <2>2 DEF Provided, Late
<1>8. \A n : (\E r \in DOMAIN p.of : n = p.of[r]) =>
               \E j \in 1 .. (i - 1) : j \in DOMAIN pipelines /\ pipelines[j].name = n
  BY <1>6, <1>7 DEF Sound, Known
<1>9. /\ merged.content \subseteq merged'.content /\ merged.specs \subseteq merged'.specs
      /\ merged.files => merged'.files
      /\ getOSTreeCommits(p, m) \subseteq merged'.content
      /\ in.version # 0 => Rpms(p.name, in.version) \in merged'.content
      /\ getFlatpakSpecs(p, m) \subseteq merged'.content
      /\ getInline(p, pipelines, s) \subseteq merged'.content
      /\ getContainerSpecs(p, m) \subseteq merged'.specs
      /\ fileRefs(p) => merged'.files
  OBVIOUS
<1> HIDE DEF in
\* What was resolved for it.
<1>10. NoInputs.version = 0 /\ NoInputs.containers = {} /\ NoInputs.commits = {} /\ NoInputs.flatpaks = {}
  BY DEF NoInputs
<1>11. in.commits \subseteq merged'.content /\ m.in.commits \subseteq merged'.content
  <2>1. CASE in.commits = {}
    BY <1>5, <1>10, <2>1
  <2>2. CASE in.commits # {}
    <3>1. p.kind \in {"os", "ostree-deployment", "anaconda", "anaconda-iso-tree"}
      BY <1>2, <2>2 DEF Answer, getOSTreeCommitSources
    <3>2. getOSTreeCommits(p, m) = m.in.commits /\ p.kind \in Stateful
      BY <3>1 DEF getOSTreeCommits, Stateful
    <3> QED
      BY <1>5, <1>9, <3>2
  <2> QED
    BY <2>1, <2>2
<1>12. p.kind # "anaconda" => in.containers \subseteq merged'.specs /\ m.in.containers \subseteq merged'.specs
  <2>1. CASE in.containers = {}
    BY <1>5, <1>10, <2>1
  <2>2. CASE in.containers # {} /\ p.kind # "anaconda"
    <3>1. getContainerSources(p) # {}
      BY <1>2, <2>2 DEF Answer
    <3>2. p.kind \in {"os", "buildroot-container", "raw-bootc", "os-from-container", "ostree-deployment",
                      "anaconda-iso-tree"}
      BY <2>2, <3>1 DEF getContainerSources
    <3>3. getContainerSpecs(p, m) = m.in.containers /\ p.kind \in Stateful
      BY <3>2 DEF getContainerSpecs, Stateful
    <3> QED
      BY <1>5, <1>9, <3>3
  <2> QED
    BY <2>1, <2>2
<1>13. m.in.flatpaks \subseteq merged'.content
  <2>1. CASE p.kind = "anaconda"
    BY <1>9, <2>1 DEF getFlatpakSpecs
  <2>2. CASE p.kind # "anaconda"
    BY <1>2, <1>5, <1>10, <2>2 DEF Answer
  <2> QED
    BY <2>1, <2>2
<1>14. p.kind = "coi" /\ "IgnitionConfig" \in p.opts => Inline("IgnitionConfig") \in merged'.content
  <2>1. p.kind = "coi" => getInline(p, pipelines, s) = CoreOSInline(p.opts)
    BY DEF getInline
  <2> QED
    BY <1>9, <2>1 DEF CoreOSInline
\* What its stages use.
<1> DEFINE U == merged'.content \union ContainerSources(merged'.specs)
                  \union {TreeFile(n) : n \in DOMAIN MakerOf}
                  \union (IF MixedLists THEN NewFilesInputForManifestLists(m.in.containers) ELSE {})
                  \union (IF p.kind = "anaconda" /\ LivefsMoved THEN NewContainersInput(m.in.containers) ELSE {})
                  \union (IF HashesHostFile(p) THEN {HostFile(m.hashed)} ELSE {})
                  \union (IF "IgnitionConfig" \notin img.opts THEN {Inline("IgnitionConfig")} ELSE {})
<1>15. /\ merged'.content \subseteq U /\ ContainerSources(merged'.specs) \subseteq U
       /\ {TreeFile(n) : n \in DOMAIN MakerOf} \subseteq U
       /\ MixedLists => NewFilesInputForManifestLists(m.in.containers) \subseteq U
       /\ p.kind = "anaconda" /\ LivefsMoved => NewContainersInput(m.in.containers) \subseteq U
       /\ HashesHostFile(p) => HostFile(m.hashed) \in U
       /\ "IgnitionConfig" \notin img.opts => Inline("IgnitionConfig") \in U
  OBVIOUS
<1>16. ASSUME NEW u \in U PROVE Covered(u, p.name)'
  <2>1. \/ u \in merged'.content \union ContainerSources(merged'.specs)
        \/ \E n \in DOMAIN MakerOf : u = TreeFile(n)
        \/ MixedLists /\ u \in NewFilesInputForManifestLists(m.in.containers)
        \/ p.kind = "anaconda" /\ LivefsMoved
        \/ HashesHostFile(p) /\ u = HostFile(m.hashed)
        \/ "IgnitionConfig" \notin img.opts /\ u = Inline("IgnitionConfig")
    BY <1>16
  <2> HIDE DEF U
  <2>2. MixedLists' = MixedLists /\ LivefsMoved' = LivefsMoved /\ EmptyIgnition(u)' = EmptyIgnition(u)
        /\ Range(pipelines)' = Range(pipelines)
    BY Zenon DEF MixedLists, LivefsMoved, EmptyIgnition
  <2>3. CASE u \in merged'.content \union ContainerSources(merged'.specs)
    BY <2>3 DEF Covered
  <2>4. CASE \E n \in DOMAIN MakerOf : u = TreeFile(n)
    <3>1. u[1] = "tree"
      BY <2>4 DEF TreeFile
    <3> QED
      BY <3>1 DEF Covered
  <2>5. CASE MixedLists /\ u \in NewFilesInputForManifestLists(m.in.containers)
    <3>1. u[1] = "skopeo-index"
      BY <2>5 DEF NewFilesInputForManifestLists
    <3> QED
      BY <2>2, <2>5, <3>1 DEF Covered
  <2>6. CASE p.kind = "anaconda" /\ LivefsMoved
    <3>1. p.name = "anaconda-tree"
      BY <1>2, <2>6 DEF Fits
    <3> QED
      BY <2>2, <2>6, <3>1 DEF Covered
  <2>7. CASE HashesHostFile(p) /\ u = HostFile(m.hashed)
    <3>1. u = HostFile(u[3])
      BY <2>7 DEF HostFile
    <3>2. merged'.files \/ p.kind = "ostree-deployment"
      BY <1>9, <2>7 DEF HashesHostFile, fileRefs, OSFileRefs
    <3>3. p \in Range(pipelines)
      BY DEF Range
    <3> QED
      BY <2>2, <3>1, <3>2, <3>3 DEF Covered
  <2>8. CASE "IgnitionConfig" \notin img.opts /\ u = Inline("IgnitionConfig")
    BY <2>2, <2>8 DEF Covered, EmptyIgnition
  <2> QED
    BY <2>1, <2>3, <2>4, <2>5, <2>6, <2>7, <2>8
<1> HIDE DEF U
<1>17. p.kind \in {"buildroot", "os", "coi", "commit-server"} \/ m.in.version # 0 =>
           Rpms(p.name, m.in.version) \in U
  <2>1. p.kind \in {"buildroot", "os", "coi", "commit-server"} => p.kind \in Stateful /\ in.version # 0
    BY <1>2 DEF Answer, Depsolved, Stateful
  <2> QED
    BY <1>5, <1>9, <1>10, <1>15, <2>1
<1>18. NewContainersInput(m.in.containers) \subseteq U
  <2>1. CASE p.kind # "anaconda"
    BY <1>12, <1>15, <2>1, SourcesGrow
  <2>2. CASE p.kind = "anaconda" /\ LivefsMoved
    BY <1>15, <2>2
  <2>3. CASE p.kind = "anaconda" /\ ~ LivefsMoved
    <3>1. p.kind \in Stateful
      BY <2>3 DEF Stateful
    <3>2. m.in = in
      BY <1>5, <3>1
    <3>3. CASE in.containers = {}
      BY <3>2, <3>3 DEF NewContainersInput
    <3>4. CASE in.containers # {}
      <4>1. PICK j \in 1 .. (i - 1) : /\ j \in DOMAIN pipelines /\ pipelines[j].kind # "anaconda"
                                      /\ resolved[pipelines[j].name].containers = in.containers
        BY <1>1, <2>3, <3>4, LivefsGiven DEF in
      <4>2. in.containers \subseteq merged.specs
        BY <1>7, <4>1 DEF Gave
      <4> QED
        BY <1>9, <1>15, <3>2, <4>2, SourcesGrow
    <3> QED
      BY <3>3, <3>4
  <2> QED
    BY <2>1, <2>2, <2>3
<1>19. p.kind = "os" /\ (\E t \in m.in.containers : ~ t.local) =>
           NewFilesInputForManifestLists(m.in.containers) \subseteq U
  <2> SUFFICES ASSUME p.kind = "os", \E t \in m.in.containers : ~ t.local, ~ MixedLists
               PROVE  NewFilesInputForManifestLists(m.in.containers) \subseteq U
    BY <1>15
  <2>1. p.kind \in Stateful
    BY DEF Stateful
  <2>2. m.in = in
    BY <1>5, <2>1
  <2>3. NewFilesInputForManifestLists(in.containers) \subseteq ContainerSources(in.containers)
    BY <1>2, <2>2, IndexesGiven
  <2>4. ContainerSources(in.containers) \subseteq ContainerSources(merged'.specs)
    BY <1>12, SourcesGrow
  <2> QED
    BY <1>15, <2>2, <2>3, <2>4
<1>20. p.kind = "raw-ostree" => now[p.of.tree].in.commits \subseteq U
  <2> SUFFICES ASSUME p.kind = "raw-ostree" PROVE now[p.of.tree].in.commits \subseteq U
    OBVIOUS
  <2>1. "tree" \in DOMAIN p.of
    BY <1>6 DEF Sound, Roles, PlainKinds
  <2>2. PICK j \in 1 .. (i - 1) : j \in DOMAIN pipelines /\ pipelines[j].name = p.of.tree
    BY <1>8, <2>1
  <2>3. now[p.of.tree].in = mem[p.of.tree].in
    BY <1>1, <1>4, <2>2, Domains
  <2>4. mem[p.of.tree].in = resolved[p.of.tree] \/ mem[p.of.tree].in = NoInputs
    BY <1>1, <2>2, HeldIs
  <2>5. resolved[p.of.tree].commits \subseteq merged.content
    BY <1>7, <2>2 DEF Gave
  <2> QED
    BY <1>9, <1>10, <1>15, <2>3, <2>4, <2>5
<1>21. p.kind = "coi-iso-tree" => Inline("IgnitionConfig") \in U
  <2> SUFFICES ASSUME p.kind = "coi-iso-tree", "IgnitionConfig" \in img.opts
               PROVE  Inline("IgnitionConfig") \in U
    BY <1>15
  <2>1. "coi" \in DOMAIN p.of
    BY <1>6 DEF Sound, Roles, PlainKinds
  <2>2. p.of.coi = "coi-tree"
    BY <1>2 DEF Fits
  <2>3. PICK j \in 1 .. (i - 1) : j \in DOMAIN pipelines /\ pipelines[j].name = "coi-tree"
    BY <1>8, <2>1, <2>2
  <2>4. Fits(pipelines[j], img) /\ Gave(pipelines[j], out[j].stages)
    BY <1>1, <1>7, <2>3 DEF Fitting
  <2>5. pipelines[j].kind = "coi" /\ "IgnitionConfig" \in pipelines[j].opts
    BY <2>3, <2>4 DEF Fits
  <2>6. Inline("IgnitionConfig") \in merged.content
    BY <2>4, <2>5 DEF Gave
  <2> QED
    BY <1>9, <1>15, <2>6
<1>22. p.kind = "os-from-container" => \A t \in m.in.containers : ~ t.list
  <2> SUFFICES ASSUME p.kind = "os-from-container", NEW t \in m.in.containers PROVE ~ t.list
    OBVIOUS
  <2>1. t \in in.containers
    BY <1>5, <1>10
  <2>2. t.name \in {"bootc", "payload"}
    <3>1. getContainerSources(p) = {"bootc"} \union (IF "PayloadContainer" \in p.opts THEN {"payload"} ELSE {})
      BY DEF getContainerSources
    <3>2. t.name \in getContainerSources(p)
      BY <1>2, <2>1 DEF Answer
    <3> QED
      BY <3>1, <3>2
  <2> QED
    BY <1>2, <2>1, <2>2 DEF Answer
<1>23. p.kind = "raw-bootc" => ~ RawBootcImageFails(p.opts, m.in)
  <2>1. p.kind = "raw-bootc" => serializeFails(p, pipelines, mem) = RawBootcImageFails(p.opts, mem[p.name].in)
    BY Zenon DEF serializeFails
  <2> QED
    BY <1>3, <1>4, <2>1
<1>24. p.kind = "anaconda-iso-tree" =>
         /\ "ISOContainer" \notin p.opts => m.in.containers = {}
         /\ "ISOContainer" \in p.opts => "subscription" \notin DOMAIN p.of
  <2> SUFFICES ASSUME p.kind = "anaconda-iso-tree"
               PROVE  /\ "ISOContainer" \notin p.opts => m.in.containers = {}
                      /\ "ISOContainer" \in p.opts => "subscription" \notin DOMAIN p.of
    OBVIOUS
  <2>1. "ISOContainer" \notin p.opts => getContainerSources(p) = {}
    BY DEF getContainerSources
  <2>2. "ISOContainer" \notin p.opts => in.containers = {}
    BY <1>2, <2>1 DEF Answer
  <2>3. "ISOContainer" \in p.opts => "subscription" \notin DOMAIN p.of
    BY <1>1, PayloadOnce
  <2> QED
    BY <1>5, <1>10, <2>2, <2>3
<1>25. Takes(s, U)
  <2>1. /\ m.in.commits \subseteq U /\ m.in.flatpaks \subseteq U /\ getInline(p, pipelines, s) \subseteq U
        /\ HashesHostFile(p) => HostFile(m.hashed) \in U
        /\ {TreeFile(n) : n \in DOMAIN MakerOf} \subseteq U
    BY <1>9, <1>11, <1>13, <1>15
  <2>2. Supplied(p, pipelines, now, U)
    BY <1>17, <1>18, <1>19, <1>20, <1>21, <1>22, <1>23, <1>24, <2>1, Zenon DEF Supplied
  <2> QED
    BY <2>2, SerializeTakes, Zenon
<1>26. \A k \in DOMAIN s : \A u \in s[k].use : Covered(u, p.name)'
  <2> SUFFICES ASSUME NEW k \in DOMAIN s, NEW u \in s[k].use PROVE Covered(u, p.name)'
    BY Zenon
  <2>1. u \in U
    BY <1>25 DEF Takes, Uses
  <2> QED
    BY <1>16, <2>1, Zenon
<1>27. in = resolved'[p.name]
  BY DEF in
<1> QED
  BY <1>11, <1>12, <1>14, <1>26, <1>27 DEF Gave

\* A step that serializes nothing and resolves nothing.
LEMMA ProvidedKept ==
    ASSUME ResolveInv, Provided, UNCHANGED <<img, pipelines, resolved, out, merged>>, pc \in Late,
           pc' = "done" => \/ UNCHANGED <<pc, sources, world>>
                           \/ sources' = merged.content \union ContainerSources(merged.specs)
                                           \union (IF merged.files THEN {HostFile(world)} ELSE {})
                              /\ UNCHANGED world
    PROVE  Provided'
<1>1. ASSUME NEW i \in DOMAIN out PROVE Gave(pipelines[i], out[i].stages)'
  <2> DEFINE p == pipelines[i]
             s == out[i].stages
  <2>1. Gave(p, s)
    BY DEF Provided
  <2>2. p' = p /\ s' = s
    OBVIOUS
  <2> HIDE DEF p, s
  <2>3. Gave(p, s)'
    BY <2>1, <2>2, GaveMore DEF Gave, Covered
  <2> QED
    BY <2>3 DEF p, s
<1>2. pc' = "done" => sources' = merged'.content \union ContainerSources(merged'.specs)
                                   \union (IF merged'.files THEN {HostFile(world')} ELSE {})
  BY DEF Provided
<1> QED
  BY <1>1, <1>2 DEF Provided

\* One more pipeline has given what its stages use.
LEMMA ProvidedSerialize == ASSUME SourcesInv, SerializePipeline PROVE Provided'
<1> DEFINE p == pipelines[idx]
           now == [mem EXCEPT ![p.name].hashed = world]
           m == now[p.name]
           s == serialize(p, pipelines, now)
           e == [name |-> p.name, build |-> p.build, stages |-> s]
<1>1. /\ pc = "serialize" /\ idx <= Len(pipelines) /\ UNCHANGED <<img, pipelines, resolved>>
      /\ \/ pc' \in {"failed", "panicked"}
         \/ /\ ~ serializeFails(p, pipelines, mem)
            /\ pc' = pc /\ out' = Append(out, e)
            /\ merged' = [content |-> merged.content \union getOSTreeCommits(p, m)
                             \union (IF resolved[p.name].version = 0 THEN {}
                                     ELSE {Rpms(p.name, resolved[p.name].version)})
                             \union getFlatpakSpecs(p, m) \union getInline(p, pipelines, s),
                           specs |-> merged.specs \union getContainerSpecs(p, m),
                           files |-> merged.files \/ fileRefs(p)]
  BY DEF SerializePipeline
<1>2. ResolveInv /\ Provided
  BY DEF SourcesInv
<1>3. idx \in DOMAIN pipelines /\ idx \in Nat \ {0}
  BY <1>1, <1>2, Domains
<1>4. CASE pc' \in {"failed", "panicked"}
  BY <1>4 DEF Provided, Late
<1>5. CASE pc' \notin {"failed", "panicked"}
  <2>1. PICK q : q = p
    OBVIOUS
  <2>2. PICK r : r = s
    OBVIOUS
  <2>3. Gave(q, r)'
    <3>1. PICK w : w = now
      OBVIOUS
    <3>2. PICK o : o = w[q.name]
      OBVIOUS
    <3>3. /\ q = pipelines[idx] /\ w = [mem EXCEPT ![q.name].hashed = world]
          /\ r = serialize(q, pipelines, w) /\ ~ serializeFails(q, pipelines, mem)
      BY <1>1, <1>5, <2>1, <2>2, <3>1
    <3>4. merged' = [content |-> merged.content \union getOSTreeCommits(q, o)
                       \union (IF resolved[q.name].version = 0 THEN {}
                               ELSE {Rpms(q.name, resolved[q.name].version)})
                       \union getFlatpakSpecs(q, o) \union getInline(q, pipelines, r),
                     specs |-> merged.specs \union getContainerSpecs(q, o),
                     files |-> merged.files \/ fileRefs(q)]
      BY <1>1, <1>5, <2>1, <2>2, <3>1, <3>2
    <3> HIDE DEF p, now, m, s, e
    <3> QED
      BY <1>1, <1>3, <3>2, <3>3, <3>4, SerializeGives
  <2>4. /\ Len(out) = idx - 1 /\ IsSeq(out)
    BY <1>1, <1>2 DEF ResolveInv, Emitted
  <2>5. /\ DOMAIN out' = 1 .. idx /\ DOMAIN out = 1 .. (idx - 1) /\ out'[idx] = e
        /\ \A i \in DOMAIN out : out'[i] = out[i]
    <3> HIDE DEF e
    <3>1. PICK S : out \in Seq(S)
      BY <2>4 DEF IsSeq
    <3>2. out \in Seq(S \union {e})
      BY <3>1, SeqUnion
    <3> QED
      BY <1>1, <1>3, <1>5, <2>4, <3>2
  <2>6. /\ merged.content \subseteq merged'.content /\ merged.specs \subseteq merged'.specs
        /\ merged.files => merged'.files
    <3>1. PICK a, b, c : merged' = [content |-> merged.content \union a, specs |-> merged.specs \union b,
                                    files |-> merged.files \/ c]
      <4>1. \E a, b, c : merged' = [content |-> merged.content \union a, specs |-> merged.specs \union b,
                                    files |-> merged.files \/ c]
        <5> DEFINE a == getOSTreeCommits(p, m)
                          \union (IF resolved[p.name].version = 0 THEN {}
                                  ELSE {Rpms(p.name, resolved[p.name].version)})
                          \union getFlatpakSpecs(p, m) \union getInline(p, pipelines, s)
        <5>1. merged' = [content |-> merged.content \union a, specs |-> merged.specs \union getContainerSpecs(p, m),
                         files |-> merged.files \/ fileRefs(p)]
          <6> HIDE DEF p, now, m, s, e
          <6> QED
            BY <1>1, <1>5
        <5> HIDE DEF a, p, now, m, s, e
        <5> QED
          BY <5>1, Zenon
      <4> QED
        BY <4>1
    <3> HIDE DEF p, now, m, s, e
    <3> QED
      BY <3>1
  <2>7. ASSUME NEW i \in DOMAIN out' PROVE Gave(pipelines[i], out[i].stages)'
    <3>1. CASE i = idx
      <4>1. pipelines'[i] = q /\ out'[i].stages = r
        BY <1>1, <2>1, <2>2, <2>5, <3>1
      <4> HIDE DEF p, now, m, s, e
      <4> QED
        BY <2>3, <4>1 DEF Gave, Covered
    <3>2. CASE i # idx
      <4>1. i \in DOMAIN out
        BY <1>3, <2>5, <3>2
      <4>2. PICK x : x = pipelines[i]
        OBVIOUS
      <4>3. PICK y : y = out[i].stages
        OBVIOUS
      <4>4. Gave(x, y)
        BY <1>1, <1>2, <4>1, <4>2, <4>3 DEF Provided, Late
      <4>5. pipelines'[i] = x /\ out'[i].stages = y
        BY <1>1, <2>5, <4>1, <4>2, <4>3
      <4> HIDE DEF p, now, m, s, e
      <4>6. Gave(x, y)'
        BY <1>1, <2>6, <4>4, GaveMore
      <4> QED
        BY <4>5, <4>6 DEF Gave, Covered
    <3> QED
      BY <3>1, <3>2
  <2>8. pc' # "done"
    BY <1>1, <1>5
  <2> HIDE DEF p, now, m, s, e
  <2> QED
    BY <2>7, <2>8 DEF Provided
<1> QED
  BY <1>4, <1>5

LEMMA ProvidedStep == ASSUME SourcesInv, ResolveInv', [Next]_vars PROVE Provided'
<1>1. ResolveInv /\ Provided
  BY DEF SourcesInv
<1>2. CASE \/ checkOptions \/ MakeImage \/ addPipeline \/ Instantiated \/ GenerateAgain
           \/ GetPackageSetChains \/ Depsolve \/ ResolveContainers \/ CheckContainerArch
           \/ ResolveCommits \/ ResolveFlatpaks \/ ResolutionFails
           \/ SerializeStart \/ HostFileGone \/ GenSourcesFails
  <2>1. pc' \notin Late
    BY <1>2 DEF checkOptions, MakeImage, addPipeline, Instantiated, GenerateAgain, GetPackageSetChains,
                Depsolve, ResolveContainers, CheckContainerArch, ResolveCommits, ResolveFlatpaks,
                ResolutionFails, SerializeStart, HostFileGone, GenSourcesFails, Stop, Late
  <2> QED
    BY <2>1 DEF Provided, Late
<1>3. CASE Started
  <2>1. pc' = "serialize" /\ idx' = 1
    BY <1>3 DEF Started
  <2>2. IsSeq(out') /\ Len(out') = 0
    BY <2>1 DEF ResolveInv, Emitted
  <2>3. DOMAIN out' = {}
    BY <2>2, SeqLen
  <2> QED
    BY <2>1, <2>3 DEF Provided
<1>4. CASE Serialized \/ SerializeEnd \/ Ended
  <2>1. UNCHANGED <<img, pipelines, resolved, out, merged>> /\ pc \in Late /\ pc' # "done"
    BY <1>4 DEF Serialized, SerializeEnd, Ended, Late
  <2> QED
    BY <1>1, <2>1, ProvidedKept
<1>5. CASE GenSources
  <2>1. /\ UNCHANGED <<img, pipelines, resolved, out, merged, world>> /\ pc \in Late
        /\ sources' = merged.content \union ContainerSources(merged.specs)
                         \union (IF merged.files THEN {HostFile(world)} ELSE {})
    BY <1>5 DEF GenSources, Late
  <2> QED
    BY <1>1, <2>1, ProvidedKept
<1>6. CASE Publish
  <2>1. UNCHANGED <<img, pipelines, resolved, out, merged, pc>> /\ pc # "done"
    BY <1>6 DEF Publish
  <2>2. CASE pc \in Late
    BY <1>1, <2>1, <2>2, ProvidedKept
  <2>3. CASE pc \notin Late
    BY <2>1, <2>3 DEF Provided
  <2> QED
    BY <2>2, <2>3
<1>7. CASE UNCHANGED vars
  <2>1. UNCHANGED <<img, pipelines, resolved, out, merged, pc, sources, world>>
    BY <1>7 DEF vars
  <2>2. CASE pc \in Late
    BY <1>1, <2>1, <2>2, ProvidedKept
  <2>3. CASE pc \notin Late
    BY <2>1, <2>3 DEF Provided, Late
  <2> QED
    BY <2>2, <2>3
<1> QED
  BY <1>2, <1>3, <1>4, <1>5, <1>6, <1>7, ProvidedSerialize DEF Next

LEMMA SourcesInit == ASSUME Init PROVE SourcesInv
<1>1. pipelines = << >> /\ pc \in {"check", "instantiate"} /\ world = 1
  BY DEF Init
<1>2. \A i \in DOMAIN << >> : FALSE
  OBVIOUS
<1> QED
  BY <1>1, <1>2, ResolveInit DEF SourcesInv, Fitting, Answered, Held, Provided, Later, Late

\* What is used is given or excepted.
LEMMA SourcesImplied == ASSUME SourcesInv PROVE SourcesComplete
<1> SUFFICES ASSUME pc = "done", NEW i \in DOMAIN out, NEW u \in UsedBy(out[i])
             PROVE  \/ u \in sources
                    \/ u[1] = "tree"
                    \/ MixedLists /\ u[1] = "skopeo-index"
                    \/ LivefsMoved /\ out[i].name = "anaconda-tree"
                    \/ HostFileLost(u)
                    \/ EmptyIgnition(u)
  BY Zenon DEF SourcesComplete
<1>1. Gave(pipelines[i], out[i].stages) /\ out[i].name = pipelines[i].name
  BY DEF SourcesInv, ResolveInv, Emitted, Provided, Late
<1>2. PICK k \in DOMAIN out[i].stages : u \in out[i].stages[k].use
  BY DEF UsedBy
<1>3. Covered(u, out[i].name)
  BY <1>1, <1>2 DEF Gave
<1>4. sources = merged.content \union ContainerSources(merged.specs)
                  \union (IF merged.files THEN {HostFile(world)} ELSE {})
  BY DEF SourcesInv, Provided
<1>5. CASE /\ u = HostFile(u[3])
           /\ merged.files \/ \E q \in Range(pipelines) : q.kind = "ostree-deployment"
  <2>1. u[1] = "file"
    BY <1>5 DEF HostFile
  <2>2. CASE u[3] # world
    BY <2>1, <2>2 DEF HostFileLost
  <2>3. CASE u[3] = world /\ merged.files
    BY <1>4, <1>5, <2>3
  <2>4. CASE \E q \in Range(pipelines) : q.kind = "ostree-deployment"
    BY <2>1, <2>4 DEF HostFileLost
  <2> QED
    BY <1>5, <2>2, <2>3, <2>4
<1> QED
  BY <1>3, <1>4, <1>5 DEF Covered

\* SourcesComplete holds for every image type and image, however the repositories, the
\* registries and the files of the host change meanwhile, and however often the manifest is
\* serialized: but for the exceptions it names, osbuild finds whatever the stages of a
\* finished manifest use, of the version that was resolved, among its sources.
THEOREM Complete == Spec => []SourcesComplete
<1>1. SourcesInv /\ [Next]_vars => SourcesInv'
  <2> SUFFICES ASSUME SourcesInv, [Next]_vars PROVE SourcesInv'
    OBVIOUS
  <2>1. ResolveInv /\ Fitting /\ Answered /\ Held
    BY DEF SourcesInv
  <2>2. ResolveInv'
    BY <2>1, ResolveStep
  <2> QED
    BY <2>1, <2>2, FittingStep, AnsweredStep, HeldStep, ProvidedStep DEF SourcesInv
<1> QED
  BY SourcesInit, <1>1, SourcesImplied, PTL DEF Spec

=============================================================================
