---------------------------- MODULE Serialization ----------------------------
(***************************************************************************)
(* The Pipeline interface of pkg/manifest/pipeline.go: what each kind of   *)
(* pipeline asks for, keeps from serializeStart to serializeEnd, makes     *)
(* of it and hands to the sources of the manifest.  pls is the sequence of *)
(* the manifest's pipelines and mem the memory of their objects, by name.  *)
(***************************************************************************)
EXTENDS Images

Named(pls, name) == pls[CHOOSE i \in DOMAIN pls : pls[i].name = name]

NoInputs == [version |-> 0, containers |-> {}, commits |-> {}, flatpaks |-> {}]

(* A new object.  A bootc installer is told the kernel of its container,   *)
(* and where it is, when it is created.                                    *)
NewObject(p) ==
    LET told == IF p.kind = "anaconda" /\ "Livefs" \in p.opts THEN 1 ELSE 0
    IN  [started |-> FALSE, in |-> NoInputs, kernelVer |-> told, kernelPath |-> told,
         hashed |-> 0]

-----------------------------------------------------------------------------
(* What a pipeline asks for: build packages, packages, containers, commits *)
(* and flatpaks.                                                           *)
getBuildPackages(p, pls) ==
    CASE p.kind = "os" -> OSBuildPackages(p.opts)
      [] p.kind = "raw" -> RawImagePackages(Named(pls, p.of.tree))
      [] p.kind \in Converters -> ConverterPackages(p.kind)
      [] p.kind = "pxe-tree" -> PXETreePackages(p)
      [] p.kind = "ostree-commit" -> {"rpm-ostree"}
      [] p.kind = "commit-server" -> {"rpm", "rpm-ostree"}
      [] p.kind = "ostree-encapsulate" -> {"rpm-ostree", "python3-pyyaml"}
      [] p.kind = "ostree-deployment" -> OSTreeDeploymentPackages(p.opts)
      [] p.kind = "raw-ostree" -> RawOSTreeImagePackages(Named(pls, p.of.tree))
      [] p.kind = "coi" -> CoreOSBuildPackages(p.opts)
      [] p.kind = "anaconda" -> AnacondaBuildPackages(p.opts)
      [] p.kind = "anaconda-iso-tree" -> ISOTreeBuildPackages(p, Named(pls, p.of.anaconda))
      [] p.kind = "efi-boot-tree" -> {"platform"}
      [] p.kind = "iso" -> {"isomd5sum", "xorriso"}
      [] OTHER -> {}

Dependents(p, pls) == {q \in Range(pls) : q.build = p.name}

(* The empty set stands for the nil chain of a pipeline without packages.  *)
getPackageSetChain(p, pls) ==
    CASE p.kind = "buildroot" ->
           BuildrootPackages(UNION {getBuildPackages(q, pls) : q \in Dependents(p, pls)})
      [] p.kind = "os" -> OSPackages(p.opts)
      [] p.kind = "anaconda" -> AnacondaPackages(p.opts)
      [] p.kind = "coi" -> CoreOSBootPackages(p.opts)
      [] p.kind = "commit-server" -> {"nginx"}
      [] OTHER -> {}

getPackageSetChainFails(p, pls) ==
    CASE p.kind = "buildroot" ->
           \E q \in Dependents(p, pls) :
             \/ q.kind \in {"os", "raw"}
                /\ OSBuildPackagesFail(IF q.kind = "os" THEN q.opts ELSE Named(pls, q.of.tree).opts)
             \/ q.kind = "anaconda" /\ AnacondaArchFails(q.opts)
             \/ q.kind = "coi" /\ CoreOSArchFails(q.opts)
      [] p.kind = "anaconda" -> AnacondaArchFails(p.opts)
      [] p.kind = "coi" -> CoreOSArchFails(p.opts)
      [] OTHER -> FALSE

(* The containers a pipeline names, by the name they are pulled under, and *)
(* what resolving them finds at a version of the registry.                 *)
getContainerSources(p) ==
    CASE p.kind = "os" /\ "Containers" \in p.opts ->
           (IF "OnlyLocal" \in p.opts THEN {} ELSE {"app"})
             \union (IF p.opts \intersect {"LocalContainer", "OnlyLocal"} # {} THEN {"local"} ELSE {})
      [] p.kind = "buildroot-container" ->
           {IF p.name = "bootstrap-buildroot" THEN "bootstrap"
            ELSE IF p.name = "build" /\ p.of # Nothing THEN "build-container" ELSE "bootc"}
      [] p.kind = "raw-bootc" -> {"bootc"}
      [] p.kind = "os-from-container" ->
           {"bootc"} \union (IF "PayloadContainer" \in p.opts THEN {"payload"} ELSE {})
      [] p.kind = "ostree-deployment" /\ "FromContainer" \in p.opts -> {"bootc"}
      [] p.kind = "anaconda" /\ "Livefs" \in p.opts -> {"bootc"}
      [] p.kind = "anaconda-iso-tree" /\ "ISOContainer" \in p.opts -> {"payload"}
      [] OTHER -> {}

getOSTreeCommitSources(p) ==
    \/ p.kind = "os" /\ "OSTreeParent" \in p.opts
    \/ p.kind = "ostree-deployment" /\ "FromContainer" \notin p.opts
    \/ p.kind = "anaconda" /\ "AnacondaCommit" \in p.opts
    \/ p.kind = "anaconda-iso-tree" /\ "ISOCommit" \in p.opts

getFlatpakSources(p) == p.kind = "anaconda" /\ "Flatpaks" \in p.opts

-----------------------------------------------------------------------------
(* serializeStart.  The kinds that keep nothing have that of Base.         *)
Stateful == {"buildroot", "buildroot-container", "os", "anaconda", "coi", "commit-server",
             "os-from-container", "ostree-deployment", "raw-bootc", "anaconda-iso-tree"}

(* Mutant: an object may be started again.                                 *)
DoubleStart_Never(p, m) == FALSE

(* How each object tells that it was started: by what it keeps.  The       *)
(* Anaconda installer asks for packages and containers together, which it  *)
(* never has; the tree of an ISO may have nothing to keep.                 *)
DoubleStart(p, m) ==
    CASE p.kind \in {"buildroot-container", "raw-bootc", "os-from-container"} -> m.in.containers # {}
      [] p.kind \in {"ostree-deployment", "anaconda-iso-tree"} ->
           m.in.containers # {} \/ m.in.commits # {}
      [] p.kind = "anaconda" -> m.started /\ m.in.containers # {}
      [] OTHER -> p.kind \in Stateful /\ m.started

(* The first version of the repositories may lack the kernel asked for.    *)
KernelFound(p, in) == in.version # 0 /\ ("KernelMissing" \notin p.opts \/ in.version > 1)

Wanted(p, in) == IF KernelFound(p, in) THEN p.opts \ {"KernelMissing"} ELSE p.opts

InputsRefused(p, in) ==
    CASE p.kind \in {"os", "coi"} -> OSStartFails(Wanted(p, in)) \/ Cardinality(in.commits) > 1
      [] p.kind = "anaconda" -> AnacondaStartFails(Wanted(p, in), in)
      [] p.kind = "os-from-container" -> OSFromContainerStartFails(p, in)
      [] p.kind = "ostree-deployment" -> OSTreeDeploymentStartFails(in)
      [] p.kind = "anaconda-iso-tree" -> ISOTreeStartFails(in)
      [] OTHER -> FALSE

(* Mutant: the version of the kernel that was found is not kept.           *)
Kept_NoKernel(p, m, in) ==
    IF p.kind \in Stateful THEN [m EXCEPT !.started = TRUE, !.in = in] ELSE m

(* Mutant: the build root does not keep its packages.                      *)
Kept_NoBuildroot(p, m, in) ==
    IF p.kind \in Stateful \ {"buildroot"} THEN [m EXCEPT !.started = TRUE, !.in = in] ELSE m

(* What the object keeps.  Those that look for a kernel have kept their    *)
(* inputs when they find it missing, the others check them first.          *)
Kept(p, m, in) ==
    IF \/ p.kind \notin Stateful
       \/ InputsRefused(p, in) /\ p.kind \notin {"os", "coi", "anaconda"}
      THEN m
      ELSE [m EXCEPT !.started = TRUE, !.in = in,
                     !.kernelVer = IF "KernelName" \in p.opts /\ KernelFound(p, in)
                                     THEN in.version ELSE m.kernelVer]

(* serializeEnd.  It panics in an object that has nothing to forget.       *)
EndPanics(p, m) ==
    CASE p.kind \in {"buildroot-container", "raw-bootc"} -> m.in.containers = {}
      [] p.kind = "ostree-deployment" -> OSTreeDeploymentStartFails(m.in)
      [] p.kind \in {"os-from-container", "anaconda-iso-tree"} -> FALSE
      [] OTHER -> p.kind \in Stateful /\ ~m.started

Forgotten(p, m) ==
    IF p.kind \in Stateful
      THEN [m EXCEPT !.started = FALSE, !.in = NoInputs, !.kernelVer = 0]
      ELSE m

-----------------------------------------------------------------------------
(* serialize: the stages, the errors and the nil pointers.                 *)
serialize(p, pls, mem) ==
    LET m == mem[p.name]
        Of(role) == Named(pls, p.of[role])
        Mem(role) == mem[p.of[role]]
    IN  CASE p.kind = "buildroot" -> BuildrootFromPackagesStages(p, m)
          [] p.kind = "buildroot-container" -> BuildrootFromContainerStages(p, m)
          [] p.kind = "os" -> OSStages(p, m)
          [] p.kind = "raw" -> RawImageStages(p, Of("tree"), Mem("tree"))
          [] p.kind \in Converters -> ConverterStages(p)
          [] p.kind = "pxe-tree" -> PXETreeStages(p, Of("tree"), Mem("tree"))
          [] p.kind = "subscription" -> SubscriptionStages(p, m)
          [] p.kind = "ostree-commit" -> OSTreeCommitStages(Of("tree"))
          [] p.kind = "commit-server" -> OSTreeCommitServerStages(p, m)
          [] p.kind = "ostree-encapsulate" -> OSTreeEncapsulateStages(p)
          [] p.kind = "os-from-container" -> OSFromContainerStages(m)
          [] p.kind = "ostree-deployment" -> OSTreeDeploymentStages(p, m)
          [] p.kind = "raw-ostree" -> RawOSTreeImageStages(p, Of("tree"), Mem("tree"))
          [] p.kind = "raw-bootc" -> RawBootcImageStages(p, m)
          [] p.kind = "bootc-rootfs" -> BootcRootFSStages(p, Of("tree"))
          [] p.kind = "bootc-pxe-tree" -> BootcPXETreeStages(p)
          [] p.kind = "anaconda" -> AnacondaStages(p, m)
          [] p.kind = "coi" -> CoreOSStages(p, m)
          [] p.kind = "coi-iso-tree" -> CoreOSISOTreeStages(p, Of("coi"), Mem("coi"))
          [] p.kind = "efi-boot-tree" -> EFIBootTreeStages
          [] p.kind = "anaconda-iso-tree" -> ISOTreeStages(p, m, Of("anaconda"), Mem("anaconda"))
          [] p.kind = "container-iso-tree" -> ContainerISOTreeStages(p)
          [] p.kind = "iso-rootfs" -> ISORootfsStages(p)
          [] OTHER -> ISOStages(p)

serializeFails(p, pls, mem) ==
    LET m == mem[p.name]
        Of(role) == Named(pls, p.of[role])
    IN  CASE p.kind = "buildroot-container" -> BuildrootFromContainerFails(m)
          [] p.kind = "os" -> OSSerializeFails(p.opts)
          [] p.kind = "raw" -> RawImageFails(Of("tree"))
          [] p.kind = "subscription" -> SubscriptionFails(p.opts)
          [] p.kind = "ostree-commit" -> OSTreeCommitFails(Of("tree"))
          [] p.kind = "ostree-deployment" -> OSTreeDeploymentFails(p.opts)
          [] p.kind = "raw-ostree" -> RawOSTreeImageFails(Of("tree"))
          [] p.kind = "raw-bootc" -> RawBootcImageFails(p.opts, m.in)
          [] p.kind = "bootc-rootfs" -> BootcRootFSFails(Of("tree"))
          [] p.kind = "anaconda" -> AnacondaFails(p.opts)
          [] p.kind = "efi-boot-tree" -> EFIBootTreeFails(p.opts)
          [] p.kind = "anaconda-iso-tree" -> ISOTreeFails(p, m, Of("anaconda"), mem[p.of.anaconda])
          [] p.kind = "container-iso-tree" -> ContainerISOTreeFails(p.opts)
          [] OTHER -> FALSE

serializePanics(p, pls, mem) ==
    \/ p.kind = "raw-ostree" /\ RawOSTreeImagePanics(Named(pls, p.of.tree), mem[p.of.tree])
    \/ p.kind = "raw-bootc" /\ RawBootcImagePanics(p.opts)
    \/ p.kind = "os" /\ OSSerializePanics(p.opts, OSStages(p, mem[p.name]))

(* The tree of an ISO writes the path of the kernel into the object of the *)
(* installer, where nothing ever clears it.                                *)
serializeCaches(p, mem) ==
    IF p.kind = "anaconda-iso-tree"
      THEN [mem EXCEPT ![p.of.anaconda].kernelPath = ISOKernel(mem[p.of.anaconda])]
      ELSE mem

-----------------------------------------------------------------------------
(* What a pipeline gives to the sources.                                   *)
getInline(p, pls, stages) ==
    CASE p.kind = "os" -> OSInline(stages)
      [] p.kind = "ostree-deployment" -> OSTreeDeploymentInline(p.opts)
      [] p.kind = "raw-bootc" -> genFileStagesAndRecordInlineData(p.opts)
      [] p.kind = "pxe-tree" -> PXETreeFiles
      [] p.kind = "bootc-pxe-tree" -> BootcPXETreeFiles
      [] p.kind = "subscription" -> {f.data : f \in SubscriptionFiles(p.opts, TRUE)}
      [] p.kind = "anaconda" -> AnacondaInline(p.opts)
      [] p.kind = "coi" -> CoreOSInline(p.opts)
      [] p.kind = "anaconda-iso-tree" -> ISOTreeInline(p, Named(pls, p.of.anaconda), stages)
      [] OTHER -> {}

(* The Anaconda installer keeps a container and does not give it.          *)
getContainerSpecs(p, m) ==
    IF p.kind \in {"os", "buildroot-container", "raw-bootc", "os-from-container",
                   "ostree-deployment", "anaconda-iso-tree"}
      THEN m.in.containers ELSE {}

(* Mutant: the tree of an ISO keeps its commit and does not give it.       *)
getOSTreeCommits_NotISO(p, m) ==
    IF p.kind \in {"os", "ostree-deployment", "anaconda"} THEN m.in.commits ELSE {}

getOSTreeCommits(p, m) ==
    IF p.kind \in {"os", "ostree-deployment", "anaconda", "anaconda-iso-tree"}
      THEN m.in.commits ELSE {}

getFlatpakSpecs(p, m) == IF p.kind = "anaconda" THEN m.in.flatpaks ELSE {}

fileRefs(p) == p.kind = "os" /\ OSFileRefs(p.opts)
=============================================================================
