--------------------------- MODULE ImagePipelines ---------------------------
(***************************************************************************)
(* The build roots (build.go), the disk image made from an OS tree         *)
(* (raw.go), and the pipelines that convert, archive or compress what      *)
(* another pipeline made.  p is a pipeline, p.of the pipelines it holds a  *)
(* pointer to, by role; os is the OS pipeline it was made from and om that *)
(* object's memory.                                                        *)
(***************************************************************************)
EXTENDS OSPipeline

(* BuildrootFromPackages: what is always there and what the dependents     *)
(* asked for.                                                              *)
BuildrootPackages(asked) == {"selinux-policy", "coreutils", "xz", "runner"} \union asked

BuildrootFromPackagesStages(p, m) ==
    GenRPMStagesFromTransactions(p.name, m.in.version)
        \o When("DisableSELinux" \notin p.opts, <<NewSELinuxStage>>)

(* BuildrootFromContainer: the one container, the directories that must    *)
(* exist and the files copied from other trees.                            *)
BuildrootFromContainerStages(p, m) ==
    <<NewContainerDeployStage(NewContainersInput(m.in.containers))>>
        \o When("EnsureDirs" \in p.opts, GenDirectoryNodesStages({Directory(FALSE, FALSE)}))
        \o When("CopyFilesFrom" \in p.opts, <<NewCopyStage({p.of.target}, {})>>)
        \o When("DisableSELinux" \notin p.opts, <<NewSELinuxStage>>)

BuildrootFromContainerFails(m) == Cardinality(m.in.containers) # 1

-----------------------------------------------------------------------------
(* RawImage takes the partition table, the platform and the kernel version *)
(* from the OS pipeline, which must still be serializing.                  *)
RawImagePackages(os) ==
    OSBuildPackages(os.opts) \union (IF "Sgdisk" \in os.opts THEN {"gdisk"} ELSE {})

RawImageFails(os) ==
    \/ "PartitionTable" \notin os.opts
    \/ "SYSTEMD" \in os.opts /\ "FAT" \notin os.opts

RawImageStages(p, os, om) ==
    LET c == os.opts
    IN  GenImagePrepareStages(c, os.name)
        \o <<NewCopyStage({os.name}, {})>>
        \o When("TreeBootFiles" \in c, <<NewCopyStage({os.name}, {})>>)
        \o When("BuildBootFiles" \in c, <<NewCopyStage({p.build}, {})>>)
        \o GenImageFinishStages(c)
        \o (IF "S390X" \in c
              THEN <<NewZiplInstStage(om.kernelVer)>>
              ELSE When("BIOS" \in c, <<NewGrub2InstStage>>))
        \o When("SYSTEMD" \in c, <<NewBootctlInstallRootStage>>)

-----------------------------------------------------------------------------
(* The pipelines that turn one artifact into another: the stage of each,   *)
(* and the packages its build root needs for it.                           *)
Converters == {"qcow2", "vmdk", "vpc", "ovf", "vagrant", "tar", "xz", "zstd", "gzip", "container"}

QCOW2Stages(p) == <<NewQEMUStage({p.of.tree})>>

VMDKStages(p) == <<NewQEMUStage({p.of.tree})>>

VPCStages(p) == <<NewQEMUStage({p.of.tree})>>

OVFStages(p) == <<NewCopyStage({p.of.tree}, {}), NewOVFStage>>

VagrantStages(p) ==
    When("VirtualBox" \in p.opts, OVFStages(p)) \o <<NewVagrantStage({p.of.tree})>>

TarStages(p) == <<NewTarStage({p.of.tree})>>

OCIContainerStages(p) == <<NewOCIArchiveStage({p.of.tree})>>

XZStages(p) == <<NewXzStage({p.of.tree})>>

ZstdStages(p) == <<NewZstdStage({p.of.tree})>>

GzipStages(p) == <<NewGzipStage({p.of.tree})>>

ConverterStages(p) ==
    CASE p.kind = "qcow2" -> QCOW2Stages(p)
      [] p.kind = "vmdk" -> VMDKStages(p)
      [] p.kind = "vpc" -> VPCStages(p)
      [] p.kind = "ovf" -> OVFStages(p)
      [] p.kind = "vagrant" -> VagrantStages(p)
      [] p.kind = "tar" -> TarStages(p)
      [] p.kind = "container" -> OCIContainerStages(p)
      [] p.kind = "xz" -> XZStages(p)
      [] p.kind = "zstd" -> ZstdStages(p)
      [] OTHER -> GzipStages(p)

ConverterPackages(kind) ==
    CASE kind \in {"qcow2", "vmdk", "vpc", "ovf", "vagrant"} -> {"qemu-img"}
      [] kind \in {"tar", "container"} -> {"tar"}
      [] OTHER -> {kind}

-----------------------------------------------------------------------------
(* PXETree: the kernel and the initramfs of the OS tree beside the tree    *)
(* itself as a compressed file system.                                     *)
PXETreePackages(p) == {IF "Erofs" \in p.opts THEN "erofs-utils" ELSE "squashfs-tools"}

PXETreeFiles == {Inline("pxe-grub.cfg"), Inline("pxe-README")}

PXETreeStages(p, os, om) ==
    <<[NewCopyStage({os.name}, {}) EXCEPT !.kernel = om.kernelVer],
      IF "Erofs" \in p.opts THEN NewErofsStage({os.name}) ELSE NewSquashfsStage({os.name}),
      NewCopyStage({}, {Inline("pxe-grub.cfg")}),
      NewCopyStage({}, {Inline("pxe-README")}),
      NewChmodStage>>

(* Subscription: the files that register a system, in a tree of their own. *)
(* The directories and files are appended to the object's own lists at     *)
(* every call, so a second call makes them twice.                          *)
SubscriptionStages(p, m) ==
    When("Subscription" \in p.opts,
         GenDirectoryNodesStages({Directory(FALSE, FALSE)})
           \o GenFileNodesStages(SubscriptionFiles(p.opts, TRUE))
           \o <<SubscriptionUnit>>)
=============================================================================
