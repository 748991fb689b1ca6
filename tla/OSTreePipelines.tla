--------------------------- MODULE OSTreePipelines ---------------------------
(***************************************************************************)
(* The pipelines that make, serve and deploy OSTree commits and bootable   *)
(* containers (commit.go, commit_server_tree.go, ostree_encapsulate.go,    *)
(* ostree_deployment.go, raw_ostree.go, raw_bootc.go, bootc_rootfs.go,     *)
(* bootc_pxetree.go, os_from_container.go).  p, m and c are as in          *)
(* OSPipeline; tree is the pipeline p was made from and tm its memory.     *)
(***************************************************************************)
EXTENDS ImagePipelines

(* A commit of the tree; its parent is the commit the tree was resolved    *)
(* with, whose checksum goes into the options.                             *)
OSTreeCommitFails(tree) == "OSTreeRef" \notin tree.opts

OSTreeCommitStages(tree) == <<NewOSTreeInitStage, NewOSTreeCommitStage({tree.name})>>

OSTreeCommitServerStages(p, m) ==
    GenRPMStagesFromTransactions(p.name, m.in.version)
        \o <<NewLocaleStage, NewOSTreeInitStage, NewOSTreePullStage({p.of.tree}, {}),
             NewChmodStage, NewChmodStage, NewNginxConfigStage>>

OSTreeEncapsulateStages(p) == <<NewOSTreeEncapsulateStage({p.of.tree})>>

-----------------------------------------------------------------------------
(* OSFromContainer: the first container becomes the tree, the second one   *)
(* goes into its container storage.                                        *)
OSFromContainerStartFails(p, in) ==
    Cardinality(in.containers) # IF "PayloadContainer" \in p.opts THEN 2 ELSE 1

OSFromContainerStages(m) ==
    LET payload == {s \in m.in.containers : s.name = "payload"}
    IN  <<NewContainerDeployStage(NewContainersInput(m.in.containers \ payload))>>
        \o When(payload # {}, GenContainerStorageStages(FALSE, payload))

-----------------------------------------------------------------------------
(* OSTreeDeployment: one commit or one container, deployed and customized. *)
OSTreeDeploymentPackages(c) ==
    {"rpm-ostree"}
        \union (IF c \intersect {"Users", "LockRootUser"} # {} THEN {"shadow-utils"} ELSE {})

OSTreeDeploymentStartFails(in) ==
    Cardinality(in.commits) + Cardinality(in.containers) # 1

doOSTreeSpec(c, m) ==
    <<NewOSTreePullStage({}, m.in.commits), NewOSTreeDeployStage>>
        \o When("RemoteURL" \in c, <<NewOSTreeRemotesStage>>)
        \o <<NewOSTreeFillvarStage>>

doOSTreeContainerSpec(m) ==
    <<NewOSTreeDeployContainerStage(NewContainersInput(m.in.containers))>>

(* The unit that creates the mount points, which is enabled as well: the   *)
(* services are looked at after it.                                        *)
OSTreeDeploymentServices(c) ==
    c \intersect {"EnabledServices", "DisabledServices"} # {}
        \/ {"Ignition", "CustomFileSystems"} \subseteq c

OSTreeIgnitionStages(c) ==
    <<NewIgnitionStage>>
        \o When("CustomFileSystems" \in c, <<NewSystemdUnitCreateStage>>)
        \o When(OSTreeDeploymentServices(c), <<NewSystemdPresetStage>>)

OSTreeDeploymentStages(p, m) ==
    LET c == p.opts
    IN  <<OSTreeInitFsStage, NewOSTreeOsInitStage, NewMkdirStage>>
        \o (IF m.in.commits # {} THEN doOSTreeSpec(c, m) ELSE doOSTreeContainerSpec(m))
        \o <<NewOSTreeConfigStage>>
        \o filesystemConfigStages(c)
        \o Opt(c, "Groups", NewGroupsStage) \o Opt(c, "Users", NewUsersStage)
        \o When("Ignition" \in c, OSTreeIgnitionStages(c))
        \o When("LockRootUser" \in c /\ ~({"Users", "RootUser"} \subseteq c), <<NewUsersStage>>)
        \o Opt(c, "Keyboard", NewKeymapStage) \o Opt(c, "Language", NewLocaleStage)
        \o When("FIPS" \in c, GenFileNodesStages(GenFIPSFiles) \o GenFIPSStages)
        \o When("UseBootupd" \notin c, <<NewGRUB2Stage(NoKernel)>>)
        \o GenDirectoryNodesStages(CustomDirectories(c))
        \o GenFileNodesStages(CustomFiles(c, m))
        \o When(OSTreeDeploymentServices(c), <<NewSystemdStage>>)
        \o <<NewOSTreeSelinuxStage>>

OSTreeDeploymentFails(c) ==
    \/ {"Users", "BadPassword"} \subseteq c
    \/ {"Ignition", "CustomFileSystems", "BadMountpoint"} \subseteq c

(* Unlike the OS pipeline it keeps the data of every file, whatever the    *)
(* file's content comes from, and has no list of host files.               *)
OSTreeDeploymentInline(c) ==
    (IF "FIPS" \in c THEN {f.data : f \in GenFIPSFiles} ELSE {})
        \union (IF "Files" \in c THEN {Inline("Files")} ELSE {})

-----------------------------------------------------------------------------
(* RawOSTreeImage: the deployment on a disk.                               *)
RawOSTreeImagePackages(tree) ==
    {"platform", "rpm-ostree", "dracut-config-generic", "efibootmgr"}
        \union PartitionTablePackages(tree.opts)

RawOSTreeImageFails(tree) ==
    \/ "PartitionTable" \notin tree.opts
    \/ "UseBootupd" \in tree.opts /\ BootupdMountsFail(tree.opts)

(* The boot files come from the commit, which a deployed container has not *)
(* got: its spec is nil.                                                   *)
RawOSTreeImagePanics(tree, tm) ==
    {"PartitionTable", "TreeBootFiles"} \subseteq tree.opts /\ tm.in.commits = {}

RawOSTreeImageStages(p, tree, tm) ==
    LET c == tree.opts
    IN  GenImagePrepareStages(c \ {"Sgdisk"}, tree.name)
        \o <<NewCopyStage({tree.name}, {})>>
        \o When("TreeBootFiles" \in c, <<NewCopyStage({}, tm.in.commits)>>)
        \o When("BuildBootFiles" \in c, <<NewCopyStage({p.build}, {})>>)
        \o GenImageFinishStages(c)
        \o (IF "UseBootupd" \in c
              THEN <<NewBootupdStage>>
              ELSE When("BIOS" \in c, <<NewGrub2InstStage>>))

-----------------------------------------------------------------------------
(* RawBootcImage: a bootable container installed to a disk.  The build     *)
(* root is a container: nothing is asked of it.                            *)
buildHomedirPaths(c) == When("Users" \in c, <<NewMkdirStage>>)

RawBootcImageFails(c, in) ==
    \/ "PartitionTable" \notin c
    \/ Cardinality(in.containers) # 1
    \/ BootupdMountsFail(c)
    \/ /\ "UnifiedKernel" \notin c
       /\ \/ {"Users", "BadPassword"} \subseteq c
          \/ SubscriptionFails(c)
          \/ "UriFiles" \in c

(* Ignition without a URL needs to be told to be empty: there is no stage  *)
(* to give the devices to.                                                 *)
RawBootcImagePanics(c) ==
    {"Ignition", "NoProvisioningURL"} \subseteq c /\ c \intersect {"EmptyFirstboot", "UnifiedKernel"} = {}

RawBootcSubscriptionStages(c) ==
    <<SubscriptionUnit>>
        \o GenDirectoryNodesStages(SubscriptionDirs(c, TRUE))
        \o GenFileNodesStages(SubscriptionFiles(c, TRUE))
        \o <<NewSystemdStage>>

(* Everything after the installation works on the deployment mounted from  *)
(* the image, which a unified kernel does not allow.                       *)
RawBootcPostStages(c, m) ==
    filesystemConfigStages(c)
        \o Opt(c, "Groups", NewGroupsStage)
        \o buildHomedirPaths(c)
        \o Opt(c, "Users", NewUsersStage)
        \o When("LiveBoot" \in c, GenDirectoryNodesStages({Directory(TRUE, FALSE)}))
        \o When("Subscription" \in c, RawBootcSubscriptionStages(c))
        \o GenDirectoryNodesStages(CustomDirectories(c))
        \o GenFileNodesStages(CustomFiles(c, m))
        \o Opt(c, "Ignition", NewIgnitionStage) \o Opt(c, "Grub2Config", NewGrub2DStage)

RawBootcImageStages(p, m) ==
    LET c == p.opts
        post == When("UnifiedKernel" \notin c, RawBootcPostStages(c, m))
    IN  GenImagePrepareStages(c \ {"Sgdisk"}, IF "target" \in DOMAIN p.of THEN p.of.target ELSE p.build)
        \o <<NewBootcInstallToFilesystemStage(NewContainersInput(m.in.containers))>>
        \o GenImageFinishStages(c)
        \o post
        \o When("SELinux" \in c /\ post # << >>, <<NewSELinuxStage, NewSELinuxStage>>)

genFileStagesAndRecordInlineData(c) ==
    IF "UnifiedKernel" \in c THEN {}
    ELSE (IF "Files" \in c THEN {Inline("Files")} ELSE {})
           \union (IF "Subscription" \in c
                     THEN {f.data : f \in SubscriptionFiles(c, TRUE)} ELSE {})

-----------------------------------------------------------------------------
(* BootcRootFS: the kernel and a compressed root file system taken from    *)
(* the disk image.  The kernel version is that of the container the image  *)
(* type was configured with, not a result of this manifest's resolution.   *)
BootcRootFSFails(tree) == "KernelVersion" \notin tree.opts \/ BootupdMountsFail(tree.opts)

BootcRootFSStages(p, tree) ==
    <<NewCopyStage({tree.name}, {}),
      IF "Erofs" \in p.opts THEN NewErofsStage({}) ELSE NewSquashfsStage({}),
      NewCopyStage({}, {}), NewChmodStage>>

BootcPXETreeStages(p) ==
    <<NewCopyStage({p.of.tree}, {}), NewCopyStage({}, {}),
      NewCopyStage({}, {Inline("pxe-ostree-grub.cfg")}), NewOSTreeGrub2MountsStage,
      NewCopyStage({}, {Inline("pxe-README")}), NewChmodStage>>

BootcPXETreeFiles == {Inline("pxe-ostree-grub.cfg"), Inline("pxe-README")}
=============================================================================
