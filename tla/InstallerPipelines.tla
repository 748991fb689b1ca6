-------------------------- MODULE InstallerPipelines --------------------------
(***************************************************************************)
(* The pipelines of installation media: the trees of the Anaconda and of   *)
(* the CoreOS installer, what they boot with, and the trees and images of  *)
(* the ISOs (anaconda_installer.go, anaconda_installer_iso_tree.go,        *)
(* coreos_installer.go, coi_iso_tree.go, iso_bootloaders.go,               *)
(* efi_boot_tree.go, iso_tree.go, iso_rootfs.go, iso.go).                  *)
(***************************************************************************)
EXTENDS OSTreePipelines

(* A file that another pipeline's tree must hold, named in the options.    *)
TreeFile(name) == <<"tree", name, 0>>

-----------------------------------------------------------------------------
(* AnacondaInstaller.  "Livefs": the tree is a container, and nothing is   *)
(* depsolved for it nor asked of the build root.                           *)
anacondaBootPackageSet(c) ==
    CASE "S390X" \in c -> {"s390utils-core"}
      [] "PPC64LE" \in c -> {"grub2-tools"}
      [] "AARCH64" \in c -> {"grub2-tools", "efibootmgr", "shim"}
      [] OTHER -> {"grub2-tools", "efibootmgr", "grub2-pc", "grub2-pc-modules", "shim"}
                    \union (IF "Syslinux" \in c THEN {"syslinux"} ELSE {})

AnacondaBuildPackages(c) ==
    IF "Livefs" \in c THEN {}
    ELSE anacondaBootPackageSet(c)
           \union {"rpm", "shadow-utils", "platform",
                   IF "LoraxPackage" \in c THEN "lorax-templates" ELSE "dosfstools"}
           \union (IF "SELinux" \in c THEN {"policycoreutils", "selinux-policy"} ELSE {})
           \union (IF "RPMKeys" \in c THEN {"pqrpm"} ELSE {})
           \union (IF "AnacondaCommit" \in c THEN {"rpm-ostree"} ELSE {})
           \union (IF "Flatpaks" \in c THEN {"flatpak"} ELSE {})

AnacondaPackages(c) ==
    IF "Livefs" \in c THEN {}
    ELSE anacondaBootPackageSet(c)
           \union {"base"}
           \union (IF "Biosdevname" \in c THEN {"biosdevname"} ELSE {})
           \union (IF "SELinux" \in c THEN {"selinux-policy"} ELSE {})

AnacondaArchFails(c) == "Livefs" \notin c /\ "BadArch" \in c

(* Packages or a container, but not both, and one commit at the most.      *)
AnacondaStartFails(c, in) ==
    \/ in.version # 0 /\ {"KernelName", "KernelMissing"} \subseteq c
    \/ (in.version # 0) = (in.containers # {})
    \/ Cardinality(in.commits) > 1

(* The payload in the root file system of the installer.                   *)
AnacondaCommitStages(m) ==
    <<NewOSTreeInitStage, NewOSTreePullStage({}, m.in.commits)>>

AnacondaFlatpakStages(m) ==
    <<NewOSTreeInitStage, NewFlatpakBuildImportOCIStage(m.in.flatpaks)>>

AnacondaPayloadConfig(c, m) ==
    When(m.in.commits # {},
         When("PayloadRootfs" \in c, AnacondaCommitStages(m))
         \o When("InteractiveDefaults" \in c, <<NewKickstartStage>>)
         \o When(m.in.flatpaks # {}, AnacondaFlatpakStages(m)))

payloadStages(c, m) ==
    <<NewUsersStage>>
        \o When("Netinst" \notin c, <<NewAnacondaStage>>)
        \o When("LoraxTemplates" \in c, <<NewLoraxScriptStage>>)
        \o <<NewDracutStage(m.kernelVer)>>
        \o When("LoraxDeferred" \in c, <<NewLoraxScriptStage>>)
        \o When("LoraxPackage" \notin c,
                <<NewCopyStage({}, {}), NewSystemdLogindStage, NewSystemdStage>>)
        \o <<NewSELinuxConfigStage>>

liveStages(c, m) ==
    <<NewUsersStage, NewSystemdStage>>
        \o GenFileNodesStages({File(Inline("livesys"))})
        \o <<NewDracutStage(m.kernelVer)>>
        \o When("SELinux" \in c, <<NewSELinuxStage>>)

AnacondaStages(p, m) ==
    LET c == p.opts
    IN  (IF m.in.version # 0
           THEN GenRPMStagesFromTransactions(p.name, m.in.version)
           ELSE <<NewContainerDeployStage(NewContainersInput(m.in.containers))>>)
        \o When("Payload" \in c, AnacondaPayloadConfig(c, m))
        \o <<NewBuildstampStage, NewLocaleStage>>
        \o (IF "Live" \in c THEN liveStages(c, m) ELSE payloadStages(c, m))

AnacondaFails(c) ==
    IF "Live" \in c THEN "Kickstart" \in c ELSE "SELinux" \in c

AnacondaInline(c) == IF "Live" \in c THEN {Inline("livesys")} ELSE {}

-----------------------------------------------------------------------------
(* CoreOSInstaller.                                                        *)
CoreOSBootPackages(c) ==
    {"base", "grub2-tools", "efibootmgr", "shim"}
        \union (IF "AARCH64" \in c THEN {} ELSE {"grub2-pc", "grub2-pc-modules", "syslinux"})
        \union (IF "Biosdevname" \in c THEN {"biosdevname"} ELSE {})

CoreOSBuildPackages(c) ==
    CoreOSBootPackages(c) \union {"rpm", "lorax-templates"}
        \union (IF "RPMKeys" \in c THEN {"pqrpm"} ELSE {})

CoreOSArchFails(c) == c \intersect {"S390X", "PPC64LE", "BadArch"} # {}

CoreOSStages(p, m) ==
    GenRPMStagesFromTransactions(p.name, m.in.version)
        \o <<NewBuildstampStage, NewLocaleStage>>
        \o When("FDOCerts" \in p.opts, <<NewFDOStageForRootCerts({Inline("FDOCerts")})>>)
        \o <<NewDracutStage(m.kernelVer)>>

(* The Ignition configuration too, which only the tree of the ISO uses.    *)
CoreOSInline(c) ==
    {Inline(n) : n \in c \intersect {"FDOCerts", "IgnitionConfig"}}

CoreOSISOTreeStages(p, coi, cm) ==
    <<NewCopyStage({p.of.tree}, {})>>
        \o When("IgnitionEmbedded" \in coi.opts, <<NewCopyStage({}, {Inline("IgnitionConfig")})>>)
        \o <<NewMkdirStage, NewTruncateStage, NewMkfsFATStage, NewCopyStage({p.of.efi}, {}),
             [NewCopyStage({coi.name}, {}) EXCEPT !.kernel = cm.kernelVer]>>
        \o When("ISOLinux" \in p.opts, <<NewISOLinuxStage({coi.name})>>)
        \o <<NewCopyStage({p.of.efi}, {})>>

-----------------------------------------------------------------------------
(* What an ISO boots with.  EFIBootTree is a pipeline; the others only     *)
(* give stages, and files, to the tree of the ISO.                         *)
EFIBootTreeFails(c) == c \intersect {"S390X", "PPC64LE", "BadArch"} # {}

EFIBootTreeStages == <<NewGrubISOStage>>

EFIGetISOBootStages(p) ==
    <<NewTruncateStage, NewMkfsFATStage, NewCopyStage({p.of.efi}, {}), NewCopyStage({p.of.efi}, {})>>

ISOLinuxGetISOBootStages(tree) == <<NewISOLinuxStage({tree})>>

Grub2X86GetISOBootStages == <<NewGrub2ISOLegacyStage, NewGrub2InstStage>>

PPC64Files == {PlainFile(Inline("bootinfo"))}

Grub2PPC64GetISOBootStages ==
    <<NewGrub2ISOLegacyStage, NewMkdirStage>> \o GenFileNodesStages(PPC64Files)

S390Files == {PlainFile(Inline("s390-config")), PlainFile(Inline("cdboot"))}

S390GetISOBootStages ==
    GenFileNodesStages({PlainFile(Inline("s390-config"))})
        \o GenFileNodesStages({PlainFile(Inline("cdboot"))})
        \o <<NewCreateaddrsizeStage, NewMkS390ImageStage>>

(* The loaders the image gave to the tree of the ISO, in order.            *)
BootloaderStages(p, tree) ==
    When("Syslinux" \in p.opts, ISOLinuxGetISOBootStages(tree))
        \o When("Grub2ISO" \in p.opts, Grub2X86GetISOBootStages)
        \o When("Grub2PPC" \in p.opts, Grub2PPC64GetISOBootStages)
        \o When("S390ISO" \in p.opts, S390GetISOBootStages)
        \o When("efi" \in DOMAIN p.of, EFIGetISOBootStages(p))

BootloaderFiles(c) ==
    (IF "Grub2PPC" \in c THEN PPC64Files ELSE {})
        \union (IF "S390ISO" \in c THEN S390Files ELSE {})

-----------------------------------------------------------------------------
(* AnacondaInstallerISOTree: a is the installer's pipeline, am its memory. *)
ISOTreeBuildPackages(p, a) ==
    LET c == p.opts
    IN  IF "Livefs" \in a.opts THEN {}
        ELSE {IF "Erofs" \in c THEN "erofs-utils" ELSE "squashfs-tools"}
               \union (IF "Grub2ISO" \in c THEN {"grub2-pc-modules"} ELSE {})
               \union (IF "ISOCommit" \in c THEN {"rpm-ostree"} ELSE {})
               \union (IF "ISOContainer" \in c THEN {"skopeo"} ELSE {})
               \union (IF "os" \in DOMAIN p.of THEN {"tar"} ELSE {})

ISOTreeStartFails(in) == Cardinality(in.commits) > 1 \/ Cardinality(in.containers) > 1

(* A payload installer has exactly one payload.                            *)
Payloads(p, m, am) ==
    (IF m.in.commits \union am.in.commits # {} THEN {"commit"} ELSE {})
        \union (IF m.in.containers # {} THEN {"container"} ELSE {})
        \union (IF "os" \in DOMAIN p.of THEN {"tree"} ELSE {})

(* The files of the tree: the boot loader's and those of the kickstart,    *)
(* all of which the last stage copies.                                     *)
KickstartFiles(p) ==
    BootloaderFiles(p.opts)
        \union (IF "UserFile" \in p.opts THEN {PlainFile(Inline("user-kickstart"))} ELSE {})
        \union (IF "subscription" \in DOMAIN p.of
                  THEN {PlainFile(Inline("subscription-readme"))} ELSE {})

makeKickstartStages(p) ==
    When("UserFile" \in p.opts, <<NewKickstartStage>>)
        \o <<NewKickstartStage>>
        \o When("subscription" \in DOMAIN p.of,
                <<NewMkdirStage, NewCopyStage({p.of.subscription}, {})>>)
        \o GenFileNodesStages(KickstartFiles(p))

(* The file of a bootc installation: the user's kickstart, or the options  *)
(* osbuild cannot write.                                                   *)
BootcKickstartFiles(p) ==
    BootloaderFiles(p.opts)
        \union {PlainFile(Inline(IF "UserFile" \in p.opts
                                   THEN "user-kickstart" ELSE "unattended-kickstart"))}

bootcInstallerKickstartStages(p) ==
    <<NewKickstartStage>> \o GenFileNodesStages(BootcKickstartFiles(p))

ISOTreeCommitStages(p, m) ==
    When("PayloadRootfs" \notin p.opts,
         <<NewOSTreeInitStage, NewOSTreePullStage({}, m.in.commits)>>)

ostreeContainerStages(p, m) ==
    <<NewMkdirStage, NewSkopeoStageWithOCI(NewContainersInput(m.in.containers))>>
        \o bootcInstallerKickstartStages(p)

tarPayloadStages(p) ==
    <<NewTarStage({p.of.os})>> \o When("Kickstart" \in p.opts, makeKickstartStages(p))

ISOTreePayloadStages(p, m, am) ==
    CASE "commit" \in Payloads(p, m, am) ->
           ISOTreeCommitStages(p, m) \o When("Kickstart" \in p.opts, makeKickstartStages(p))
      [] "container" \in Payloads(p, m, am) -> ostreeContainerStages(p, m)
      [] OTHER -> tarPayloadStages(p)

(* The paths of the kernel and of the initramfs are made from the kernel   *)
(* version once and kept in the installer's object.                        *)
ISOKernel(am) == IF am.kernelPath = 0 THEN am.kernelVer ELSE am.kernelPath

ISOTreeRootfsStage(p, a) ==
    IF "Erofs" \in p.opts THEN NewErofsStage({a.name})
    ELSE NewSquashfsStage(
                 {IF "SquashfsExt4" \in p.opts /\ "rootfs" \in DOMAIN p.of
                    THEN p.of.rootfs ELSE a.name})

ISOTreeStages(p, m, a, am) ==
    <<NewMkdirStage>>
        \o When("Live" \in a.opts, <<NewMkdirStage>>)
        \o <<[NewCopyStage({a.name}, {}) EXCEPT !.kernel = ISOKernel(am)],
             ISOTreeRootfsStage(p, a)>>
        \o BootloaderStages(p, a.name)
        \o When("Payload" \in a.opts, ISOTreePayloadStages(p, m, am))
        \o When({"Netinst", "Kickstart"} \subseteq (a.opts \union p.opts), makeKickstartStages(p))
        \o <<NewDiscinfoStage>>

(* The kickstart is validated again, and must be there for a commit whose  *)
(* kickstart is not among the interactive defaults and for a container.    *)
ISOTreeFails(p, m, a, am) ==
    \/ "Payload" \in a.opts
       /\ \/ Cardinality(Payloads(p, m, am)) # 1
          \/ Payloads(p, m, am) = {"commit"}
             /\ {"Kickstart", "InteractiveDefaults"} \intersect p.opts = {}
          \/ Payloads(p, m, am) = {"container"} /\ "Kickstart" \notin p.opts
    \/ "Live" \notin a.opts /\ {"Kickstart", "BadKickstart"} \subseteq p.opts

ISOTreeInline(p, a, stages) ==
    LET kickstart == \E i \in DOMAIN stages : stages[i].type = "kickstart"
        files == IF "ISOContainer" \in p.opts THEN BootcKickstartFiles(p) ELSE KickstartFiles(p)
    IN  {f.data : f \in IF kickstart THEN files ELSE BootloaderFiles(p.opts)}

-----------------------------------------------------------------------------
(* ISOTree: the ISO of a container; its kernel's paths are given.          *)
ContainerISOTreeFails(c) == "KernelPath" \notin c \/ "SquashfsExt4" \in c

ContainerISOTreeStages(p) ==
    LET tree == p.of.tree
    IN  <<NewMkdirStage, NewCopyStage({tree}, {}),
          IF "Erofs" \in p.opts THEN NewErofsStage({tree}) ELSE NewSquashfsStage({tree}),
          NewGrub2ISOLegacyStage, NewGrub2InstStage, NewTruncateStage, NewMkfsFATStage,
          NewCopyStage({p.of.efi}, {}), NewCopyStage({p.of.efi}, {}), NewDiscinfoStage>>

ISORootfsStages(p) ==
    <<NewMkdirStage, NewTruncateStage, NewMkfsExt4Stage, NewCopyStage({p.of.tree}, {})>>

(* ISO: the boot images xorrisofs is told of, by the type of boot.         *)
xorrisofsStageOptions(c) ==
    {TreeFile(n) : n \in
        CASE "Syslinux" \in c -> {"efiboot", "isolinux"}
          [] "Grub2ISO" \in c -> {"efiboot", "eltorito"}
          [] "Grub2PPC" \in c -> {}
          [] "S390ISO" \in c -> {"cdboot"}
          [] OTHER -> {"efiboot"}}

ISOStages(p) ==
    <<[NewXorrisofsStage({p.of.tree}) EXCEPT !.use = xorrisofsStageOptions(p.opts)],
      NewImplantisomd5Stage>>
=============================================================================
