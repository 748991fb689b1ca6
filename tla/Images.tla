------------------------------- MODULE Images -------------------------------
(***************************************************************************)
(* The image kinds of pkg/image: InstantiateManifest of each, as the       *)
(* sequence of the pipelines it creates, in the order they are created.    *)
(* An image is [kind, format, compression, opts]: opts holds the names of  *)
(* the options that are set, whatever part of the image they belong to.    *)
(***************************************************************************)
EXTENDS InstallerPipelines

(* of: the pipelines the object points to.  A build of "" is the host.     *)
Pipeline(kind, name, build, of, opts) ==
    [kind |-> kind, name |-> name, build |-> build, of |-> of, opts |-> opts]

Nothing == << >>

Tree(name) == [tree |-> name]

OSOpts(img) == img.opts \ {"Bootstrap", "Server", "BootContainer", "Erofs"}

-----------------------------------------------------------------------------
(* Mutant: the build root is created before the container it is built in.  *)
addBuildBootstrapPipelines_BuildFirst(img) ==
    <<Pipeline("buildroot", "build", IF "Bootstrap" \in img.opts THEN "bootstrap-buildroot" ELSE "",
               Nothing, {})>>
        \o When("Bootstrap" \in img.opts,
                <<Pipeline("buildroot-container", "bootstrap-buildroot", "", Nothing, {})>>)

(* The build root, perhaps itself built in a container.                    *)
addBuildBootstrapPipelines(img) ==
    IF "Bootstrap" \in img.opts
      THEN <<Pipeline("buildroot-container", "bootstrap-buildroot", "", Nothing, {"DisableSELinux"}),
             Pipeline("buildroot", "build", "bootstrap-buildroot", Nothing, {"DisableSELinux"})>>
      ELSE <<Pipeline("buildroot", "build", "", Nothing, {})>>

NewBuildFromContainer(opts) ==
    <<Pipeline("buildroot-container", "build", "", Nothing, opts)>>

GetCompressionPipelinePanics(img) == img.compression \notin {"", "xz", "zstd", "gzip"}

GetCompressionPipeline(img, input) ==
    When(img.compression # "",
         <<Pipeline(img.compression, img.compression, "build", Tree(input), {})>>)

newGCETarPipelineForImg(name) == <<Pipeline("tar", name, "build", Tree("image"), {})>>

OSOnly(img) == <<Pipeline("os", "os", "build", Nothing, OSOpts(img))>>

-----------------------------------------------------------------------------
Archive(img) ==
    addBuildBootstrapPipelines(img) \o OSOnly(img)
        \o <<Pipeline("tar", "archive", "build", Tree("os"), {})>>
        \o GetCompressionPipeline(img, "archive")

BaseContainer(img) ==
    addBuildBootstrapPipelines(img) \o OSOnly(img)
        \o <<Pipeline("container", "container", "build", Tree("os"), {})>>

(* The pipelines that turn the raw image into the image format.            *)
DiskFormat(format) ==
    LET From(kind, name, input) == Pipeline(kind, name, "build", Tree(input), {})
    IN  CASE format \in {"qcow2", "vmdk", "vpc"} -> <<From(format, format, "image")>>
          [] format = "vagrant-libvirt" ->
               <<From("qcow2", "qcow2", "image"), From("vagrant", "vagrant", "qcow2"),
                 From("tar", "archive", "vagrant")>>
          [] format = "vagrant-virtualbox" ->
               <<From("vmdk", "vmdk", "image"),
                 Pipeline("vagrant", "vagrant", "build", Tree("vmdk"), {"VirtualBox"}),
                 From("tar", "archive", "vagrant")>>
          [] format = "ova" ->
               <<From("vmdk", "vmdk", "image"), From("ovf", "ovf", "vmdk"),
                 From("tar", "archive", "ovf")>>
          [] format = "gce" -> newGCETarPipelineForImg("archive")
          [] OTHER -> << >>

DiskImage(img) ==
    LET made == addBuildBootstrapPipelines(img) \o OSOnly(img)
                  \o <<Pipeline("raw", "image", "build", Tree("os"), {})>>
                  \o DiskFormat(img.format)
    IN  made \o GetCompressionPipeline(img, Last(made).name)

PXETar(img) ==
    addBuildBootstrapPipelines(img)
        \o <<Pipeline("os", "os", "build", Nothing, OSOpts(img) \union {"KernelName", "DracutConf"}),
             Pipeline("pxe-tree", "pxe-tree", "build", Tree("os"), img.opts \intersect {"Erofs"}),
             Pipeline("tar", "tar", "build", Tree("pxe-tree"), {})>>
        \o GetCompressionPipeline(img, "tar")

-----------------------------------------------------------------------------
(* Bootable containers: when the container to build with is another one,   *)
(* the one to install is deployed too, for files to be copied from it.     *)
BootcBuild(img) ==
    IF "BuildContainer" \in img.opts
      THEN <<Pipeline("buildroot-container", "target", "", Nothing, {"EnsureDirs"}),
             Pipeline("buildroot-container", "build", "", [target |-> "target"],
                      {"EnsureDirs", "CopyFilesFrom"})>>
      ELSE NewBuildFromContainer({})

BootcRaw(img, opts) ==
    <<Pipeline("raw-bootc", "image", "build",
               IF "BuildContainer" \in img.opts THEN [target |-> "target"] ELSE Nothing, opts)>>

(* The conversions run in the context of the host.                         *)
BootcDiskImage(img) ==
    BootcBuild(img) \o BootcRaw(img, img.opts)
        \o <<Pipeline("qcow2", "qcow2", "", Tree("image"), {}),
             Pipeline("vmdk", "vmdk", "", Tree("image"), {}),
             Pipeline("vpc", "vpc", "", Tree("image"), {}),
             Pipeline("ovf", "ovf", "", Tree("vmdk"), {}),
             Pipeline("tar", "archive", "", Tree("ovf"), {})>>
        \o newGCETarPipelineForImg("gce")

BootcPXEImage(img) ==
    BootcBuild(img) \o BootcRaw(img, img.opts \union {"LiveBoot"})
        \o <<Pipeline("bootc-rootfs", "bootc-rootfs", "build", Tree("image"),
                      img.opts \intersect {"Erofs"}),
             Pipeline("bootc-pxe-tree", "bootc-pxe-tree", "build", Tree("bootc-rootfs"), {}),
             Pipeline("tar", "tar", "build", Tree("bootc-pxe-tree"), {})>>
        \o GetCompressionPipeline(img, "tar")

ContainerBasedIso(img) ==
    NewBuildFromContainer({})
        \o <<Pipeline("os-from-container", "os-tree", "build", Nothing,
                      img.opts \intersect {"PayloadContainer"}),
             Pipeline("efi-boot-tree", "efiboot-tree", "build", Nothing, img.opts),
             Pipeline("container-iso-tree", "bootiso-tree", "build",
                      [tree |-> "os-tree", efi |-> "efiboot-tree"], img.opts),
             Pipeline("iso", "bootiso", "build", Tree("bootiso-tree"), {"Grub2ISO"})>>

-----------------------------------------------------------------------------
baseRawOstreeImage(opts) ==
    <<Pipeline("ostree-deployment", "ostree-deployment", "build", Nothing, opts),
      Pipeline("raw-ostree", "image", "build", Tree("ostree-deployment"), {})>>

OSTreeDiskImage(img) ==
    <<Pipeline("buildroot", "build", "", Nothing, {})>>
        \o baseRawOstreeImage(img.opts)
        \o When(img.format \in {"vmdk", "qcow2"}, DiskFormat(img.format))
        \o GetCompressionPipeline(img, "image")

(* A compressed image that is not raw is refused with a panic.             *)
OSTreeDiskImagePanics(img) == img.format # "raw" /\ img.compression # ""

BootcLegacyDiskImage(img) ==
    NewBuildFromContainer({})
        \o baseRawOstreeImage((img.opts \intersect {"Users", "RootUser", "Groups", "BadPassword",
                                "PartitionTable", "FAT", "EXT4", "XFS", "LUKS", "UEFI", "BIOS",
                                "TreeBootFiles", "BuildBootFiles"})
                              \union {"FromContainer", "UseBootupd"})
        \o <<Pipeline("qcow2", "qcow2", "", Tree("image"), {}),
             Pipeline("vmdk", "vmdk", "", Tree("image"), {}),
             Pipeline("ovf", "ovf", "", Tree("vmdk"), {}),
             Pipeline("tar", "archive", "", Tree("ovf"), {})>>

OSTreeArchive(img) ==
    addBuildBootstrapPipelines(img)
        \o <<Pipeline("os", "os", "build", Nothing,
                      OSOpts(img) \union {"OSTreeRef"}
                        \union (IF "BootContainer" \in img.opts THEN {"Bootupd"} ELSE {})),
             Pipeline("ostree-commit", "ostree-commit", "build", Tree("os"), {}),
             IF "BootContainer" \in img.opts
               THEN Pipeline("ostree-encapsulate", "ostree-encapsulate", "build",
                             Tree("ostree-commit"), {})
               ELSE Pipeline("tar", "commit-archive", "build", Tree("ostree-commit"), {})>>

OSTreeContainer(img) ==
    addBuildBootstrapPipelines(img)
        \o <<Pipeline("os", "os", "build", Nothing, OSOpts(img) \union {"OSTreeRef"}),
             Pipeline("ostree-commit", "ostree-commit", "build", Tree("os"), {}),
             Pipeline("commit-server", "container-tree", "build", Tree("ostree-commit"), {}),
             Pipeline("container", "container", "build", Tree("container-tree"), {})>>

(* ISOLinux is enabled for x86_64; the type of boot the ISO is given was   *)
(* copied before the assignment that makes it syslinux.                    *)
OSTreeSimplifiedInstaller(img) ==
    LET arch == img.opts \intersect {"AARCH64", "S390X", "PPC64LE", "BadArch"}
        coi == {"KernelName"} \union arch
                 \union (img.opts \intersect {"FDOCerts", "IgnitionEmbedded", "IgnitionConfig", "RPMKeys",
                                              "KernelMissing", "Biosdevname"})
    IN  addBuildBootstrapPipelines(img)
        \o baseRawOstreeImage(img.opts)
        \o <<Pipeline("xz", "xz", "build", Tree("image"), {}),
             Pipeline("coi", "coi-tree", "build", Nothing, coi),
             Pipeline("efi-boot-tree", "efiboot-tree", "build", Nothing, arch),
             Pipeline("coi-iso-tree", "bootiso-tree", "build",
                      [tree |-> "xz", coi |-> "coi-tree", efi |-> "efiboot-tree"],
                      IF arch = {} THEN {"ISOLinux"} ELSE {}),
             Pipeline("iso", "bootiso", "build", Tree("bootiso-tree"),
                      img.opts \intersect {"Syslinux", "Grub2ISO"})>>

-----------------------------------------------------------------------------
(* The Anaconda installers.  Bootloaders adds a pipeline only for UEFI.    *)
BootTypes == {"Syslinux", "Grub2ISO", "Grub2PPC", "S390ISO"}

(* Mutant: only x86_64 boots with UEFI.                                    *)
UEFIBoot_NotARM(img) == img.opts \intersect {"Grub2PPC", "S390ISO", "AARCH64"} = {}

UEFIBoot(img) == img.opts \intersect {"Grub2PPC", "S390ISO"} = {}

Bootloaders(img) ==
    When(UEFIBoot(img), <<Pipeline("efi-boot-tree", "efiboot-tree", "build", Nothing, img.opts)>>)

ISORootfsImg(img) ==
    When("SquashfsExt4" \in img.opts,
         <<Pipeline("iso-rootfs", "rootfs-image", "build", Tree("anaconda-tree"), {})>>)

AnacondaTree(img, opts) ==
    <<Pipeline("anaconda", "anaconda-tree", "build", Nothing,
               (img.opts \ {"Kickstart", "SELinux"}) \union opts)>>

(* The pipelines the tree of an ISO may point to.                          *)
ISOTreeOf ==
    [anaconda |-> "anaconda-tree", efi |-> "efiboot-tree", rootfs |-> "rootfs-image",
     subscription |-> "subscription", os |-> "os"]

(* The tree of the ISO and the ISO; more are the payload's pipelines.      *)
ISOPipelines(img, more, opts) ==
    LET efi == IF UEFIBoot(img) THEN {"efi"} ELSE {}
        rootfs == IF "SquashfsExt4" \in img.opts THEN {"rootfs"} ELSE {}
        of == [role \in {"anaconda"} \union efi \union rootfs \union more |-> ISOTreeOf[role]]
    IN  <<Pipeline("anaconda-iso-tree", "bootiso-tree", "build", of, img.opts \union opts),
          Pipeline("iso", "bootiso", "build", Tree("bootiso-tree"), img.opts \intersect BootTypes)>>

AnacondaLiveInstaller(img) ==
    addBuildBootstrapPipelines(img)
        \o AnacondaTree(img, {"Live", "KernelName", "SELinux"})
        \o ISORootfsImg(img) \o Bootloaders(img)
        \o ISOPipelines(img, {}, {})

AnacondaNetInstaller(img) ==
    addBuildBootstrapPipelines(img)
        \o AnacondaTree(img, {"Netinst", "KernelName"})
        \o ISORootfsImg(img) \o Bootloaders(img)
        \o ISOPipelines(img, {}, {})

(* The commit goes into the root file system of the installer or onto the  *)
(* ISO, as the payload's location says.                                    *)
AnacondaOSTreeInstaller(img) ==
    LET inRootfs == "PayloadRootfs" \in img.opts
        subscription == "Subscription" \in img.opts
    IN  addBuildBootstrapPipelines(img)
        \o AnacondaTree(img, {"Payload", "KernelName"}
                               \union (IF inRootfs THEN {"AnacondaCommit"} ELSE {}))
        \o ISORootfsImg(img) \o Bootloaders(img)
        \o When(subscription,
                <<Pipeline("subscription", "subscription", "build", Nothing, img.opts)>>)
        \o ISOPipelines(img, IF subscription THEN {"subscription"} ELSE {},
                        IF inRootfs THEN {} ELSE {"ISOCommit"})

(* One of the two kickstarts must have the options of OSTree.              *)
AnacondaOSTreeInstallerFails(img) ==
    img.opts \intersect {"Kickstart", "InteractiveDefaults"} = {}

AnacondaTarInstaller(img) ==
    addBuildBootstrapPipelines(img)
        \o AnacondaTree(img, {"Payload", "KernelName"})
        \o ISORootfsImg(img) \o Bootloaders(img)
        \o <<Pipeline("os", "os", "build", Nothing, OSOpts(img))>>
        \o ISOPipelines(img, {"os"}, {"Kickstart"})

AnacondaContainerInstaller(img) ==
    NewBuildFromContainer({})
        \o AnacondaTree(img, {"Payload", "Livefs"})
        \o ISORootfsImg(img) \o Bootloaders(img)
        \o ISOPipelines(img, {}, {"Kickstart", "ISOContainer"})

AnacondaContainerInstallerLegacy(img) ==
    addBuildBootstrapPipelines(img)
        \o AnacondaTree(img, {"Payload", "KernelName"})
        \o ISORootfsImg(img) \o Bootloaders(img)
        \o ISOPipelines(img, {}, {"Kickstart", "ISOContainer"})

-----------------------------------------------------------------------------
(* The manifest of an image, and what makes it impossible to make one.     *)
InstantiateManifest(img) ==
    CASE img.kind = "archive" -> Archive(img)
      [] img.kind = "base-container" -> BaseContainer(img)
      [] img.kind = "disk" -> DiskImage(img)
      [] img.kind = "pxe-tar" -> PXETar(img)
      [] img.kind = "bootc-disk" -> BootcDiskImage(img)
      [] img.kind = "bootc-legacy-disk" -> BootcLegacyDiskImage(img)
      [] img.kind = "bootc-pxe" -> BootcPXEImage(img)
      [] img.kind = "container-based-iso" -> ContainerBasedIso(img)
      [] img.kind = "ostree-disk" -> OSTreeDiskImage(img)
      [] img.kind = "ostree-archive" -> OSTreeArchive(img)
      [] img.kind = "ostree-container" -> OSTreeContainer(img)
      [] img.kind = "simplified-installer" -> OSTreeSimplifiedInstaller(img)
      [] img.kind = "live-installer" -> AnacondaLiveInstaller(img)
      [] img.kind = "netinst" -> AnacondaNetInstaller(img)
      [] img.kind = "ostree-installer" -> AnacondaOSTreeInstaller(img)
      [] img.kind = "image-installer" -> AnacondaTarInstaller(img)
      [] img.kind = "bootc-installer" -> AnacondaContainerInstaller(img)
      [] OTHER -> AnacondaContainerInstallerLegacy(img)

InstantiateManifestFails(img) ==
    \/ img.kind = "ostree-installer" /\ AnacondaOSTreeInstallerFails(img)
    \/ img.kind = "ostree-container" /\ "Server" \notin img.opts

(* The kinds of image that may be compressed.                              *)
Compressed == {"archive", "disk", "pxe-tar", "bootc-pxe", "ostree-disk"}

InstantiateManifestPanics(img) ==
    \/ img.kind = "ostree-disk" /\ OSTreeDiskImagePanics(img)
    \/ img.kind \in Compressed /\ GetCompressionPipelinePanics(img)
=============================================================================
