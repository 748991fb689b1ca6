----------------------------- MODULE StageTypes -----------------------------
(***************************************************************************)
(* The stages osbuild runs, one constructor of pkg/osbuild/*_stage.go      *)
(* each.  A stage keeps what the rest of the manifest can tell apart: its  *)
(* type (without the prefix org.osbuild), the pipelines whose trees it     *)
(* reads, the content it takes from the sources of the manifest and the    *)
(* kernel version written into its options.  The options themselves are    *)
(* abstracted to where the code looks at whether they are valid: nowhere,  *)
(* in the constructor, which panics, or in MarshalJSON.                    *)
(***************************************************************************)
EXTENDS Naturals, Sequences, FiniteSets, SequencesExt

(* A kernel version is the number of the depsolve that found it; 0 is the  *)
(* empty string and NoKernel a stage that names no kernel.                 *)
NoKernel == 99

Stage(t) == [type |-> t, in |-> {}, use |-> {}, kernel |-> NoKernel, validated |-> "never"]

Checked(t) == [Stage(t) EXCEPT !.validated = "made"]

Encoded(t) == [Stage(t) EXCEPT !.validated = "encoded"]

Reading(t, trees) == [Stage(t) EXCEPT !.in = trees]

Using(t, content) == [Stage(t) EXCEPT !.use = content]

ForKernel(t, version) == [Stage(t) EXCEPT !.kernel = version]

-----------------------------------------------------------------------------
(* The file system of a tree.                                              *)
NewChmodStage == Stage("chmod")

NewChownStage == Checked("chown")

NewCopyStage(trees, content) == [Reading("copy", trees) EXCEPT !.use = content]

NewMkdirStage == Stage("mkdir")

NewTruncateStage == Stage("truncate")

NewTmpfilesdStage == Encoded("tmpfilesd")

-----------------------------------------------------------------------------
(* Packages.                                                               *)
NewRPMStage(content) == Using("rpm", content)

NewDNF4VersionlockStage == Checked("dnf4.versionlock")

NewDNFAutomaticConfigStage == Checked("dnf-automatic.config")

NewDNFConfigStage == Checked("dnf.config")

NewDNFModuleConfigStage == Checked("dnf.module-config")

NewYumConfigStage == Checked("yum.config")

NewYumReposStage == Checked("yum.repos")

-----------------------------------------------------------------------------
(* The configuration of a system.                                          *)
NewAuthconfigStage == Stage("authconfig")

NewAuthselectStage == Stage("authselect")

NewChronyStage == Checked("chrony")

NewCloudInitStage == Checked("cloud-init")

NewFirewallStage == Stage("firewall")

NewGcpGuestAgentConfigStage == Checked("gcp.guest-agent.conf")

NewHostnameStage == Stage("hostname")

NewInsightsClientConfigStage == Stage("insights-client.config")

NewKeymapStage == Encoded("keymap")

NewLocaleStage == Stage("locale")

NewMachineIdStage == Stage("machine-id")

NewModprobeStage == Checked("modprobe")

NewNMConfStage == Stage("nm.conf")

NewPamLimitsConfStage == Encoded("pam.limits.conf")

NewPwqualityConfStage == Stage("pwquality.conf")

NewRHSMFactsStage == Stage("rhsm.facts")

NewRHSMStage == Stage("rhsm")

NewSELinuxConfigStage == Stage("selinux.config")

NewShellInitStage == Checked("shell.init")

NewSshdConfigStage == Checked("sshd.config")

NewSysconfigStage == Stage("sysconfig")

NewSysctldStage == Encoded("sysctld")

NewTimezoneStage == Stage("timezone")

NewTunedStage == Encoded("tuned")

NewUdevRulesStage == Checked("udev.rules")

NewWAAgentConfStage == Stage("waagent.conf")

NewWSLConfStage == Stage("wsl.conf")

NewWSLDistributionConfStage == Stage("wsl-distribution.conf")

-----------------------------------------------------------------------------
(* Users, units and first boot.                                            *)
NewUsersStage == Stage("users")

NewGroupsStage == Stage("groups")

NewFirstBootStage == Stage("first-boot")

NewIgnitionStage == Stage("ignition")

NewSystemdJournaldStage == Checked("systemd-journald")

NewSystemdLogindStage == Encoded("systemd-logind")

NewSystemdPresetStage == Checked("systemd.preset")

NewSystemdStage == Stage("systemd")

NewSystemdUnitCreateStage == Checked("systemd.unit.create")

NewSystemdUnitStage == Checked("systemd.unit")

-----------------------------------------------------------------------------
(* Hardening and labels.                                                   *)
NewOscapAutotailorStage == Checked("oscap.autotailor")

NewOscapRemediationStage == Checked("oscap.remediation")

NewUpdateCATrustStage == Stage("pki.update-ca-trust")

NewUpdateCryptoPoliciesStage == Stage("update-crypto-policies")

NewSELinuxStage == Stage("selinux")

-----------------------------------------------------------------------------
(* Containers and flatpaks.                                                *)
NewBootcInstallConfigStage == Stage("bootc.install.config")

NewBootcInstallToFilesystemStage(content) == Using("bootc.install-to-filesystem", content)

NewContainerDeployStage(content) == Using("container-deploy", content)

NewContainersStorageConfStage == Checked("containers.storage.conf")

NewSkopeoStageWithContainersStorage(images, manifests) ==
    Using("skopeo", images \union manifests)

NewSkopeoStageWithOCI(images) == Using("skopeo", images)

NewFlatpakBuildImportOCIStage(content) == Using("flatpak.build-import-bundle.oci", content)

-----------------------------------------------------------------------------
(* OSTree.                                                                 *)
NewOSTreeCommitStage(trees) == Reading("ostree.commit", trees)

NewOSTreeConfigStage == Stage("ostree.config")

NewOSTreeDeployContainerStage(content) == [Checked("ostree.deploy.container") EXCEPT !.use = content]

NewOSTreeDeployStage == Encoded("ostree.deploy")

NewOSTreeEncapsulateStage(trees) == Reading("ostree.encapsulate", trees)

NewOSTreeFillvarStage == Stage("ostree.fillvar")

NewOSTreeGrub2MountsStage == Stage("ostree.grub2")

OSTreeInitFsStage == Stage("ostree.init-fs")

NewOSTreeInitStage == Stage("ostree.init")

NewOSTreeOsInitStage == Stage("ostree.os-init")

NewOSTreePasswdStage(content) == Using("ostree.passwd", content)

NewOSTreePrepTreeStage == Stage("ostree.preptree")

NewOSTreePullStage(trees, content) ==
    [Reading("ostree.pull", trees) EXCEPT !.use = content]

NewOSTreeRemotesStage == Stage("ostree.remotes")

NewOSTreeSelinuxStage == Stage("ostree.selinux")

-----------------------------------------------------------------------------
(* Disks, file systems and mounts.                                         *)
NewBtrfsSubVol == Stage("btrfs.subvol")

NewClevisLuksBindStage == Stage("clevis.luks-bind")

NewFSTabStage == Stage("fstab")

NewLUKS2CreateStage == Checked("luks2.format")

NewLUKS2RemoveKeyStage == Stage("luks2.remove-key")

NewLVM2CreateStage == Checked("lvm2.create")

NewLVM2MetadataStage == Checked("lvm2.metadata")

NewMkfsBtrfsStage == Stage("mkfs.btrfs")

NewMkfsExt4Stage == Stage("mkfs.ext4")

NewMkfsFATStage == Stage("mkfs.fat")

NewMkfsXfsStage == Stage("mkfs.xfs")

NewMkswapStage == Stage("mkswap")

NewSfdiskStage == Checked("sfdisk")

NewSgdiskStage == Stage("sgdisk")

NewWriteDeviceStage(trees) == Reading("write-device", trees)

-----------------------------------------------------------------------------
(* Kernels and boot loaders.                                               *)
NewDracutConfStage == Encoded("dracut.conf")

NewDracutStage(version) == ForKernel("dracut", version)

NewFixBLSStage == Stage("fix-bls")

NewGRUB2Stage(version) == ForKernel("grub2", version)

NewGrub2DStage == Stage("grub2.d")

NewGrub2InstStage == Encoded("grub2.inst")

NewGrub2ISOLegacyStage == Checked("grub2.iso.legacy")

NewGrub2LegacyStage(version) == [Checked("grub2.legacy") EXCEPT !.kernel = version]

NewGrubISOStage == Checked("grub2.iso")

NewHMACStage(version) == ForKernel("hmac", version)

NewKernelCmdlineStage == Stage("kernel-cmdline")

NewZiplInstStage(version) == ForKernel("zipl.inst", version)

NewZiplStage == Stage("zipl")

NewBootctlInstallRootStage == Stage("bootctl.install.root")

NewBootupdGenMetadataStage == Stage("bootupd.gen-metadata")

NewBootupdStage == Stage("bootupd")

-----------------------------------------------------------------------------
(* Installation media.                                                     *)
NewAnacondaStage == Stage("anaconda")

NewBuildstampStage == Stage("buildstamp")

NewCreateaddrsizeStage == Stage("createaddrsize")

NewDiscinfoStage == Stage("discinfo")

NewErofsStage(trees) == Reading("erofs", trees)

NewFDOStageForRootCerts(content) == Using("fdo", content)

NewImplantisomd5Stage == Stage("implantisomd5")

NewISOLinuxStage(trees) == Reading("isolinux", trees)

NewKickstartStage == Stage("kickstart")

NewLoraxScriptStage == Stage("lorax-script")

NewMkS390ImageStage == Stage("mks390image")

NewSquashfsStage(trees) == Reading("squashfs", trees)

NewXorrisofsStage(trees) == Reading("xorrisofs", trees)

-----------------------------------------------------------------------------
(* Images and archives.                                                    *)
NewQEMUStage(trees) == [Encoded("qemu") EXCEPT !.in = trees]

NewOVFStage == Checked("ovf")

NewVagrantStage(trees) == [Checked("vagrant") EXCEPT !.in = trees]

NewTarStage(trees) == [Checked("tar") EXCEPT !.in = trees]

NewOCIArchiveStage(trees) == Reading("oci-archive", trees)

NewGzipStage(trees) == Reading("gzip", trees)

NewXzStage(trees) == Reading("xz", trees)

NewZstdStage(trees) == Reading("zstd", trees)

NewNginxConfigStage == Stage("nginx.conf")
=============================================================================
