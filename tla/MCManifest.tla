----------------------------- MODULE MCManifest -----------------------------
(***************************************************************************)
(* The images to make manifests of.  Each kind has the options it always   *)
(* comes with, a set of options that can be combined, tried each alone,    *)
(* all together and all but one, and options tried only alone: those that  *)
(* make a step fail and those that exclude others.                         *)
(*                                                                         *)
(* The image types to make requests of are those of data/distrodefs, with  *)
(* the options their blueprints support, one for each image function.      *)
(***************************************************************************)
EXTENDS Manifest

Of(kind, optionSets) ==
    {[kind |-> kind, format |-> "raw", compression |-> "", opts |-> o] : o \in optionSets}

Variants(base, features) ==
    {base, base \union features} \union {base \union {f} : f \in features}
        \union {base \union (features \ {f}) : f \in features}

Alone(base, options) == {base \union {o} : o \in options}

OSFeatures ==
    {"Users", "Groups", "LockRootUser", "CloudInit", "Firstboot", "FirstbootCerts", "SystemdUnit",
     "DNFConfig", "WSLConfig", "Subscription", "Rhc", "Insights", "Containers", "ContainersStorage",
     "ManifestList", "OpenSCAP", "Tailoring", "Modules", "Directories", "Files", "FIPS", "CACerts",
     "VersionlockPackages", "SELinux", "EnabledServices", "DracutConf", "Firewall", "ChronyConfig"}

(* Options that each add a stage and nothing else.                         *)
OSSimple ==
    {"Language", "Keyboard", "Hostname", "Timezone", "Sysconfig", "SystemdLogind", "Modprobe", "SystemdDropin",
     "Authselect", "SELinuxConfig", "Tuned", "Tmpfilesd", "PamLimitsConf", "Sysctld", "DNFAutomaticConfig",
     "YUMRepos", "YUMConfig", "GCPGuestAgentConfig", "SshdConfig", "InsightsClientConfig", "NetworkManager",
     "AuthConfig", "PwQuality", "RHSMConfig", "WAAgentConfig", "UdevRules", "RHSMFacts", "DisabledServices",
     "MaskedServices", "DefaultTarget", "Environment", "ShellInit", "WSLDistributionConfig", "Presets",
     "MachineIdUninitialized"}

OSAlone ==
    {"UriFiles", "EL8", "NoBLS", "NoGPGKeys", "Bootupd", "Bootstrap", "RPMKeys"}

OSBad ==
    {{"KernelName", "KernelMissing"}, {"Users", "BadPassword"}, {"Subscription", "BadProxy"},
     {"CACerts", "BadCert"}, {"VersionlockPackages", "VersionlockMissing"},
     {"Containers", "ContainersStorage", "EL7"}, {"Containers", "WrongArchContainer"},
     {"Containers", "ContainersStorage", "EL9"},
     {"Containers", "LocalContainer", "LocalList"}, {"Containers", "OnlyLocal", "LocalList"},
     {"Containers", "LocalContainer", "ManifestList"}, {"Bootstrap", "KernelName", "KernelMissing"}}

(* Options that the constructor of a stage or the encoding of it refuses.  *)
OSInvalid == Alone({"InvalidOptions"}, {"ChronyConfig", "Modprobe", "Tuned", "Keyboard", "SystemdUnit"})

Trees ==
    Variants({}, OSFeatures) \union Alone({}, OSAlone) \union OSBad \union OSInvalid
        \union {OSSimple, OSSimple \union OSFeatures} \union {{f, g} : f, g \in OSFeatures}

Disk == {"PartitionTable", "KernelName", "UEFI", "FAT", "EXT4", "SELinux"}

DiskFeatures == {"LVM", "LUKS", "Clevis", "RemovePassphrase", "Btrfs", "XFS", "Swap", "Raw", "Sgdisk",
                 "Hostonly", "FIPS", "MountUnits", "KernelOptionsBootloader"}

Disks ==
    Variants(Disk \union {"GRUB2", "BIOS"}, DiskFeatures)
    \union Alone(Disk \union {"GRUB2"}, {"NoBLS", "MountNone", "TreeBootFiles", "BuildBootFiles", "UriFiles",
                                        "KernelMissing", "Bootstrap"})
    \union Variants(Disk \union {"UKI"}, {"OldUKIDirect", "DracutConf"})
    \union Alone(Disk, {"ZIPL", "SYSTEMD"}) \union {{"PartitionTable", "ZIPL", "S390X", "KernelName", "EXT4"}}
    \union {{"PartitionTable", "UKI", "KernelName"}, {"PartitionTable", "SYSTEMD", "KernelName"},
            Disk \union {"UKI", "NoUKIArch"}, {"KernelName"}}

DiskFormats ==
    {[kind |-> k, format |-> f, compression |-> c, opts |-> Disk \union {"GRUB2"}] :
        k \in {"disk", "ostree-disk"},
        f \in {"raw", "qcow2", "vmdk", "vpc", "vagrant-libvirt", "vagrant-virtualbox", "ova", "gce"},
        c \in {"", "xz", "zstd", "gzip", "bzip2"}}

Bootc == {"PartitionTable", "UEFI", "FAT", "XFS", "KernelVersion"}

BootcFeatures == {"Users", "Groups", "Subscription", "Rhc", "Directories", "Files", "Ignition",
                  "Grub2Config", "SELinux", "BuildContainer", "MountUnits"}

BootcDisks ==
    Variants(Bootc, BootcFeatures)
    \union Alone(Bootc, {"UnifiedKernel", "LUKS", "UriFiles", "LocalBootc", "WrongArchContainer", "Raw"})
    \union {Bootc \union {"Users", "BadPassword"}, Bootc \ {"FAT"}, Bootc \ {"PartitionTable"}}
    \union Variants(Bootc \union {"Ignition", "NoProvisioningURL"}, {"EmptyFirstboot", "Users"})

Deployments ==
    Variants(Disk \union {"RemoteURL"},
             {"Users", "Groups", "LockRootUser", "RootUser", "Ignition", "CustomFileSystems", "FIPS",
              "Directories", "Files", "EnabledServices", "BIOS", "LUKS", "LVM"})
    \union Alone(Disk, {"UriFiles", "UseBootupd", "TreeBootFiles", "BuildBootFiles", "BadMountpoint"})
    \union {Disk \union {"Users", "BadPassword"}, Disk \ {"PartitionTable"}}

(* The type of boot of an ISO, by the architecture of the distributions'   *)
(* definitions.                                                            *)
ISOBoots == {{"Syslinux"}, {"Grub2ISO"}, {"AARCH64"}, {"Grub2PPC", "PPC64LE"}, {"S390ISO", "S390X"}}

InstallerAlone == {"SquashfsExt4", "Erofs", "LoraxPackage", "LoraxTemplates", "LoraxDeferred",
                   "RPMKeys", "Biosdevname", "KernelMissing", "BadArch", "Bootstrap"}

Installers(more) ==
    {b \union more : b \in ISOBoots} \union Alone({"Grub2ISO"} \union more, InstallerAlone)
        \union Alone({"Syslinux"} \union more, InstallerAlone)

MCImages ==
    Of("archive", Trees) \union Of("base-container", Alone({}, {"SELinux", "Users", "Files"}))
    \union Of("disk", Disks) \union DiskFormats
    \union {[kind |-> k, format |-> "raw", compression |-> c, opts |-> {"KernelVersion", "PartitionTable",
              "UEFI", "FAT", "XFS"} \union e] :
              k \in {"pxe-tar", "bootc-pxe"}, c \in {"", "xz"}, e \in {{}, {"Erofs"}, {"KernelMissing"}}}
    \union Of("bootc-disk", BootcDisks)
    \union Of("bootc-pxe", {Bootc \ {"KernelVersion"}, Bootc \union {"BuildContainer"}})
    \union Of("bootc-legacy-disk", Variants(Bootc, {"Users", "Groups", "BIOS"})
                                     \union Alone(Bootc, {"LUKS", "TreeBootFiles"})
                                     \union {Bootc \union {"Users", "BadPassword"}})
    \union Of("container-based-iso",
              Variants({"KernelPath"}, {"PayloadContainer", "Erofs"}) \union {{}, {"KernelPath", "PPC64LE"}})
    \union Of("ostree-disk", Deployments)
    \union Of("ostree-archive",
              Variants({"KernelName"}, {"OSTreeParent", "Users", "Subscription", "Rhc", "BootContainer",
                                        "BootcConfig", "SELinux", "Containers"})
              \union {{"KernelName", "KernelMissing"}})
    \union Of("ostree-container", Variants({"Server", "KernelName"}, {"OSTreeParent", "Users"}) \union {{}})
    \union Of("simplified-installer",
              Variants(Disk \union {"Syslinux"}, {"FDOCerts", "IgnitionEmbedded", "IgnitionConfig", "RPMKeys"})
              \union Alone(Disk, {"AARCH64", "S390X", "BadArch"}) \union {Disk \union {"Syslinux", "KernelMissing"}})
    \union Of("live-installer", Installers({}))
    \union Of("netinst", Installers({}) \union Installers({"Kickstart"})
                           \union {{"Grub2ISO", "Kickstart", "BadKickstart"}})
    \union Of("ostree-installer",
              Installers({"Kickstart"})
              \union Variants({"Grub2ISO", "PayloadRootfs", "InteractiveDefaults"},
                              {"Kickstart", "Flatpaks", "Subscription", "UserFile"})
              \union Variants({"Syslinux", "Kickstart"}, {"Subscription", "Rhc", "UserFile"}) \union {{"Grub2ISO"}})
    \union Of("image-installer", Installers({}) \union Variants({"Grub2ISO"}, {"UserFile", "Users", "SELinux"}))
    \union Of("bootc-installer", Installers({}) \union Alone({"Grub2ISO"}, {"UserFile", "LocalBootc"}))
    \union Of("container-installer", Installers({}) \union Alone({"Grub2ISO"}, {"UserFile"}))

-----------------------------------------------------------------------------
NoDefs == [base |-> << >>, conditions |-> {}]

Rhel(minor) == [name |-> "rhel", major |-> 9, minor |-> minor]

PlainType ==
    [flags |-> {}, idLike |-> "EL9", id |-> Rhel(6), arch |-> "x86_64", modes |-> {}, format |-> "raw",
     compression |-> "", layout |-> {}, config |-> NoDefs, distro |-> NoDefs, iso |-> NoDefs,
     installer |-> {}, disk |-> {}, supported |-> {}, required |-> {}]

ImageType(image, fields) == fields @@ [image |-> image] @@ PlainType

Sections(names) == {<<n>> : n \in names}

TreeOptions ==
    Sections({"packages", "enabled_modules", "containers", "cacerts", "directories", "files", "firewall",
              "firstboot", "user", "group", "hostname", "locale", "repositories", "services", "timezone"})

DiskOptions ==
    TreeOptions \union Sections({"disk", "dnf", "filesystem", "fips", "kernel", "openscap", "rpm", "rhsm", "sshd"})

CommitOptions == TreeOptions \union Sections({"dnf", "fips", "rhsm"}) \union {<<"kernel", "name">>}

OSTreeDiskOptions ==
    Sections({"cacerts", "files", "directories", "disk", "dnf", "filesystem", "firstboot", "fips", "user",
              "group", "locale", "services"}) \union {<<"kernel", "append">>}

DistroConfig ==
    [base |-> [Timezone |-> {"distro"}, Locale |-> {"distro"}, Sysconfig |-> {"distro"}, Hostonly |-> {"distro"}],
     conditions |-> {}]

On(when, fields, name) == [when |-> when, merge |-> [f \in fields |-> {name}]]

Base(fields) == [f \in fields |-> {"type"}]

(* azure, by version: the command line of x86_64, and chrony.              *)
AzureConfig ==
    [base |-> Base({"EnabledServices", "WAAgentConfig", "CloudInit", "SshdConfig", "UdevRules"}),
     conditions |->
        {On([distro_name |-> "rhel"], {"GPGKeyFiles"}, "rhel"),
         On([arch |-> "x86_64", version_greater_or_equal |-> 9008], {"KernelOptions"}, "from 9.8"),
         On([arch |-> "x86_64", version_equal |-> 9007], {"KernelOptions"}, "9.7"),
         On([arch |-> "x86_64", version_less_than |-> 9007], {"KernelOptions"}, "before 9.7"),
         On([version_greater_or_equal |-> 9006], {"TimeSynchronization"}, "from 9.6")}]

EC2Config ==
    [base |-> Base({"EnabledServices", "Authselect", "SshdConfig", "CloudInit", "Timezone"}),
     conditions |->
        {On([arch |-> "x86_64"], {"DracutConf"}, "nvme"), On([arch |-> "x86_64"], {"KernelOptions"}, "x86_64"),
         On([arch |-> "aarch64"], {"KernelOptions"}, "aarch64")}]

GCEConfig ==
    [base |-> Base({"KernelOptions", "MaskedServices", "DNFConfig", "DNFOptions", "DNFAutomaticConfig", "YUMRepos",
                    "SshdConfig", "DefaultKernelName", "Locale", "Keyboard", "TimeSynchronization"}),
     conditions |-> {}]

(* The configuration of the types for SAP.                                 *)
SAPConfig == [base |-> Base({"SELinuxConfig", "Tuned", "DNFConfig", "SetReleaseverVar"}), conditions |-> {}]

QCOW2Config ==
    [base |-> Base({"DefaultTarget", "KernelOptions"}),
     conditions |-> {On([distro_name |-> "rhel"], {"RHSMConfigNoSubscription"}, "rhel"),
                     On([distro_name |-> "ol"], {"Hostonly"}, "ol")}]

DiskType(config, id, arch) ==
    ImageType("disk", [flags |-> {"Bootable", "PartitionTables"}, layout |-> {"UEFI", "FAT", "EXT4", "GRUB2"},
                       config |-> config, distro |-> DistroConfig, id |-> id, arch |-> arch,
                       disk |-> {"PartTool"}, supported |-> DiskOptions])

EdgeType(image, flags, supported) ==
    ImageType(image, [flags |-> {"OSTree", "Bootable", "PartitionTables", "DefaultRef", "UseOstreeRemotes"} \union flags,
                      layout |-> {"UEFI", "FAT", "EXT4", "GRUB2"}, supported |-> supported, distro |-> DistroConfig,
                      config |-> [base |-> Base({"Keyboard", "KernelOptions", "LockRootUser", "IgnitionPlatform",
                                                 "IgnitionMetal"}),
                                  conditions |-> {}]])

(* RHEL 9 uses Ignition from 9.2 on: a disk is configured for it and no    *)
(* longer so before, a simplified installer is only configured from then.  *)
EdgeDiskConfig ==
    [base |-> Base({"Keyboard", "KernelOptions", "LockRootUser", "IgnitionPlatform", "IgnitionMetal"}),
     conditions |-> {[when |-> [version_less_than |-> 9002],
                      merge |-> [IgnitionPlatform |-> {}, IgnitionMetal |-> {}, KernelOptions |-> {"before 9.2"}]]}]

EdgeInstallerConfig ==
    [base |-> Base({"EnabledServices", "Keyboard", "Locale", "LockRootUser"}),
     conditions |-> {On([version_greater_or_equal |-> 9002],
                        {"OSTreeConfSysrootReadOnly", "IgnitionPlatform", "IgnitionMetal", "KernelOptions"}, "from 9.2")}]

(* The platform of iot-qcow2 is "qemu".                                    *)
QemuConfig == [base |-> Base({"LockRootUser", "IgnitionPlatform"}), conditions |-> {}]

ISODefs ==
    [base |-> << >>,
     conditions |->
        {[when |-> [arch |-> "x86_64"], merge |-> [BootType |-> "Syslinux"]],
         [when |-> [arch |-> "ppc64le"], merge |-> [BootType |-> "Grub2PPC"]],
         [when |-> [arch |-> "s390x"], merge |-> [BootType |-> "S390ISO"]]}]

InstallerType(image, arch, flags, supported) ==
    ImageType(image, [flags |-> {"BootISO", "ISOLabel"} \union flags, iso |-> ISODefs, arch |-> arch,
                      installer |-> {"Modules"}, distro |-> DistroConfig, supported |-> supported])

BootcType(image, flags, supported) ==
    ImageType(image, [flags |-> {"Imgref", "KernelInfo", "LiveModules", "KnownDistro", "InstallerDefs",
                                 "PartitionTables"} \union flags,
                      layout |-> {"FAT", "XFS", "KernelVersion"}, supported |-> supported, idLike |-> "BOOTC",
                      config |-> [base |-> Base({"KernelOptions"}), conditions |-> {}]])

BootcISOOptions == Sections({"fips", "group", "installer", "user"}) \union {<<"kernel", "append">>}

-----------------------------------------------------------------------------
Request(t, bp) == [type |-> t, bp |-> bp, options |-> {}, mode |-> "", bad |-> {}]

Asked(t, bps, options) == {<<[Request(t, bp) EXCEPT !.options = options]>> : bp \in bps}

Spoiled(t, bp, inputs, options) ==
    {<<[Request(t, bp) EXCEPT !.options = options, !.bad = {i}]>> : i \in inputs}

FirstBoot == {<<"ignition", "firstboot">>}

EmptyFirstBoot == FirstBoot \union {<<"ignition", "firstboot", "empty">>}

TreeParts ==
    Sections({"packages", "enabled_modules", "containers", "cacerts", "directories", "files", "firewall",
              "firstboot", "user", "group", "hostname", "repositories"})
    \union {<<"locale", "languages">>, <<"locale", "keyboard">>, <<"services", "enabled">>,
            <<"services", "disabled">>, <<"services", "masked">>, <<"timezone", "timezone">>,
            <<"timezone", "ntpservers">>}

DiskParts ==
    TreeParts \union Sections({"dnf", "fips", "openscap", "rpm", "rhsm", "sshd"})
        \union {<<"kernel", "append">>, <<"kernel", "name">>}

EdgeParts ==
    Sections({"cacerts", "files", "directories", "dnf", "firstboot", "fips", "user", "group"})
        \union {<<"kernel", "append">>, <<"locale", "languages">>, <<"services", "enabled">>}

InstallerParts == {<<"installer", "modules">>, <<"installer", "unattended">>, <<"installer", "flatpaks">>}

Remote == {"OSTree", "OSTreeURL"}

Gce == DiskType(GCEConfig, Rhel(6), "x86_64")

DiskRequests ==
    Asked(DiskType(QCOW2Config, Rhel(6), "x86_64"), Variants({}, DiskParts), {"HostFIPS"})
    \union Asked(Gce, Variants({<<"disk">>}, {<<"sshd">>, <<"dnf">>, <<"kernel", "name">>}), {"Size"})
    \union UNION {Asked(DiskType(AzureConfig, Rhel(v), "x86_64"), {{}, {<<"kernel", "append">>, <<"filesystem">>}},
                        {"Subscription", "Proxy", "Rhc", "Insights", "Facts"}) : v \in {4, 6, 7, 8}}
    \union UNION {Asked(DiskType(EC2Config, Rhel(6), a), {{<<"sshd">>, <<"fips">>}}, {}) : a \in {"x86_64", "aarch64"}}
    \union Asked(DiskType(SAPConfig, Rhel(6), "x86_64"), {{}, {<<"dnf">>}}, {"UseBootstrapContainer"})
    \union Asked([Gce EXCEPT !.flags = @ \ {"PartitionTables"}], {{}}, {})

(* Calls that follow one another: what the first writes, the second reads. *)
AgainRequests ==
    {<<[Request(t, a) EXCEPT !.options = {"Size"}], Request(t, b)>> :
        t \in {Gce, DiskType(EC2Config, Rhel(6), "x86_64"), DiskType(SAPConfig, Rhel(6), "x86_64")},
        a \in {{<<"sshd">>, <<"dnf">>, <<"kernel", "append">>, <<"services", "enabled">>}, {<<"disk">>}},
        b \in {{}, {<<"disk">>}, {<<"services", "enabled">>}}}

BadRequests ==
    Spoiled(Gce, {<<"firstboot">>}, {"BadFirstboot"}, {}) \union Spoiled(Gce, {<<"openscap">>}, {"BadTailoring", "BadProfile"}, {})
    \union Spoiled(Gce, {<<"cacerts">>, <<"firewall">>}, {"BadCert", "UnnamedZone"}, {})
    \union Spoiled(Gce, {<<"hostname">>}, {"BadCert", "UnnamedZone"}, {})
    \union Spoiled(Gce, {<<"disk">>}, {"BadDisk", "BadMountpoint"}, {})
    \union Spoiled(Gce, {<<"files">>, <<"repositories">>, <<"group">>}, {"BadPath", "BadRepository", "BadGroup"}, {})
    \union Asked(Gce, {{<<"disk">>, <<"filesystem">>}}, {}) \union Asked(Gce, {{}}, Remote)
    \union Asked(DiskType(QCOW2Config, Rhel(0), "x86_64"), {{<<"openscap">>}}, {})
    \union UNION {Asked([DiskType(QCOW2Config, [name |-> "rhel", major |-> 8, minor |-> m], "aarch64") EXCEPT !.idLike = "EL8"],
                        {{<<"openscap">>}, {<<"disk", "swap">>}}, {}) : m \in {6, 7, 10}}

TreeRequests ==
    Asked(ImageType("tar", [supported |-> TreeOptions \union Sections({"dnf", "rhsm"}), distro |-> DistroConfig,
                            config |-> [base |-> Base({"WSLConfig", "NoSELinux"}), conditions |-> {}]]),
          Variants({}, TreeParts), {})
    \union Asked(ImageType("container", [supported |-> TreeOptions]), Variants({}, TreeParts), {})
    \union Asked(ImageType("pxe_tar", [flags |-> {"Bootable"}, compression |-> "xz", layout |-> {},
                                       supported |-> DiskOptions \ Sections({"disk", "filesystem", "dnf", "sshd"})]),
                 {{}, {<<"kernel", "append">>, <<"rpm">>, <<"rhsm">>}, {<<"dnf">>, <<"disk">>}}, {})

EdgeRequests ==
    UNION {Asked(ImageType(f, [flags |-> {"OSTree", "DefaultRef"}, supported |-> CommitOptions,
                               config |-> [base |-> Base({"EnabledServices", "OSTreeServer", "OCI", "Presets"}),
                                           conditions |-> {}]]),
                 Variants({}, TreeParts \union {<<"kernel", "name">>}) \union {{<<"openscap">>}, {<<"kernel", "append">>}},
                 Remote) : f \in {"ostree_commit", "ostree_container"}}
    \union Asked(ImageType("bootable_container", [flags |-> {"OSTree", "DefaultRef"}, supported |-> CommitOptions]), {{}}, {})
    \union Asked(EdgeType("ostree_disk", {}, OSTreeDiskOptions), Variants({}, EdgeParts) \union {{<<"filesystem">>}}, Remote)
    \union Asked(EdgeType("ostree_disk", {}, OSTreeDiskOptions), {{}}, {})
    \union Asked(EdgeType("ostree_disk", {}, OSTreeDiskOptions), {{}}, {"OSTree", "ParentRef"})
    \union UNION {Asked([EdgeType("ostree_disk", {}, OSTreeDiskOptions) EXCEPT !.config = EdgeDiskConfig, !.id = Rhel(v)],
                        {{}, {<<"kernel", "append">>}, FirstBoot}, Remote) : v \in {1, 2}}
    \union Asked([EdgeType("ostree_disk", {}, OSTreeDiskOptions) EXCEPT !.config = QemuConfig], {{}, FirstBoot}, Remote)

SimplifiedOptions ==
    (OSTreeDiskOptions \ (Sections({"locale", "services"}) \union {<<"kernel", "append">>}))
        \union Sections({"installation_device", "fdo", "ignition", "kernel"})

SimplifiedInstaller ==
    [EdgeType("ostree_simplified_installer", {"BootISO", "ISOLabel"}, SimplifiedOptions)
       EXCEPT !.iso = ISODefs, !.required = {<<"installation_device">>}]

(* What is asked of Ignition, of the types with and without it.            *)
IgnitionRequests ==
    UNION {UNION {Asked([SimplifiedInstaller EXCEPT !.config = EdgeInstallerConfig, !.id = Rhel(v)],
                        {{<<"installation_device">>} \union i : i \in {{}, FirstBoot, EmptyFirstBoot, {<<"ignition", "embedded">>}}},
                        Remote),
                  Spoiled([SimplifiedInstaller EXCEPT !.config = EdgeInstallerConfig, !.id = Rhel(v)],
                          {<<"installation_device">>} \union EmptyFirstBoot, {"NoProvisioningURL"}, Remote)} :
             v \in {1, 2, 6}}

InstallerRequests ==
    UNION {Asked(InstallerType("image_installer", a, {"Bootable"}, CommitOptions \union Sections({"installer", "openscap", "rpm"})),
                 {{}, {<<"user">>, <<"group">>, <<"installer", "unattended">>}, {<<"installer", "kickstart">>},
                  {<<"installer", "kickstart">>, <<"user">>}, TreeParts, {<<"services", "masked">>, <<"kernel", "append">>},
                  {<<"installer", "kickstart">>, <<"installer", "unattended">>}},
                 {}) : a \in {"x86_64", "ppc64le", "s390x", "aarch64"}}
    \union Asked([InstallerType("ostree_installer", "x86_64", {"OSTree", "DefaultRef"},
                                Sections({"installer", "user", "group", "fips", "timezone", "locale"}))
                     EXCEPT !.installer = @ \union {"PayloadKickstartRoot"}],
                 Variants({}, InstallerParts \union {<<"user">>, <<"fips">>, <<"timezone", "timezone">>,
                                                     <<"timezone", "ntpservers">>, <<"locale", "keyboard">>}), Remote)
    \union Asked(SimplifiedInstaller,
                 Variants({<<"installation_device">>}, {<<"fdo">>, <<"ignition", "embedded">>, <<"user">>, <<"disk">>,
                                                        <<"kernel", "append">>, <<"kernel", "name">>,
                                                        <<"cacerts">>, <<"dnf">>, <<"firstboot">>})
                   \union {{}, FirstBoot \union {<<"ignition", "embedded">>},
                           FirstBoot \union {<<"installation_device">>}}, Remote)
    \union Asked(InstallerType("live_installer", "x86_64", {"Bootable"}, {<<"installer">>}),
                 {{}, InstallerParts, {<<"installer", "kickstart">>}}, {})
    \union Asked(InstallerType("network-installer", "x86_64", {}, Sections({"fips", "locale"})),
                 Variants({}, {<<"fips">>, <<"locale", "languages">>, <<"locale", "keyboard">>, <<"user">>}), {})

BootcDiskType(flags) ==
    BootcType("bootc_disk", flags,
              Sections({"bootloader", "directories", "disk", "files", "group", "ignition", "user", "sshd"})
                \union {<<"kernel", "append">>})

BootcPXETar ==
    [BootcType("bootc_pxe_tar", {}, Sections({"directories", "files", "user", "group"}) \union {<<"kernel", "append">>})
       EXCEPT !.compression = "xz", !.iso = [base |-> [RootfsType |-> "Squashfs"], conditions |-> {}]]

BootcRequests ==
    Asked(BootcDiskType({"SELinuxPolicy", "BuildContainer"}),
          Variants({}, {<<"bootloader", "grub2">>, <<"directories">>, <<"disk">>, <<"files">>, <<"group">>, <<"user">>,
                        <<"ignition", "firstboot">>, <<"kernel", "append">>, <<"sshd">>}), {"Subscription"})
    \union Asked(BootcDiskType({"UnifiedKernel"}), {{}, {<<"hostname">>}, {<<"ignition", "embedded">>}}, {"UseRemoteContainerSource", "OmitDefaultKernelArgs"})
    \union {<<[Request(t, bp) EXCEPT !.options = {"Size"}], Request(t, bp)>> :
              t \in {BootcDiskType({"EmbeddedDisk"})}, bp \in {{}, {<<"disk">>}, {<<"filesystem">>}}}
    \union Spoiled(BootcDiskType({}), {<<"disk">>, <<"ignition", "embedded">>, <<"files">>}, {"BadDisk", "BadIgnition", "BadPath"}, {})
    \union UNION {Spoiled(BootcDiskType(flags), bp, {"NoProvisioningURL"}, {}) :
                    flags \in {{"SELinuxPolicy"}, {"UnifiedKernel"}}, bp \in {{<<"files">>}, FirstBoot, EmptyFirstBoot}}
    \union Asked([BootcDiskType({}) EXCEPT !.flags = {}], {{}}, {})
    \union Asked(BootcPXETar, {{}, {<<"files">>, <<"user">>, <<"kernel", "append">>}}, {})
    \union Spoiled(BootcPXETar, {<<"iso">>}, {"BadISO"}, {})
    \union UNION {Asked(BootcType(f, {}, BootcISOOptions),
                        {{}, {<<"fips">>, <<"kernel", "append">>, <<"user">>, <<"group">>}, {<<"installer", "kickstart">>},
                         {<<"installer", "kickstart">>, <<"user">>}, InstallerParts, {<<"hostname">>}}, o) :
                    f \in {"bootc_iso", "bootc_legacy_iso", "bootc_generic_iso"}, o \in {{}, {"InstallerPayloadRef"}}}

MCRequests ==
    DiskRequests \union AgainRequests \union BadRequests \union TreeRequests \union EdgeRequests
        \union InstallerRequests \union IgnitionRequests \union BootcRequests
=============================================================================
