----------------------------- MODULE OSPipeline -----------------------------
(***************************************************************************)
(* The OS pipeline of pkg/manifest/os.go, which installs the packages and  *)
(* applies the customizations: what it asks of the depsolver and of the    *)
(* build root, when it refuses to serialize and the stages it serializes   *)
(* to.  p is the pipeline, c its customizations (the set of the names of   *)
(* those that are set) and m the memory of the object between              *)
(* serializeStart and serializeEnd: m.in is what serializeStart was given. *)
(***************************************************************************)
EXTENDS OSBuildStages

TomlPackages(c) ==
    {CASE "EL8" \in c -> "python3-pytoml"
       [] "EL9" \in c -> "python3-toml"
       [] OTHER -> "python3-tomli-w"}

(* Packages of the tree: the chain of package sets, merged.                *)
OSPackages(c) ==
    {"base"}
    \union (IF "PartitionTable" \in c THEN PartitionTablePackages(c) ELSE {})
    \union (IF "KernelName" \in c THEN {"kernel"} ELSE {})
    \union (IF "ChronyConfig" \in c THEN {"chrony"} ELSE {})
    \union (IF "SELinux" \in c THEN {"selinux-policy"} ELSE {})
    \union (IF "OpenSCAP" \in c THEN {"openscap-scanner", "scap-security-guide", "xz"} ELSE {})
    \union (IF "Subscription" \in c THEN {"subscription-manager"} ELSE {})
    \union (IF {"Subscription", "Rhc"} \subseteq c
              THEN {"rhc", "insights-client", "rhc-worker-playbook"}
              ELSE IF {"Subscription", "Insights"} \subseteq c THEN {"insights-client"} ELSE {})
    \union (IF c \intersect {"Users", "Groups", "LockRootUser"} # {}
              THEN {"shadow-utils", "pam", "passwd"} ELSE {})
    \union (IF "Firewall" \in c THEN {"firewalld"} ELSE {})
    \union (IF "VersionlockPackages" \in c THEN {"dnf", "python3-dnf-plugin-versionlock"} ELSE {})

(* Mutant: the programs that add users and groups are not asked for.       *)
OSBuildPackages_NoUserTools(c) ==
    {"platform", "rpm"}
    \union (IF "PartitionTable" \in c THEN PartitionTablePackages(c) ELSE {})
    \union (IF "SELinux" \in c THEN {"policycoreutils", "selinux-policy"} ELSE {})

(* Packages the pipeline asks of its build root.                           *)
OSBuildPackages(c) ==
    {"platform", "rpm"}
    \union (IF "PartitionTable" \in c THEN PartitionTablePackages(c) ELSE {})
    \union (IF "OSTreeRef" \in c THEN {"rpm-ostree"} ELSE {})
    \union (IF "SELinux" \in c THEN {"policycoreutils", "selinux-policy"} ELSE {})
    \union (IF "CloudInit" \in c THEN {"python3-pyyaml"} ELSE {})
    \union (IF c \intersect {"DNFConfig", "RHSMConfig", "WSLConfig", "WSLDistributionConfig"} # {}
              THEN {"python3-iniparse"} ELSE {})
    \union (IF {"Containers", "ContainersStorage"} \subseteq c THEN TomlPackages(c) ELSE {})
    \union (IF "Containers" \in c THEN {"skopeo"} ELSE {})
    \union (IF {"OpenSCAP", "Tailoring"} \subseteq c THEN {"openscap-utils"} ELSE {})
    \union (IF "BootcConfig" \in c THEN TomlPackages(c) ELSE {})
    \union (IF "UKI" \in c THEN {"libkcapi-hmaccalc"} ELSE {})
    \union (IF c \intersect {"Users", "Groups", "LockRootUser"} # {} THEN {"shadow-utils"} ELSE {})
    \union (IF "RPMKeys" \in c THEN {"pqrpm"} ELSE {})

(* There is no TOML library to ask for on EL7.                             *)
OSBuildPackagesFail(c) ==
    "EL7" \in c /\ ({"Containers", "ContainersStorage"} \subseteq c \/ "BootcConfig" \in c)

-----------------------------------------------------------------------------
(* The kernel is looked up among the packages the depsolver returned.      *)
OSStartFails(c) == {"KernelName", "KernelMissing"} \subseteq c

(* subscriptionService: the unit, the files and the drop-in directory.     *)
SubscriptionUnit == NewSystemdUnitCreateStage

InsightsOnBoot(c) == "Rhc" \in c \/ "Insights" \in c

SubscriptionDirs(c, onBoot) ==
    IF onBoot /\ InsightsOnBoot(c) THEN {Directory(FALSE, FALSE)} ELSE {}

SubscriptionFiles(c, onBoot) ==
    {PlainFile(Inline("subscription-key"))}
        \union (IF onBoot /\ InsightsOnBoot(c)
                  THEN {PlainFile(Inline("insights-dropin"))} ELSE {})

SubscriptionFails(c) == {"Subscription", "BadProxy"} \subseteq c

(* The files of the blueprint: their content, or where to fetch it.        *)
CustomFiles(c, m) ==
    (IF "Files" \in c THEN {File(Inline("Files"))} ELSE {})
        \union (IF "UriFiles" \in c THEN {[PlainFile(HostFile(m.hashed)) EXCEPT !.mode = TRUE]} ELSE {})

CustomDirectories(c) == IF "Directories" \in c THEN {Directory(TRUE, TRUE)} ELSE {}

-----------------------------------------------------------------------------
(* The packages, the boot loader specification files and the containers.   *)
OSRpmStages(p, m) ==
    LET c == p.opts
    IN  When(m.in.commits # {}, <<NewOSTreePasswdStage(m.in.commits)>>)
        \o GenRPMStagesFromTransactions(p.name, m.in.version)
        \o When("NoBLS" \notin c, <<NewFixBLSStage>>)
        \o When(m.in.containers # {},
                GenContainerStorageStages("ContainersStorage" \in c, m.in.containers))

(* On an OSTree system the keys of the users are written at first boot.    *)
OSUserStages(c) ==
    Opt(c, "Language", NewLocaleStage) \o Opt(c, "Keyboard", NewKeymapStage)
    \o Opt(c, "Hostname", NewHostnameStage) \o Opt(c, "Timezone", NewTimezoneStage)
    \o Opt(c, "ChronyConfig", NewChronyStage) \o Opt(c, "Groups", NewGroupsStage)
    \o Opt(c, "LockRootUser", NewUsersStage) \o Opt(c, "Users", NewUsersStage)
    \o When({"Users", "OSTreeRef"} \subseteq c, <<NewFirstBootStage>>)
    \o Opt(c, "Firewall", NewFirewallStage) \o Opt(c, "Sysconfig", NewSysconfigStage)
    \o Opt(c, "SystemdLogind", NewSystemdLogindStage) \o Opt(c, "CloudInit", NewCloudInitStage)
    \o Opt(c, "Modprobe", NewModprobeStage)

OSFirstbootStages(c) ==
    When("Firstboot" \in c,
         GenDirectoryNodesStages(FirstbootDirs) \o GenFileNodesStages(FirstbootFiles))
    \o Opt(c, "SystemdDropin", NewSystemdUnitStage)
    \o Opt(c, "SystemdUnit", NewSystemdUnitCreateStage)
    \o When("Firstboot" \in c, FirstbootUnits)

OSConfigStages(c) ==
    Opt(c, "Authselect", NewAuthselectStage) \o Opt(c, "SELinuxConfig", NewSELinuxConfigStage)
    \o Opt(c, "Tuned", NewTunedStage) \o Opt(c, "Tmpfilesd", NewTmpfilesdStage)
    \o Opt(c, "PamLimitsConf", NewPamLimitsConfStage) \o Opt(c, "Sysctld", NewSysctldStage)
    \o Opt(c, "DNFConfig", NewDNFConfigStage)
    \o Opt(c, "DNFAutomaticConfig", NewDNFAutomaticConfigStage)
    \o Opt(c, "YUMRepos", NewYumReposStage) \o Opt(c, "YUMConfig", NewYumConfigStage)
    \o Opt(c, "GCPGuestAgentConfig", NewGcpGuestAgentConfigStage)
    \o Opt(c, "SshdConfig", NewSshdConfigStage)
    \o Opt(c, "InsightsClientConfig", NewInsightsClientConfigStage)
    \o Opt(c, "NetworkManager", NewNMConfStage) \o Opt(c, "AuthConfig", NewAuthconfigStage)
    \o Opt(c, "PwQuality", NewPwqualityConfStage)
    \o When("Subscription" \in c,
            <<SubscriptionUnit>>
              \o GenDirectoryNodesStages(SubscriptionDirs(c, "OSTreeRef" \in c))
              \o GenFileNodesStages(SubscriptionFiles(c, "OSTreeRef" \in c)))
    \o Opt(c, "RHSMConfig", NewRHSMStage) \o Opt(c, "WAAgentConfig", NewWAAgentConfStage)
    \o Opt(c, "UdevRules", NewUdevRulesStage)

(* The initramfs, the mounts and the boot loader, for a disk.              *)
OSBootStages(p, m) ==
    LET c == p.opts
    IN  When("Hostonly" \in c \/ "FIPS" \in c, <<NewDracutStage(m.kernelVer)>>)
        \o filesystemConfigStages(c)
        \o CASE "GRUB2" \in c ->
                  <<IF "NoBLS" \in c
                      THEN NewGrub2LegacyStage(m.kernelVer) ELSE NewGRUB2Stage(m.kernelVer)>>
             [] "ZIPL" \in c -> <<NewZiplStage>>
             [] "UKI" \in c ->
                  <<[NewCopyStage({}, {Inline("boot-csv")}) EXCEPT !.kernel = m.kernelVer]>>
                    \o When("OldUKIDirect" \in c,
                            <<NewHMACStage(m.kernelVer), [NewMkdirStage EXCEPT !.kernel = m.kernelVer]>>)
             [] OTHER -> << >>

(* Everything before SELinux that follows the boot loader.  The order is   *)
(* that of the file: directories before files before the units they hold.  *)
OSFileStages(c, m) ==
    Opt(c, "RHSMFacts", NewRHSMFactsStage) \o Opt(c, "OSTreeRef", NewSystemdJournaldStage)
    \o When("Modules" \in c,
            GenDNFModuleConfigStages
              \o GenDirectoryNodesStages({Directory(FALSE, FALSE)})
              \o GenFileNodesStages({PlainFile(Inline("module-failsafe"))}))
    \o GenDirectoryNodesStages(CustomDirectories(c))
    \o GenFileNodesStages(CustomFiles(c, m))
    \o When(c \intersect {"EnabledServices", "DisabledServices", "MaskedServices", "DefaultTarget",
                          "Environment", "Firstboot", "Subscription"} # {},
            <<NewSystemdStage>>)
    \o Opt(c, "ShellInit", NewShellInitStage) \o Opt(c, "WSLConfig", NewWSLConfStage)
    \o Opt(c, "WSLDistributionConfig", NewWSLDistributionConfStage)
    \o When("FIPS" \in c, GenFIPSStages \o GenFileNodesStages(GenFIPSFiles))

(* Mutant: the certificates are written after the files were labelled.     *)
OSHardeningStages_CertsLast(c) ==
    Opt(c, "OpenSCAP", NewOscapRemediationStage) \o Opt(c, "SELinux", NewSELinuxStage)
    \o When("CACerts" \in c,
            GenFileNodesStages({File(Inline("CACerts"))}) \o <<NewUpdateCATrustStage>>)

OSHardeningStages(c) ==
    When({"OpenSCAP", "Tailoring"} \subseteq c, <<NewOscapAutotailorStage>>)
    \o Opt(c, "OpenSCAP", NewOscapRemediationStage) \o Opt(c, "Presets", NewSystemdPresetStage)
    \o When("CACerts" \in c, GenFileNodesStages({File(Inline("CACerts"))}))
    \o When({"Firstboot", "FirstbootCerts"} \subseteq c,
            GenFileNodesStages({File(Inline("FirstbootCerts"))}))
    \o When("CACerts" \in c \/ {"Firstboot", "FirstbootCerts"} \subseteq c,
            <<NewUpdateCATrustStage>>)
    \o Opt(c, "VersionlockPackages", NewDNF4VersionlockStage)
    \o Opt(c, "MachineIdUninitialized", NewMachineIdStage) \o Opt(c, "SELinux", NewSELinuxStage)

OSTreeStages(c) ==
    When("OSTreeRef" \in c, <<NewOSTreePrepTreeStage>>)
    \o When({"OSTreeRef", "Bootupd"} \subseteq c, <<NewBootupdGenMetadataStage>>)
    \o When({"OSTreeRef", "BootcConfig"} \subseteq c, <<NewBootcInstallConfigStage>>)

(* dracut.conf and then the kernel command line are put before everything  *)
(* else: the packages' scripts read them when they make the initramfs and  *)
(* the boot entries.                                                       *)
prependStages(c) ==
    When("PartitionTable" \in c
           /\ ("ZIPL" \in c \/ ("GRUB2" \in c /\ "KernelOptionsBootloader" \notin c)),
         <<NewKernelCmdlineStage>>)
    \o Opt(c, "DracutConf", NewDracutConfStage)

OSStages(p, m) ==
    LET c == p.opts
    IN  prependStages(c)
        \o OSRpmStages(p, m)
        \o OSUserStages(c) \o OSFirstbootStages(c) \o OSConfigStages(c)
        \o When("PartitionTable" \in c, OSBootStages(p, m))
        \o OSFileStages(c, m) \o OSHardeningStages(c) \o OSTreeStages(c)

(* What makes serialize return an error: a boot loader that needs an ESP   *)
(* the table lacks or an architecture without UKIs, a customization that   *)
(* cannot be written, options for OSTree on a tree that is not.            *)
OSSerializeFails(c) ==
    \/ "PartitionTable" \in c /\ c \intersect {"UKI", "SYSTEMD"} # {} /\ "FAT" \notin c
    \/ {"PartitionTable", "UKI", "NoUKIArch"} \subseteq c
    \/ "NoGPGKeys" \in c
    \/ {"Users", "BadPassword"} \subseteq c
    \/ SubscriptionFails(c)
    \/ {"CACerts", "BadCert"} \subseteq c
    \/ {"VersionlockPackages", "VersionlockMissing"} \subseteq c
    \/ "OSTreeRef" \notin c /\ c \intersect {"Bootupd", "BootcConfig"} # {}

(* A customization that the constructor of its stage refuses.              *)
OSSerializePanics(c, stages) ==
    "InvalidOptions" \in c /\ \E i \in DOMAIN stages : stages[i].validated = "made"

(* addStagesForAllFilesAndInlineData keeps the content of every file it    *)
(* makes a stage for, but that of the files fetched from elsewhere.        *)
OSInline(stages) ==
    {u \in UNION {stages[i].use : i \in DOMAIN stages} : u[1] = "inline"}

(* fileRefs: the files of the blueprint that come from the host.           *)
OSFileRefs(c) == "UriFiles" \in c
=============================================================================
