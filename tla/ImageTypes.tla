----------------------------- MODULE ImageTypes -----------------------------
(***************************************************************************)
(* The image types of pkg/distro/generic that are made of packages: from a *)
(* request to the image of pkg/image it stands for.  A setting of an image *)
(* has the set of the places its value comes from: "bp", this call's       *)
(* blueprint; "option", this call's image options; "code", the image       *)
(* functions themselves; the name of a layer of the definitions (the       *)
(* distribution's or the image type's configuration or a condition of      *)
(* them); "earlier", a call that was made before on the same image type.   *)
(***************************************************************************)
EXTENDS Blueprints

(* A type is [image, flags, idLike, id, arch, modes, format, compression,  *)
(* layout, config, distro, iso, installer, disk, supported, required]:     *)
(* config, distro and iso are [base, conditions], where base and what a    *)
(* condition merges map settings to sets of places (for iso: to options).  *)
(* IgnitionMetal stands for the value of IgnitionPlatform: it is           *)
(* configured along with it where the platform is "metal".                 *)

-----------------------------------------------------------------------------
(* pkg/distro/defs/loader.go: what the definitions say for an id.          *)
versionForVerCmp(id) == id.major * 1000 + id.minor

VersionLessThan(id, version) == versionForVerCmp(id) < version

Eval(when, id, arch) ==
    /\ "distro_name" \in DOMAIN when => when.distro_name = id.name
    /\ "not_distro_name" \in DOMAIN when => when.not_distro_name # id.name
    /\ "arch" \in DOMAIN when => when.arch = arch
    /\ "version_less_than" \in DOMAIN when => VersionLessThan(id, when.version_less_than)
    /\ "version_greater_or_equal" \in DOMAIN when => ~VersionLessThan(id, when.version_greater_or_equal)
    /\ "version_equal" \in DOMAIN when => versionForVerCmp(id) = when.version_equal

(* Only what the child leaves unset is taken from the parent.              *)
shallowMerge(child, parent) == child @@ parent

(* The conditions are kept in a map and merged in any order.               *)
Merged(def, id, arch) ==
    {FoldLeft(LAMBDA config, c : shallowMerge(c.merge, config), def.base, order) :
        order \in SetToSeqs({c \in def.conditions : Eval(c.when, id, arch)})}

(* The configuration of a distribution has no conditions on architectures. *)
DistroImageConfigFor(t) == Merged(t.distro, t.id, "")

ImageConfig(t) == Merged(t.config, t.id, t.arch)

ISOConfig(t) == Merged(t.iso, t.id, t.arch)

getDefaultImageConfig(t) ==
    {shallowMerge(c, d) : c \in ImageConfig(t), d \in DistroImageConfigFor(t)}

-----------------------------------------------------------------------------
(* Where the value of a setting comes from.                                *)
Value(config, f) == IF f \in DOMAIN config THEN config[f] ELSE {}

From(place, condition) == IF condition THEN {place} ELSE {}

(* The blueprint's value replaces the configured one, or is added to it.   *)
Instead(given, config, f) == IF given THEN {"bp"} ELSE Value(config, f)

Also(given, config, f) == Value(config, f) \union From("bp", given)

Configured(config, fields) == [f \in fields \intersect DOMAIN config |-> config[f]]

(* Configurations share what their settings point to with the definitions: *)
(* a write through one is seen by the next call for the image type.  What  *)
(* was written is a set of pairs <<setting, owner>>; the owner is {} for   *)
(* the definitions, otherwise the blueprint that was written to.           *)
Seen(config, written) ==
    [f \in DOMAIN config |-> config[f] \union From("earlier", <<f, {}>> \in written)]

(* Mutant: the kernel options are appended to in place.                    *)
Writes_KernelOptions(r, config) == {<<f, {}>> : f \in {"KernelOptions"} \intersect DOMAIN config}

(* What a call writes through the configuration or into the blueprint: the *)
(* options of sshd, a variable of dnf and the minimum size of a disk.      *)
Writes(r, config) ==
    LET dnf == Section(r, "dnf") \/ "SetReleaseverVar" \in DOMAIN config
        shared == From("SshdConfig", Section(r, "sshd")) \union From("DNFOptions", dnf)
    IN  {<<f, {}>> : f \in shared \intersect DOMAIN config}
        \union From(<<"MinSize", r.bp>>, Section(r, "disk") /\ "Size" \in r.options)

-----------------------------------------------------------------------------
kernelOptions(r, config) == Also(Given(r, <<"kernel", "append">>), config, "KernelOptions")

(* The kernel of a type that names one cannot be chosen.                   *)
kernelCustomizations(r, config) ==
    IF r.type.flags \intersect {"Bootable", "OSTree"} = {} THEN Nothing
    ELSE [KernelName |-> IF "DefaultKernelName" \in DOMAIN config THEN config["DefaultKernelName"]
                         ELSE From("bp", Given(r, <<"kernel", "name">>)) \union {"code"},
          KernelOptionsAppend |-> kernelOptions(r, config)]
         @@ Configured(config, {"KernelOptionsBootloader"})

packageCustomizations(r, config) ==
    [FIPS |-> From("bp", Given(r, <<"fips">>)),
     Packages |-> From("bp", Section(r, "packages")),
     Modules |-> From("bp", Section(r, "enabled_modules")),
     Containers |-> From("bp", Section(r, "containers")),
     GPGKeyFiles |-> Also(Section(r, "rpm"), config, "GPGKeyFiles")]
    @@ Configured(config, {"ExcludeDocs", "Hostonly"})

(* The payload of an installer gets its users from the kickstart.          *)
userCustomizations(r, config) ==
    IF "BootISO" \in r.type.flags THEN Nothing
    ELSE [Users |-> Also(Section(r, "user"), config, "Users"),
          Groups |-> From("bp", Section(r, "group")),
          LockRootUser |-> Value(config, "LockRootUser")]

(* Mutant: the services of the blueprint are added to a copy of the list.  *)
serviceCustomizations_Copy(r, config) ==
    [EnabledServices |-> Value(config, "EnabledServices"),
     DisabledServices |-> Value(config, "DisabledServices"),
     MaskedServices |-> Value(config, "MaskedServices"),
     Firewall |-> Instead(Section(r, "firewall"), config, "Firewall")]

serviceCustomizations(r, config) ==
    [EnabledServices |-> Also(Given(r, <<"services", "enabled">>), config, "EnabledServices"),
     DisabledServices |-> Also(Given(r, <<"services", "disabled">>), config, "DisabledServices"),
     MaskedServices |-> Also(Given(r, <<"services", "masked">>), config, "MaskedServices"),
     Firewall |-> Instead(Section(r, "firewall"), config, "Firewall")]
    @@ Configured(config, {"DefaultTarget"})

localeCustomizations(r, config) ==
    [Language |-> Instead(Given(r, <<"locale", "languages">>), config, "Locale"),
     Keyboard |-> Instead(Given(r, <<"locale", "keyboard">>), config, "Keyboard"),
     Hostname |-> Instead(Section(r, "hostname"), config, "Hostname"),
     Timezone |-> Instead(Given(r, <<"timezone", "timezone">>), config, "Timezone"),
     ChronyConfig |-> Instead(Given(r, <<"timezone", "ntpservers">>), config, "TimeSynchronization"),
     SELinux |-> From("code", "NoSELinux" \notin DOMAIN config)]

(* The facts are those of the options, on RHEL only.                       *)
fileCustomizations(r, config) ==
    [RHSMFacts |-> From("option", r.type.id.name = "rhel" /\ "Facts" \in r.options),
     Directories |-> Also(Section(r, "directories"), config, "Directories")
                       \union From("code", Section(r, "openscap")),
     Files |-> Also(Section(r, "files") \/ Given(r, <<"repositories", "keys">>), config, "Files"),
     ContainersStorage |-> IF Section(r, "containers-storage") THEN {"bp"}
                           ELSE From("code", IsOSTreeBasedImageType(r.type) /\ Section(r, "containers")),
     YUMRepos |-> Also(Section(r, "repositories"), config, "YUMRepos"),
     OpenSCAP |-> From("bp", Section(r, "openscap")),
     Tailoring |-> From("bp", Given(r, <<"openscap", "tailoring">>))]

(* The options of dnf, with or without the release version.                *)
DNFConfigOptions(config) ==
    IF "DNFConfig" \notin DOMAIN config THEN {}
    ELSE Value(config, "DNFOptions") \union From("code", "SetReleaseverVar" \in DOMAIN config)

(* The variable is there already: it was configured, or an earlier call    *)
(* has left it in the options that are shared.                             *)
DNFConfigOptionsFails(config) ==
    /\ "DNFConfig" \in DOMAIN config /\ "SetReleaseverVar" \in DOMAIN config
    /\ "Releasever" \in DOMAIN config \/ "earlier" \in Value(config, "DNFOptions")

(* RHSMConfig.Update makes a copy.                                         *)
subscriptionCustomizations(r, config) ==
    LET subscribed == "Subscription" \in r.options
        configured == IF subscribed THEN "RHSMConfigWithSubscription" ELSE "RHSMConfigNoSubscription"
    IN  [Subscription |-> From("option", subscribed),
         Rhc |-> From("option", subscribed /\ "Rhc" \in r.options),
         Insights |-> From("option", subscribed /\ "Insights" \in r.options),
         InsightsClientConfig |-> From("option", subscribed /\ "Proxy" \in r.options),
         RHSMConfig |-> Also(Section(r, "rhsm"), config, configured),
         DNFConfig |-> DNFConfigOptions(config) \union From("bp", Section(r, "dnf"))]
        @@ (IF subscribed THEN Configured(config, {"PermissiveRHC"}) ELSE Nothing)

(* Settings that are taken from the configuration as they are.             *)
Plain ==
    {"ShellInit", "Grub2Config", "Sysconfig", "SystemdLogind", "CloudInit", "Modprobe", "DracutConf",
     "SystemdDropin", "SystemdUnit", "Authselect", "SELinuxConfig", "Tuned", "Tmpfilesd", "PamLimitsConf",
     "Sysctld", "DNFAutomaticConfig", "YUMConfig", "AuthConfig", "PwQuality", "WAAgentConfig", "UdevRules",
     "GCPGuestAgentConfig", "NetworkManager", "WSLConfig", "WSLDistributionConfig", "NoBLS", "SystemdBoot",
     "MachineIdUninitialized", "VersionlockPackages"}

configCustomizations(r, config) ==
    [CACerts |-> From("bp", Section(r, "cacerts")),
     Firstboot |-> From("bp", Section(r, "firstboot")),
     RPMKeys |-> From("type", "RPMKeysBinary" \in r.type.flags)]
    @@ Configured(config, Plain)

(* sshd is customized where it is configured.                              *)
sshdCustomizations(r, config) ==
    IF "SshdConfig" \notin DOMAIN config THEN Nothing
    ELSE [SshdConfig |-> Also(Section(r, "sshd"), config, "SshdConfig")]

osCustomizations(r, config) ==
    kernelCustomizations(r, config) @@ packageCustomizations(r, config) @@ userCustomizations(r, config)
        @@ serviceCustomizations(r, config) @@ localeCustomizations(r, config)
        @@ fileCustomizations(r, config) @@ subscriptionCustomizations(r, config)
        @@ configCustomizations(r, config) @@ sshdCustomizations(r, config)

(* FirstbootOptionsFromBP rejects the names of the scripts.                *)
osCustomizationsFails(r) == Section(r, "firstboot") /\ "BadFirstboot" \in r.bad

(* What it trusts: a zone of the firewall has a name, OpenSCAP is not asked *)
(* of a commit and its tailoring is valid, the variable of dnf is set once,*)
(* CA certificates parse.                                                  *)
osCustomizationsPanics(r, config) ==
    \/ Section(r, "firewall") /\ "UnnamedZone" \in r.bad
    \/ Section(r, "openscap") /\ (IsOSTreeBasedImageType(r.type) \/ "BadTailoring" \in r.bad)
    \/ Section(r, "cacerts") /\ "BadCert" \in r.bad
    \/ DNFConfigOptionsFails(config)

-----------------------------------------------------------------------------
ociContainerCustomizations(config) == Configured(config, {"OCI"})

ostreeCommitServerCustomizations(config) ==
    IF "OSTreeServer" \in DOMAIN config THEN [Server |-> config["OSTreeServer"]] ELSE Nothing

(* A list of flatpaks in the blueprint replaces the configured one.        *)
installerCustomizations(r, config) ==
    [FIPS |-> From("bp", Given(r, <<"fips">>)),
     AnacondaModules |-> From("type", "Modules" \in r.type.installer)
                           \union From("bp", Given(r, <<"installer", "modules">>)),
     Flatpaks |-> IF Given(r, <<"installer", "flatpaks">>) THEN {"bp"}
                  ELSE From("type", "Flatpaks" \in r.type.installer),
     KernelOptionsAppend |-> kernelOptions(r, config),
     RPMKeys |-> From("type", "RPMKeysBinary" \in r.type.flags)]
    @@ [f \in r.type.installer \intersect {"LoraxTemplates", "LoraxPackage", "PayloadRootfs", "Biosdevname"} |->
          {"type"}]

installerCustomizationsFails(r) ==
    "BootISO" \notin r.type.flags \/ "BadFlatpak" \in r.bad

(* What the ISO is told: iso maps BootType and RootfsType to options.      *)
isoCustomizations(r, iso) ==
    [f \in {iso[k] : k \in DOMAIN iso} |-> {"type"}]
        @@ [ISO |-> From("type", TRUE) \union From("bp", Section(r, "iso"))]

isoCustomizationsFails(r) ==
    \/ ~({"BootISO", "ISOLabel"} \subseteq r.type.flags)
    \/ Section(r, "iso") /\ "BadISO" \in r.bad

diskCustomizations(r) == [f \in r.type.disk |-> {"type"}]

(* kickstart.New and its Validate.                                         *)
kickstartNewFails(r) ==
    \/ /\ Given(r, <<"installer", "kickstart">>)
       /\ \/ Given(r, <<"installer", "unattended">>) \/ Given(r, <<"installer", "sudo-nopasswd">>)
          \/ Section(r, "user") \/ Section(r, "group")
    \/ Section(r, "user") /\ "BadRootUser" \in r.bad

kickstartNew(r) ==
    [KickstartUsers |-> From("bp", Section(r, "user")),
     KickstartGroups |-> From("bp", Section(r, "group")),
     SudoNopasswd |-> From("bp", Given(r, <<"installer", "sudo-nopasswd">>)),
     Unattended |-> From("bp", Given(r, <<"installer", "unattended">>)),
     UserFile |-> From("bp", Given(r, <<"installer", "kickstart">>))]

IsZero(settings) == \A f \in DOMAIN settings : settings[f] = {}

(* The URL of the first boot's configuration, one more kernel option, is   *)
(* read for one platform only.                                             *)
ostreeDeploymentCustomizations(r, config) ==
    [KernelOptionsAppend |-> kernelOptions(r, config),
     Ignition |-> Value(config, "IgnitionPlatform"),
     IgnitionURL |-> From("bp", /\ Value(config, "IgnitionMetal") # {}
                                /\ Given(r, <<"ignition", "firstboot">>) /\ "NoProvisioningURL" \notin r.bad),
     FIPS |-> From("bp", Given(r, <<"fips">>)),
     Users |-> From("bp", Section(r, "user")),
     Groups |-> From("bp", Section(r, "group")),
     Directories |-> From("bp", Section(r, "directories")),
     Files |-> From("bp", Section(r, "files")),
     Language |-> Instead(Given(r, <<"locale", "languages">>), config, "Locale"),
     Keyboard |-> Instead(Given(r, <<"locale", "keyboard">>), config, "Keyboard"),
     CustomFileSystems |-> From("bp", Section(r, "filesystem"))]
    @@ Configured(config, {"OSTreeConfSysrootReadOnly", "LockRootUser"})

ostreeDeploymentCustomizationsFails(r) == ~({"OSTree", "Bootable"} \subseteq r.type.flags)

-----------------------------------------------------------------------------
(* The size asked for replaces the minimum size in the blueprint, where it *)
(* stays for the next call made with it.                                   *)
getPartitionTable(r, written) ==
    [PartitionTable |-> IF Section(r, "disk") \/ Section(r, "filesystem") THEN {"bp"} ELSE {"type"},
     ImageSize |-> IF "Size" \in r.options THEN {"option"}
                   ELSE {"type"} \union From("earlier", <<"MinSize", r.bp>> \in written)]
    @@ [f \in r.type.layout |-> {"type"}]

getPartitionTableFails(r) == "PartitionTables" \notin r.type.flags

(* The parent is fetched from the URL of the options, if there is one.     *)
makeOSTreeParentCommit(r) == [OSTreeParent |-> From("option", "OSTreeURL" \in r.options)]

makeOSTreePayloadCommitFails(r) ==
    \/ "OSTreeURL" \notin r.options /\ "DefaultURL" \notin r.type.flags
    \/ "ImageRef" \notin r.options /\ "DefaultRef" \notin r.type.flags

-----------------------------------------------------------------------------
(* The image functions: the settings of the image of each.                 *)
diskImage(r, config, written) ==
    osCustomizations(r, config) @@ diskCustomizations(r) @@ getPartitionTable(r, written)

tarImage(r, config) == osCustomizations(r, config)

containerImage(r, config) == osCustomizations(r, config) @@ ociContainerCustomizations(config)

liveInstallerImage(r, config, iso) ==
    installerCustomizations(r, config) @@ isoCustomizations(r, iso)
        @@ [Language |-> Value(config, "Locale")]

(* The kernel options of the installer are its own.                        *)
imageInstallerImage(r, config, iso) ==
    installerCustomizations(r, config) @@ isoCustomizations(r, iso) @@ kickstartNew(r)
        @@ osCustomizations(r, config)

ostreeCommitImage(r, config) ==
    osCustomizations(r, config) @@ makeOSTreeParentCommit(r)
        @@ Configured(config, {"Presets", "Bootupd"})

bootableContainerImage(r, config) ==
    osCustomizations(r, config) @@ makeOSTreeParentCommit(r)
        @@ [BootContainer |-> {"code"}, BootcConfig |-> {"code"}]

ostreeContainerImage(r, config) ==
    osCustomizations(r, config) @@ makeOSTreeParentCommit(r) @@ ociContainerCustomizations(config)
        @@ ostreeCommitServerCustomizations(config) @@ Configured(config, {"Presets"})

(* The options of OSTree go into the kickstart of the ISO's root or into   *)
(* that of the interactive defaults; an empty kickstart is dropped.        *)
ostreeInstallerImage(r, config, iso) ==
    LET kickstart == kickstartNew(r)
                       @@ [KickstartLanguage |-> From("bp", Given(r, <<"locale", "languages">>)),
                           KickstartKeyboard |-> From("bp", Given(r, <<"locale", "keyboard">>)),
                           KickstartTimezone |-> From("bp", Given(r, <<"timezone", "timezone">>))]
        root == "PayloadKickstartRoot" \in r.type.installer
    IN  installerCustomizations(r, config) @@ isoCustomizations(r, iso) @@ kickstart
        @@ [Kickstart |-> From("code", root \/ ~IsZero(kickstart)),
            InteractiveDefaults |-> From("code", ~root)]

ostreeRemote(r) == [RemoteURL |-> From("option", "UseOstreeRemotes" \in r.type.flags)]

ostreeDiskImage(r, config, written) ==
    ostreeDeploymentCustomizations(r, config) @@ ostreeRemote(r) @@ getPartitionTable(r, written)

ostreeSimplifiedInstallerImage(r, config, iso, written) ==
    ostreeDiskImage(r, config, written) @@ installerCustomizations(r, config) @@ isoCustomizations(r, iso)
        @@ [InstallationDevice |-> From("bp", Section(r, "installation_device")),
            FDO |-> From("bp", Section(r, "fdo")),
            FDOCerts |-> From("bp", Given(r, <<"fdo", "certs">>)),
            IgnitionEmbedded |-> From("bp", Given(r, <<"ignition", "embedded">>)),
            IgnitionConfig |-> From("bp", Given(r, <<"ignition", "embedded">>))]

(* An empty kickstart is no kickstart: the installer would be unattended.  *)
networkInstallerImage(r, config, iso) ==
    installerCustomizations(r, config) @@ isoCustomizations(r, iso) @@ kickstartNew(r)
        @@ [Kickstart |-> From("code", ~IsZero(kickstartNew(r))),
            Language |-> From("bp", Given(r, <<"locale", "languages">>))]

pxeTarImage(r, config) == osCustomizations(r, config)

-----------------------------------------------------------------------------
(* newImageTypeFrom: the kind of image each image function makes.          *)
KindOf ==
    [disk |-> "disk", container |-> "base-container", tar |-> "archive", pxe_tar |-> "pxe-tar",
     image_installer |-> "image-installer", live_installer |-> "live-installer",
     bootable_container |-> "ostree-archive", ostree_disk |-> "ostree-disk",
     ostree_commit |-> "ostree-archive", ostree_container |-> "ostree-container",
     ostree_installer |-> "ostree-installer", ostree_simplified_installer |-> "simplified-installer"]
    @@ ("network-installer" :> "netinst")

WithOS == {"disk", "container", "tar", "pxe_tar", "image_installer", "ostree_commit",
           "bootable_container", "ostree_container"}

WithPayload == {"ostree_disk", "ostree_installer", "ostree_simplified_installer"}

WithInstaller == {"image_installer", "live_installer", "ostree_installer",
                  "ostree_simplified_installer", "network-installer"}

WithKickstart == {"image_installer", "ostree_installer", "network-installer"}

WithPartitions == {"disk", "ostree_disk", "ostree_simplified_installer"}

(* The error of the image function, or of Manifest after it.               *)
imageFails(r) ==
    LET f == r.type.image
    IN  \/ f \in WithOS /\ osCustomizationsFails(r)
        \/ f \in WithPayload /\ makeOSTreePayloadCommitFails(r)
        \/ f \in WithPartitions /\ getPartitionTableFails(r)
        \/ f \in WithPartitions \ {"disk"} /\ ostreeDeploymentCustomizationsFails(r)
        \/ f \in WithInstaller /\ (installerCustomizationsFails(r) \/ isoCustomizationsFails(r))
        \/ f \in WithKickstart /\ kickstartNewFails(r)
        \/ Given(r, <<"ignition", "embedded">>) /\ "BadIgnitionConfig" \in r.bad
             /\ f = "ostree_simplified_installer"
        \/ "UseBootstrapContainer" \in r.options /\ "BootstrapContainer" \notin r.type.flags

(* The options of OSTree and the customizations are used without asking    *)
(* whether there are any.                                                  *)
imagePanics(r, config) ==
    LET f == r.type.image
    IN  \/ f \in WithOS /\ osCustomizationsPanics(r, config)
        \/ f \in WithPartitions \ {"disk"} /\ "UseOstreeRemotes" \in r.type.flags /\ "OSTree" \notin r.options
        \/ f = "ostree_simplified_installer" /\ NilCustomizations(r)

imageSettings(r, config, iso, written) ==
    LET f == r.type.image
    IN  CASE f = "disk" -> diskImage(r, config, written)
          [] f = "tar" -> tarImage(r, config)
          [] f = "container" -> containerImage(r, config)
          [] f = "live_installer" -> liveInstallerImage(r, config, iso)
          [] f = "image_installer" -> imageInstallerImage(r, config, iso)
          [] f = "ostree_commit" -> ostreeCommitImage(r, config)
          [] f = "bootable_container" -> bootableContainerImage(r, config)
          [] f = "ostree_container" -> ostreeContainerImage(r, config)
          [] f = "ostree_installer" -> ostreeInstallerImage(r, config, iso)
          [] f = "ostree_disk" -> ostreeDiskImage(r, config, written)
          [] f = "ostree_simplified_installer" -> ostreeSimplifiedInstallerImage(r, config, iso, written)
          [] f = "network-installer" -> networkInstallerImage(r, config, iso)
          [] OTHER -> pxeTarImage(r, config)

(* What the pipelines ask of the architecture.                             *)
ArchOption == [x86_64 |-> {}, aarch64 |-> {"AARCH64"}, ppc64le |-> {"PPC64LE"}, s390x |-> {"S390X"}]

(* The image, for the rest of the model: the settings that are set, the    *)
(* likes of the distribution and what is wrong with the inputs.            *)
imageOf(r, kind, settings) ==
    [kind |-> kind, format |-> r.type.format, compression |-> r.type.compression,
     opts |-> {f \in DOMAIN settings : settings[f] # {}} \union r.bad \union {r.type.idLike}
                \union ArchOption[r.type.arch]
                \union (IF "UseBootstrapContainer" \in r.options THEN {"Bootstrap"} ELSE {})]
=============================================================================
