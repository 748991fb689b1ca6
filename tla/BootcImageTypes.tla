-------------------------- MODULE BootcImageTypes ---------------------------
(***************************************************************************)
(* The image types of pkg/distro/generic that are made of a bootable       *)
(* container (bootc_imagetype.go).  The flags of the type say what was     *)
(* found in the container: its kernel, the modules of its initramfs, the   *)
(* customizations that are embedded in it.                                 *)
(***************************************************************************)
EXTENDS ImageTypes

BootcKindOf ==
    [bootc_disk |-> "bootc-disk", bootc_iso |-> "bootc-installer",
     bootc_legacy_iso |-> "container-installer", bootc_generic_iso |-> "container-based-iso",
     bootc_pxe_tar |-> "bootc-pxe"]

IsBootc(t) == t.image \in DOMAIN BootcKindOf

useLocalStorage(r) == [LocalBootc |-> From("code", "UseRemoteContainerSource" \notin r.options)]

bootcCheckOptionsWarns(r) == ~ValidateConfig(r.type, r.bp)

-----------------------------------------------------------------------------
CustomPartitions(r) == Section(r, "disk") \/ Section(r, "filesystem")

(* The owner of the customization of the disk: the blueprint, or without   *)
(* one the container.                                                      *)
diskCust(r) ==
    From(r.bp, Section(r, "disk")) \union From({}, ~CustomPartitions(r) /\ "EmbeddedDisk" \in r.type.flags)

(* It is made as large as the root file system and stays so for the next   *)
(* call.                                                                   *)
bootcWrites(r) ==
    {<<"MinSize", owner>> : owner \in IF r.type.image \in {"bootc_disk", "bootc_pxe_tar"} THEN diskCust(r) ELSE {}}

genPartitionTable(r, written) ==
    [PartitionTable |-> IF CustomPartitions(r) THEN {"bp"} ELSE {"type"},
     ImageSize |-> From("option", "Size" \in r.options) \union {"type"}
                     \union From("earlier", \E owner \in diskCust(r) : <<"MinSize", owner>> \in written)]
    @@ [f \in r.type.layout |-> {"type"}]

(* The policy for mount points is that of customized file systems only.    *)
genPartitionTableFails(r) ==
    \/ "PartitionTables" \notin r.type.flags
    \/ Section(r, "disk") /\ Section(r, "filesystem")
    \/ Section(r, "disk") /\ "BadDisk" \in r.bad
    \/ Section(r, "filesystem") /\ "BadMountpoint" \in r.bad

-----------------------------------------------------------------------------
BootMode(t) ==
    IF t.arch = "aarch64" \/ "UnifiedKernel" \in t.flags THEN [UEFI |-> {"code"}]
    ELSE [UEFI |-> {"code"}, BIOS |-> {"code"}]

bootcKernelOptions(r, config) ==
    (IF "OmitDefaultKernelArgs" \in r.options THEN {} ELSE Value(config, "KernelOptions"))
        \union From("bp", Given(r, <<"kernel", "append">>))

bootcCustomizations(r) ==
    [Subscription |-> From("option", "Subscription" \in r.options),
     Users |-> From("bp", Section(r, "user")),
     Groups |-> From("bp", Section(r, "group")),
     SELinux |-> From("type", "SELinuxPolicy" \in r.type.flags),
     BuildContainer |-> From("type", "BuildContainer" \in r.type.flags),
     Files |-> From("bp", Section(r, "files")),
     Directories |-> From("bp", Section(r, "directories"))]
    @@ diskCustomizations(r) @@ useLocalStorage(r)

manifestForDisk(r, config, written) ==
    bootcCustomizations(r) @@ genPartitionTable(r, written) @@ BootMode(r.type)
        @@ [KernelOptionsAppend |-> bootcKernelOptions(r, config),
            UnifiedKernel |-> From("type", "UnifiedKernel" \in r.type.flags),
            Grub2Config |-> From("bp", Given(r, <<"bootloader", "grub2">>)),
            Ignition |-> From("bp", Given(r, <<"ignition", "firstboot">>)),
            EmptyFirstboot |-> From("bp", Given(r, <<"ignition", "firstboot", "empty">>))]

manifestForDiskFails(r) ==
    \/ "Imgref" \notin r.type.flags
    \/ genPartitionTableFails(r)
    \/ FilesRefused(r)
    \/ Section(r, "ignition") /\ "BadIgnition" \in r.bad

(* The default kernel arguments cannot be left out here.                   *)
manifestForPXETar(r, config, iso, written) ==
    bootcCustomizations(r) @@ genPartitionTable(r, written) @@ BootMode(r.type) @@ isoCustomizations(r, iso)
        @@ [KernelOptionsAppend |-> kernelOptions(r, config), KernelVersion |-> {"type"}]

manifestForPXETarFails(r) ==
    \/ ~({"Imgref", "LiveModules", "KernelInfo"} \subseteq r.type.flags)
    \/ genPartitionTableFails(r)
    \/ FilesRefused(r)
    \/ Section(r, "iso") /\ "BadISO" \in r.bad

-----------------------------------------------------------------------------
initAnacondaInstallerBase(r) ==
    kickstartNew(r) @@ useLocalStorage(r)
        @@ [Grub2ISO |-> From("code", r.type.arch = "x86_64"),
            FIPS |-> From("bp", Given(r, <<"fips">>)),
            KernelOptionsAppend |-> From("bp", Given(r, <<"kernel", "append">>)),
            AnacondaModules |-> From("bp", Given(r, <<"installer", "modules">>)) \union {"code"}]

initAnacondaInstallerBaseFails(r) ==
    kickstartNewFails(r) \/ (Section(r, "installer") /\ "BadInstaller" \in r.bad)
        \/ (Section(r, "group") /\ "BadGroup" \in r.bad)

manifestForISO(r) ==
    initAnacondaInstallerBase(r) @@ [f \in r.type.installer |-> {"type"}]

(* The container to install is another one, and there is no building with  *)
(* a third.                                                                *)
manifestForISOFails(r) ==
    \/ ~({"Imgref", "KernelInfo", "KnownDistro"} \subseteq r.type.flags)
    \/ "InstallerPayloadRef" \notin r.options
    \/ "BuildContainer" \in r.type.flags
    \/ initAnacondaInstallerBaseFails(r)

(* The blueprint is not even passed.                                       *)
manifestForGenericISO(r) ==
    useLocalStorage(r)
        @@ [PayloadContainer |-> From("option", "InstallerPayloadRef" \in r.options),
            KernelPath |-> {"type"}]

manifestForGenericISOFails(r) == ~({"Imgref", "KernelInfo", "KnownDistro"} \subseteq r.type.flags)

(* NewDistroYAMLFrom: the definitions of the distribution that the         *)
(* container is of, or is like, have the installer.                        *)
manifestForLegacyISO(r) ==
    initAnacondaInstallerBase(r) @@ [f \in r.type.installer |-> {"type"}]

manifestForLegacyISOFails(r) ==
    \/ ~({"Imgref", "InstallerDefs", "KnownDistro"} \subseteq r.type.flags)
    \/ initAnacondaInstallerBaseFails(r)

-----------------------------------------------------------------------------
manifestWithoutValidation(r, config, iso, written) ==
    CASE r.type.image = "bootc_disk" -> manifestForDisk(r, config, written)
      [] r.type.image = "bootc_iso" -> manifestForISO(r)
      [] r.type.image = "bootc_legacy_iso" -> manifestForLegacyISO(r)
      [] r.type.image = "bootc_generic_iso" -> manifestForGenericISO(r)
      [] OTHER -> manifestForPXETar(r, config, iso, written)

manifestWithoutValidationFails(r) ==
    CASE r.type.image = "bootc_disk" -> manifestForDiskFails(r)
      [] r.type.image = "bootc_iso" -> manifestForISOFails(r)
      [] r.type.image = "bootc_legacy_iso" -> manifestForLegacyISOFails(r)
      [] r.type.image = "bootc_generic_iso" -> manifestForGenericISOFails(r)
      [] OTHER -> manifestForPXETarFails(r)
=============================================================================
