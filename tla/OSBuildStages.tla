---------------------------- MODULE OSBuildStages ----------------------------
(***************************************************************************)
(* The generators of pkg/osbuild: the stages made from files, packages,    *)
(* containers and partition tables, the content they refer to, and what    *)
(* becomes of it in the sources of the manifest.                           *)
(***************************************************************************)
EXTENDS StageTypes

When(condition, stages) == IF condition THEN stages ELSE << >>

(* The stage of an option of c, if it is set.                              *)
Opt(c, option, stage) == When(option \in c, <<stage>>)

-----------------------------------------------------------------------------
(* Content.  <<kind, name, version>>: inline data never changes, a file of *)
(* the host has the version it is hashed at, everything else is resolved   *)
(* anew for each serialization.                                            *)
Inline(name) == <<"inline", name, 0>>

HostFile(version) == <<"file", "uri", version>>

Rpms(pipeline, version) == <<"rpm", pipeline, version>>

Commit(pipeline, version) == <<"commit", pipeline, version>>

Flatpak(pipeline, version) == <<"flatpak", pipeline, version>>

(* A resolved container: from a registry, perhaps through a manifest list, *)
(* or from the local storage of the host.                                  *)
ContainerSpec(name, version, local, list) ==
    [name |-> name, version |-> version, local |-> local, list |-> list]

(* The container itself, as an input of a stage refers to it.              *)
NewContainersInput(specs) ==
    {<<IF s.local THEN "containers-storage" ELSE "skopeo", s.name, s.version>> : s \in specs}

(* The manifest lists, whatever the container comes from.                  *)
NewFilesInputForManifestLists(specs) ==
    {<<"skopeo-index", s.name, s.version>> : s \in {t \in specs : t.list}}

(* What GenSources makes of the containers: an index only for a container  *)
(* that is not local.                                                      *)
ContainerSources(specs) ==
    NewContainersInput(specs)
        \union NewFilesInputForManifestLists({s \in specs : ~s.local})

-----------------------------------------------------------------------------
(* Files and directories (fsnode): the content, and whether a mode and an  *)
(* owner are set.                                                          *)
File(content) == [data |-> content, mode |-> TRUE, owner |-> TRUE]

PlainFile(content) == [data |-> content, mode |-> FALSE, owner |-> FALSE]

Directory(mode, owner) == [data |-> Inline("directory"), mode |-> mode, owner |-> owner]

GenFileNodesStages(files) ==
    When(files # {}, <<NewCopyStage({}, {f.data : f \in files})>>)
        \o When(\E f \in files : f.mode, <<NewChmodStage>>)
        \o When(\E f \in files : f.owner, <<NewChownStage>>)

GenDirectoryNodesStages(dirs) ==
    When(dirs # {}, <<NewMkdirStage>>)
        \o When(\E d \in dirs : d.mode, <<NewChmodStage>>)
        \o When(\E d \in dirs : d.owner, <<NewChownStage>>)

-----------------------------------------------------------------------------
GenRPMStagesFromTransactions(pipeline, version) ==
    <<NewRPMStage({Rpms(pipeline, version)})>>

GenContainerStorageStages(storagePath, specs) ==
    LET remote == {s \in specs : ~s.local}
        local == specs \ remote
    IN  When(storagePath, <<NewContainersStorageConfStage>>)
        \o When(remote # {},
                <<NewSkopeoStageWithContainersStorage(NewContainersInput(remote),
                                                      NewFilesInputForManifestLists(specs))>>)
        \o When(local # {}, <<NewSkopeoStageWithContainersStorage(NewContainersInput(local), {})>>)

GenFIPSFiles == {File(Inline("system-fips"))}

GenFIPSStages == <<NewUpdateCryptoPoliciesStage, NewDracutConfStage>>

(* The firstboot options give certificates, two directories, a marker file *)
(* with a file per script, and a unit per script.                          *)
FirstbootDirs == {Directory(TRUE, TRUE)}

FirstbootFiles == {File(Inline("firstboot-marker")), File(Inline("firstboot-script"))}

FirstbootUnits == <<NewSystemdUnitCreateStage>>

GenDNFModuleConfigStages == <<NewDNFModuleConfigStage>>

-----------------------------------------------------------------------------
(* Disks.  c holds the features of the partition table: LVM, LUKS, Clevis, *)
(* RemovePassphrase, Btrfs, XFS, FAT (the ESP), EXT4, Swap and Raw; one of *)
(* each, and the volume group inside the encrypted container.              *)
GenDeviceCreationStages(c) ==
    When("LUKS" \in c,
         <<NewLUKS2CreateStage>> \o When("Clevis" \in c, <<NewClevisLuksBindStage>>))
    \o When("LVM" \in c, <<NewLVM2CreateStage>>)

GenFsStages(c, source) ==
    When("FAT" \in c, <<NewMkfsFATStage>>)
    \o When("EXT4" \in c, <<NewMkfsExt4Stage>>)
    \o When("XFS" \in c, <<NewMkfsXfsStage>>)
    \o When("Btrfs" \in c, <<NewMkfsBtrfsStage, NewBtrfsSubVol>>)
    \o When("Swap" \in c, <<NewMkswapStage>>)
    \o When("Raw" \in c, <<NewWriteDeviceStage({source})>>)

GenImagePrepareStages(c, source) ==
    <<NewTruncateStage, IF "Sgdisk" \in c THEN NewSgdiskStage ELSE NewSfdiskStage>>
        \o GenDeviceCreationStages(c)
        \o GenFsStages(c, source)

(* The passphrase goes only after the volume groups are renamed: a device  *)
(* cannot be opened once its passphrase has changed.                       *)
GenImageFinishStages(c) ==
    When("LVM" \in c, <<NewLVM2MetadataStage>>)
    \o When({"LUKS", "Clevis", "RemovePassphrase"} \subseteq c, <<NewLUKS2RemoveKeyStage>>)

(* bootupd mounts plain partitions, Btrfs and LVM: an encrypted table is   *)
(* refused, and so is a UEFI platform without /boot/efi (the FAT file      *)
(* system of the table).                                                   *)
BootupdMountsFail(c) == "LUKS" \in c \/ ("UEFI" \in c /\ "FAT" \notin c)

GenSystemdMountStages == <<NewSystemdUnitCreateStage, NewSystemdStage>>

filesystemConfigStages(c) ==
    CASE "MountUnits" \in c -> GenSystemdMountStages
      [] "MountNone" \in c -> << >>
      [] OTHER -> <<NewFSTabStage>>

(* Packages the build root needs for a partition table.                    *)
PartitionTablePackages(c) ==
    LET needs == [LVM |-> {"lvm2"}, Btrfs |-> {"btrfs-progs"}, XFS |-> {"xfsprogs"},
                  FAT |-> {"dosfstools"}, EXT4 |-> {"e2fsprogs"},
                  LUKS |-> {"clevis", "clevis-luks", "cryptsetup"}]
    IN  UNION {needs[f] : f \in c \intersect DOMAIN needs}
=============================================================================
