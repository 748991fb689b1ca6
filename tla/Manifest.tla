------------------------------ MODULE Manifest ------------------------------
(***************************************************************************)
(* Making a manifest: pkg/manifestgen/manifestgen.go has an image type     *)
(* check the options and make an image, whose pipelines it instantiates,   *)
(* asks what they need, resolves it and serializes them                    *)
(* (pkg/manifest/manifest.go).  The repositories, the registries and the   *)
(* files of the host change meanwhile: world is their version.  An image   *)
(* type is used for several calls, which share its definitions, and a      *)
(* manifest may be serialized again, which the objects, that forget their  *)
(* inputs in serializeEnd, are written for.                                *)
(***************************************************************************)
EXTENDS Serialization, BootcImageTypes

CONSTANTS
    Requests,       \* sequences of calls for one image type
    Images,         \* images made without one, [kind, format, compression, opts]
    MaxWorld,       \* bound on the versions of the world
    MaxSerialize    \* bound on the serializations of a manifest

ASSUME ManifestAssumption == MaxWorld \in Nat \ {0} /\ MaxSerialize \in Nat \ {0}

VARIABLES
    calls,      \* the calls that are left, this one first
    written,    \* what earlier calls have written through shared pointers
    custom,     \* where the settings of the image come from
    warned,     \* checkOptions has a warning
    img,        \* the image
    pipelines,  \* Manifest.pipelines
    mem,        \* the memory of the pipelines' objects, by name
    pc,         \* the step of Generate
    idx,        \* the pipeline the loops of the step have come to
    chains,     \* the package sets, by pipeline
    resolved,   \* what was resolved for each pipeline
    out,        \* osbuildPipelines
    merged,     \* mergedInputs
    sources,    \* the sources of the manifest
    world,      \* the version of what is outside
    round,      \* the number of calls of Generate's second half
    aborted     \* a serialization has failed before serializeEnd

front == <<calls, written, custom, warned>>

vars == <<front, img, pipelines, mem, pc, idx, chains, resolved, out, merged, sources, world, round,
          aborted>>

NoMerged == [content |-> {}, specs |-> {}, files |-> FALSE]

NoImage == [kind |-> "none", format |-> "raw", compression |-> "", opts |-> {}]

Init ==
    /\ \/ calls \in Requests /\ img = NoImage /\ pc = "check"
       \/ calls = << >> /\ img \in Images /\ pc = "instantiate"
    /\ written = {} /\ custom = << >> /\ warned = FALSE
    /\ pipelines = << >> /\ mem = << >> /\ idx = 1
    /\ chains = << >> /\ resolved = << >>
    /\ out = << >> /\ merged = NoMerged /\ sources = {}
    /\ world = 1 /\ round = 1 /\ aborted = FALSE

Stop(how) == pc' = how /\ UNCHANGED <<img, pipelines, mem, idx, chains, resolved, out, merged,
                                      sources, world, round, aborted, front>>

-----------------------------------------------------------------------------
(* The types made of a container check nothing before they begin.          *)
checkOptions ==
    /\ pc = "check"
    /\ LET r == Head(calls)
       IN  IF ~IsBootc(r.type) /\ checkOptionsFails(r)
             THEN pc' = "refused" /\ UNCHANGED warned
             ELSE /\ pc' = "image"
                  /\ warned' = IF IsBootc(r.type) THEN bootcCheckOptionsWarns(r) ELSE checkOptionsWarns(r)
    /\ UNCHANGED <<calls, written, custom, img, pipelines, mem, idx, chains, resolved, out, merged, sources,
                   world, round, aborted>>

(* The image, and whether the call fails or panics before it has one.      *)
ImageKind(t) == IF IsBootc(t) THEN BootcKindOf[t.image] ELSE KindOf[t.image]

ConfigOf(t) == IF IsBootc(t) THEN ImageConfig(t) ELSE getDefaultImageConfig(t)

SettingsOf(r, config, iso, shared) ==
    IF IsBootc(r.type) THEN manifestWithoutValidation(r, Seen(config, shared), iso, shared)
    ELSE imageSettings(r, Seen(config, shared), iso, shared)

ImageRefused(r) == IF IsBootc(r.type) THEN manifestWithoutValidationFails(r) ELSE imageFails(r)

ImagePanics(r, config) == ~IsBootc(r.type) /\ imagePanics(r, Seen(config, written))

(* A call before the last ends here and its image is dropped: the rest of  *)
(* it writes nothing that is shared.                                       *)
MakeImage ==
    /\ pc = "image"
    /\ LET r == Head(calls)
       IN  \E config \in ConfigOf(r.type), iso \in ISOConfig(r.type) :
             \/ ImageRefused(r) /\ Stop("refused")
             \/ ImagePanics(r, config) /\ Stop("panicked")
             \/ /\ ~ImageRefused(r) /\ ~ImagePanics(r, config)
                /\ written' = written \union (IF IsBootc(r.type) THEN bootcWrites(r) ELSE Writes(r, config))
                /\ IF Len(calls) > 1
                     THEN calls' = Tail(calls) /\ pc' = "check" /\ UNCHANGED <<custom, img>>
                     ELSE /\ custom' = SettingsOf(r, config, iso, written)
                          /\ img' = imageOf(r, ImageKind(r.type), custom')
                          /\ pc' = "instantiate" /\ UNCHANGED calls
                /\ UNCHANGED <<warned, pipelines, mem, idx, chains, resolved, out, merged, sources, world,
                               round, aborted>>

-----------------------------------------------------------------------------
(* The constructor of each pipeline adds it to the manifest.               *)
addPipeline ==
    /\ pc = "instantiate" /\ ~InstantiateManifestFails(img) /\ ~InstantiateManifestPanics(img)
    /\ idx <= Len(InstantiateManifest(img))
    /\ LET p == InstantiateManifest(img)[idx]
       IN  IF \E q \in Range(pipelines) : q.name = p.name
             THEN pc' = "panicked" /\ UNCHANGED <<pipelines, mem, idx>>
             ELSE /\ pipelines' = Append(pipelines, p)
                  /\ mem' = [n \in DOMAIN mem \union {p.name} |->
                               IF n = p.name THEN NewObject(p) ELSE mem[n]]
                  /\ idx' = idx + 1
                  /\ UNCHANGED pc
    /\ UNCHANGED <<img, chains, resolved, out, merged, sources, world, round, aborted, front>>

Instantiated ==
    /\ pc = "instantiate"
    /\ \/ InstantiateManifestFails(img) /\ Stop("refused")
       \/ InstantiateManifestPanics(img) /\ Stop("panicked")
       \/ /\ idx > Len(InstantiateManifest(img))
          /\ \/ Stop("chains")
             \/ warned /\ Stop("refused")

-----------------------------------------------------------------------------
GetPackageSetChains ==
    /\ pc = "chains"
    /\ IF \E p \in Range(pipelines) : getPackageSetChainFails(p, pipelines)
         THEN pc' = "failed" /\ UNCHANGED chains
         ELSE /\ chains' = [n \in DOMAIN mem |-> getPackageSetChain(Named(pipelines, n), pipelines)]
              /\ pc' = "depsolve"
    /\ UNCHANGED <<img, pipelines, mem, idx, resolved, out, merged, sources, world, round, aborted, front>>

(* A pipeline without a chain is not depsolved and has an empty result.    *)
Depsolve ==
    /\ pc = "depsolve"
    /\ resolved' = [n \in DOMAIN chains |->
                      [NoInputs EXCEPT !.version = IF chains[n] = {} THEN 0 ELSE world]]
    /\ pc' = "containers"
    /\ UNCHANGED <<img, pipelines, mem, idx, chains, out, merged, sources, world, round, aborted, front>>

Unresolved ==
    {n \in DOMAIN resolved :
        getContainerSources(Named(pipelines, n)) # {} /\ resolved[n].containers = {}}

(* The containers of one pipeline after another, in the order of a map.    *)
ResolveContainers ==
    /\ pc = "containers"
    /\ \E n \in Unresolved :
         resolved' = [resolved EXCEPT ![n].containers =
           {ContainerSpec(c, world,
                 c = "local" \/ (c = "bootc" /\ "LocalBootc" \in img.opts),
                 (c = "app" /\ "ManifestList" \in img.opts) \/ (c = "local" /\ "LocalList" \in img.opts)) :
              c \in getContainerSources(Named(pipelines, n))}]
    /\ UNCHANGED <<img, pipelines, mem, pc, idx, chains, out, merged, sources, world, round, aborted, front>>

(* All containers must be of the architecture asked for.                   *)
CheckContainerArch ==
    /\ pc = "containers" /\ Unresolved = {}
    /\ Stop(IF "WrongArchContainer" \in img.opts /\ \E n \in DOMAIN resolved : resolved[n].containers # {}
              THEN "failed" ELSE "commits")

ResolveCommits ==
    /\ pc = "commits"
    /\ resolved' = [n \in DOMAIN resolved |->
                      [resolved[n] EXCEPT !.commits =
                         IF getOSTreeCommitSources(Named(pipelines, n)) THEN {Commit(n, world)} ELSE {}]]
    /\ pc' = "flatpaks"
    /\ UNCHANGED <<img, pipelines, mem, idx, chains, out, merged, sources, world, round, aborted, front>>

(* Serialize begins when everything is resolved.                           *)
ResolveFlatpaks ==
    /\ pc = "flatpaks"
    /\ resolved' = [n \in DOMAIN resolved |->
                      [resolved[n] EXCEPT !.flatpaks =
                         IF getFlatpakSources(Named(pipelines, n)) THEN {Flatpak(n, world)} ELSE {}]]
    /\ pc' = "start" /\ idx' = 1
    /\ UNCHANGED <<img, pipelines, mem, chains, out, merged, sources, world, round, aborted, front>>

(* Any of the resolvers may fail: nothing has been started then.           *)
ResolutionFails ==
    /\ pc \in {"depsolve", "containers", "commits", "flatpaks"}
    /\ Stop("failed")

-----------------------------------------------------------------------------
SerializeStart ==
    /\ pc = "start"
    /\ idx <= Len(pipelines)
    /\ LET p == pipelines[idx]
           in == resolved[p.name]
           m == mem[p.name]
       IN  IF DoubleStart(p, m)
             THEN pc' = "failed" /\ aborted' = TRUE /\ UNCHANGED <<mem, idx>>
             ELSE /\ mem' = [mem EXCEPT ![p.name] = Kept(p, m, in)]
                  /\ IF InputsRefused(p, in)
                       THEN pc' = "failed" /\ aborted' = TRUE /\ UNCHANGED idx
                       ELSE idx' = idx + 1 /\ UNCHANGED <<pc, aborted>>
    /\ UNCHANGED <<img, pipelines, chains, resolved, out, merged, sources, world, round, front>>

Started ==
    /\ pc = "start" /\ idx > Len(pipelines)
    /\ pc' = "serialize" /\ idx' = 1
    /\ UNCHANGED <<img, pipelines, mem, chains, resolved, out, merged, sources, world, round, aborted, front>>

(* The file of the host is hashed when the stage that copies it is made,   *)
(* and may have gone: the generation of the stage panics.                  *)
HashesHostFile(p) ==
    p.kind \in {"os", "ostree-deployment"} /\ "UriFiles" \in p.opts

HostFileGone ==
    /\ pc = "serialize" /\ idx <= Len(pipelines)
    /\ HashesHostFile(pipelines[idx])
    /\ Stop("panicked")

(* One pipeline is serialized and what it has resolved is merged.          *)
SerializePipeline ==
    /\ pc = "serialize" /\ idx <= Len(pipelines)
    /\ LET p == pipelines[idx]
           hashed == [mem EXCEPT ![p.name].hashed = world]
           m == hashed[p.name]
           stages == serialize(p, pipelines, hashed)
       IN  IF serializeFails(p, pipelines, mem)
             THEN pc' = "failed" /\ aborted' = TRUE /\ UNCHANGED <<mem, idx, out, merged>>
           ELSE IF serializePanics(p, pipelines, mem)
             THEN pc' = "panicked" /\ UNCHANGED <<mem, idx, out, merged, aborted>>
           ELSE /\ mem' = serializeCaches(p, hashed)
                /\ out' = Append(out, [name |-> p.name, build |-> p.build, stages |-> stages])
                /\ merged' =
                     [content |-> merged.content \union getOSTreeCommits(p, m)
                        \union (IF resolved[p.name].version = 0 THEN {}
                                ELSE {Rpms(p.name, resolved[p.name].version)})
                        \union getFlatpakSpecs(p, m) \union getInline(p, pipelines, stages),
                      specs |-> merged.specs \union getContainerSpecs(p, m),
                      files |-> merged.files \/ fileRefs(p)]
                /\ idx' = idx + 1
                /\ UNCHANGED <<pc, aborted>>
    /\ UNCHANGED <<img, pipelines, chains, resolved, sources, world, round, front>>

Serialized ==
    /\ pc = "serialize" /\ idx > Len(pipelines)
    /\ pc' = "end" /\ idx' = 1
    /\ UNCHANGED <<img, pipelines, mem, chains, resolved, out, merged, sources, world, round, aborted, front>>

SerializeEnd ==
    /\ pc = "end" /\ idx <= Len(pipelines)
    /\ LET p == pipelines[idx]
       IN  IF EndPanics(p, mem[p.name])
             THEN pc' = "panicked" /\ UNCHANGED <<mem, idx>>
             ELSE /\ mem' = [mem EXCEPT ![p.name] = Forgotten(p, mem[p.name])]
                  /\ idx' = idx + 1
                  /\ UNCHANGED pc
    /\ UNCHANGED <<img, pipelines, chains, resolved, out, merged, sources, world, round, aborted, front>>

Ended ==
    /\ pc = "end" /\ idx > Len(pipelines)
    /\ pc' = "sources" /\ idx' = 1
    /\ UNCHANGED <<img, pipelines, mem, chains, resolved, out, merged, sources, world, round, aborted, front>>

(* The options some stages validate when the manifest is encoded.  The     *)
(* objects have forgotten their inputs by then.                            *)
InvalidEncoding ==
    \E i \in DOMAIN out :
        /\ pipelines[i].kind = "os" /\ "InvalidOptions" \in pipelines[i].opts
        /\ \E k \in DOMAIN out[i].stages : out[i].stages[k].validated = "encoded"

(* The file of the host is hashed again, or has gone.                      *)
GenSources ==
    /\ pc = "sources"
    /\ sources' = merged.content \union ContainerSources(merged.specs)
                    \union (IF merged.files THEN {HostFile(world)} ELSE {})
    /\ pc' = IF InvalidEncoding THEN "failed" ELSE "done"
    /\ UNCHANGED <<img, pipelines, mem, idx, chains, resolved, out, merged, world, round, aborted, front>>

GenSourcesFails ==
    /\ pc = "sources" /\ merged.files
    /\ Stop("failed")

-----------------------------------------------------------------------------
(* The same manifest again, after a result or after an error.              *)
GenerateAgain ==
    /\ pc \in {"done", "failed"} /\ round < MaxSerialize
    /\ round' = round + 1
    /\ pc' = "chains"
    /\ resolved' = << >> /\ out' = << >> /\ merged' = NoMerged /\ sources' = {}
    /\ UNCHANGED <<img, pipelines, mem, idx, chains, world, aborted, front>>

(* Somebody publishes packages, moves a tag or edits the file, while       *)
(* something is yet to be resolved or hashed.                              *)
Publish ==
    /\ pc \in {"chains", "depsolve", "containers", "commits", "flatpaks"}
         \/ (pc \in {"serialize", "sources"} /\ "UriFiles" \in img.opts)
    /\ world < MaxWorld
    /\ world' = world + 1
    /\ UNCHANGED <<img, pipelines, mem, pc, idx, chains, resolved, out, merged, sources, round, aborted, front>>

Next ==
    \/ checkOptions \/ MakeImage \/ addPipeline \/ Instantiated
    \/ GetPackageSetChains \/ Depsolve \/ ResolveContainers \/ CheckContainerArch
    \/ ResolveCommits \/ ResolveFlatpaks \/ ResolutionFails
    \/ SerializeStart \/ Started \/ HostFileGone \/ SerializePipeline \/ Serialized
    \/ SerializeEnd \/ Ended \/ GenSources \/ GenSourcesFails
    \/ GenerateAgain \/ Publish

Spec == Init /\ [][Next]_vars

-----------------------------------------------------------------------------
(* The settings that take up a part of the blueprint.                      *)
Targets ==
    [packages |-> {"Packages"}, enabled_modules |-> {"Modules"}, containers |-> {"Containers"},
     cacerts |-> {"CACerts"}, directories |-> {"Directories"}, files |-> {"Files"},
     disk |-> {"PartitionTable"}, filesystem |-> {"PartitionTable"}, dnf |-> {"DNFConfig"},
     firstboot |-> {"Firstboot"}, fips |-> {"FIPS"}, firewall |-> {"Firewall"},
     user |-> {"Users", "KickstartUsers"}, group |-> {"Groups", "KickstartGroups"},
     hostname |-> {"Hostname"}, openscap |-> {"OpenSCAP"}, repositories |-> {"YUMRepos"},
     rpm |-> {"GPGKeyFiles"}, rhsm |-> {"RHSMConfig"}, sshd |-> {"SshdConfig"}, iso |-> {"ISO"},
     installation_device |-> {"InstallationDevice"}, fdo |-> {"FDO"},
     kernel |-> [append |-> {"KernelOptionsAppend"}, name |-> {"KernelName"}],
     services |-> [enabled |-> {"EnabledServices"}, disabled |-> {"DisabledServices"},
                   masked |-> {"MaskedServices"}],
     locale |-> [languages |-> {"Language", "KickstartLanguage"}, keyboard |-> {"Keyboard", "KickstartKeyboard"}],
     timezone |-> [timezone |-> {"Timezone", "KickstartTimezone"}, ntpservers |-> {"ChronyConfig"}],
     installer |-> [modules |-> {"AnacondaModules"}, flatpaks |-> {"Flatpaks"}, kickstart |-> {"UserFile"},
                    unattended |-> {"Unattended"}],
     ignition |-> [embedded |-> {"IgnitionEmbedded"}, firstboot |-> {"IgnitionURL", "Ignition"}],
     bootloader |-> [grub2 |-> {"Grub2Config"}]]
    @@ ("containers-storage" :> {"ContainersStorage"})

Parted == {"kernel", "services", "locale", "timezone", "installer", "ignition", "bootloader"}

TargetsOf(p) == IF p[1] \in Parted THEN Targets[p[1]][p[2]] ELSE Targets[p[1]]

(* Parts of the blueprint that the definitions list as supported and that  *)
(* the image function of the type does not read.                           *)
Unread ==
    [ostree_disk |-> {<<"cacerts">>, <<"dnf">>, <<"firstboot">>, <<"services">>},
     ostree_simplified_installer |-> {<<"cacerts">>, <<"dnf">>, <<"firstboot">>, <<"kernel", "name">>},
     ostree_installer |-> {<<"timezone", "ntpservers">>},
     live_installer |-> {<<"installer", "kickstart">>, <<"installer", "unattended">>},
     bootc_disk |-> {<<"ignition", "embedded">>},
     bootc_iso |-> {<<"installer", "flatpaks">>}, bootc_legacy_iso |-> {<<"installer", "flatpaks">>},
     bootc_generic_iso |-> {<<"fips">>, <<"group">>, <<"installer">>, <<"kernel">>, <<"user">>}]
    @@ ("network-installer" :> {<<"locale", "keyboard">>})

IsUnread(t, p) ==
    \/ t.image \in DOMAIN Unread /\ \E q \in Unread[t.image] : IsPrefixOf(q, p)
    \/ p = <<"kernel", "name">> /\ \E c \in ConfigOf(t) : "DefaultKernelName" \in DOMAIN c
    \/ p[1] = "sshd" /\ \A c \in ConfigOf(t) : "SshdConfig" \notin DOMAIN c
    \/ /\ IsPrefixOf(<<"ignition", "firstboot">>, p) /\ IsOSTreeBasedImageType(t)
       /\ \A c \in ConfigOf(t) : Value(c, "IgnitionMetal") = {}

(* Nothing is dropped silently: every part of a blueprint that the image   *)
(* type says it supports, and validateSupportedConfig lets pass without a  *)
(* warning, has reached a setting of the image when there is one.  The     *)
(* gaps of the definitions and the code are named in IsUnread: sections    *)
(* the image function does not read; a kernel where the type names one;    *)
(* sshd where it is not configured; the URL of Ignition where the platform *)
(* is not "metal", as for the simplified installers of RHEL 8, 9.0 and 9.1.*)
NothingDropped ==
    custom # << >> =>
        LET r == Head(calls)
        IN  \A p \in r.bp :
              supports(r.type.supported, p) /\ ~IsUnread(r.type, p) =>
                  \E f \in TargetsOf(p) : "bp" \in Value(custom, f)

(* Settings that are kept behind a pointer the definitions or the          *)
(* blueprint share with every call.                                        *)
SharedSettings == {"SshdConfig", "DNFConfig", "ImageSize"}

(* An image is a function of the request: the same call, made first and    *)
(* with the conditions of the definitions merged in any order, gives the   *)
(* same settings from the same places.  What an earlier call has written   *)
(* is found in the shared settings only.                                   *)
OwnSettings ==
    pc = "instantiate" /\ idx = 1 /\ custom # << >> =>
        LET r == Head(calls)
        IN  \A config \in ConfigOf(r.type), iso \in ISOConfig(r.type) :
              LET first == SettingsOf(r, config, iso, {})
              IN  /\ DOMAIN first = DOMAIN custom
                  /\ \A f \in DOMAIN first :
                       \/ custom[f] = first[f]
                       \/ f \in SharedSettings /\ custom[f] = first[f] \union {"earlier"}

-----------------------------------------------------------------------------
Before(i) == {out[j].name : j \in 1..(i - 1)}

(* osbuild builds the pipelines in the order of the manifest: the build    *)
(* root of a pipeline and every tree its stages read must be those of a    *)
(* pipeline that comes before it.  The build root is the host for "".      *)
ReferencesResolve ==
    \A i \in DOMAIN out :
        /\ out[i].build \in Before(i) \union {""}
        /\ \A k \in DOMAIN out[i].stages :
             \A n \in out[i].stages[k].in :
               n \in Before(i) \/ (n = "" /\ out[i].build = "")

-----------------------------------------------------------------------------
UsedBy(p) == UNION {p.stages[k].use : k \in DOMAIN p.stages}

(* Containers both from a registry and from the host's storage, the latter *)
(* through a manifest list: GenContainerStorageStages refers to an index   *)
(* that GenSources does not add.                                           *)
MixedLists == {"Containers", "LocalContainer", "LocalList"} \subseteq img.opts

(* The installer's container moved between its own resolution and that of  *)
(* the build root, whose copy is the only one given to the sources.        *)
LivefsMoved ==
    \E p \in Range(pipelines) :
        /\ p.kind = "anaconda" /\ "Livefs" \in p.opts
        /\ resolved[p.name].containers # resolved["build"].containers

(* A deployment has no list of the files of the host it copies, and a file *)
(* that is edited while the manifest is made is hashed twice.              *)
HostFileLost(u) ==
    u[1] = "file" /\ (u[3] # world \/ \E p \in Range(pipelines) : p.kind = "ostree-deployment")

(* An Ignition configuration that is embedded and empty: the tree of the   *)
(* ISO copies it, the installer does not give it to the sources.           *)
EmptyIgnition(u) == u = Inline("IgnitionConfig") /\ "IgnitionConfig" \notin img.opts

(* Whatever content the stages of a finished manifest take from its        *)
(* sources is in its sources: packages, containers, indexes, commits,      *)
(* flatpaks, inline data and files, of the very version that was resolved. *)
SourcesComplete ==
    pc = "done" =>
        \A i \in DOMAIN out : \A u \in UsedBy(out[i]) :
            \/ u \in sources
            \/ u[1] = "tree"
            \/ MixedLists /\ u[1] = "skopeo-index"
            \/ LivefsMoved /\ out[i].name = "anaconda-tree"
            \/ HostFileLost(u)
            \/ EmptyIgnition(u)

(* "if we have a list digest, add a skopeo-index source as well": every    *)
(* index a stage refers to is among the sources of the manifest.           *)
IndexesListed ==
    pc = "done" =>
        \A i \in DOMAIN out : \A u \in UsedBy(out[i]) : u[1] = "skopeo-index" => u \in sources

-----------------------------------------------------------------------------
(* The program a stage runs from its build root, by the package that has   *)
(* it, as far as the getBuildPackages methods tell.                        *)
ToolOf ==
    [rpm |-> "rpm", selinux |-> "selinux-policy", users |-> "shadow-utils", groups |-> "shadow-utils",
     skopeo |-> "skopeo", qemu |-> "qemu-img", tar |-> "tar", xz |-> "xz", zstd |-> "zstd",
     gzip |-> "gzip", squashfs |-> "squashfs-tools", erofs |-> "erofs-utils",
     xorrisofs |-> "xorriso", implantisomd5 |-> "isomd5sum", sgdisk |-> "gdisk", hmac |-> "libkcapi-hmaccalc"]
    @@ ("lvm2.create" :> "lvm2") @@ ("lvm2.metadata" :> "lvm2")
    @@ ("luks2.format" :> "cryptsetup") @@ ("clevis.luks-bind" :> "clevis-luks")
    @@ ("mkfs.xfs" :> "xfsprogs") @@ ("mkfs.btrfs" :> "btrfs-progs") @@ ("mkfs.fat" :> "dosfstools")
    @@ ("mkfs.ext4" :> "e2fsprogs") @@ ("oci-archive" :> "tar")
    @@ ("ostree.init" :> "rpm-ostree") @@ ("ostree.commit" :> "rpm-ostree")
    @@ ("ostree.pull" :> "rpm-ostree") @@ ("ostree.deploy" :> "rpm-ostree")
    @@ ("ostree.preptree" :> "rpm-ostree") @@ ("ostree.encapsulate" :> "rpm-ostree")
    @@ ("flatpak.build-import-bundle.oci" :> "flatpak") @@ ("cloud-init" :> "python3-pyyaml")
    @@ ("dnf.config" :> "python3-iniparse") @@ ("wsl.conf" :> "python3-iniparse")
    @@ ("oscap.autotailor" :> "openscap-utils") @@ ("grub2.iso.legacy" :> "grub2-tools")

(* "Lorax pulls this in as a dependency": the FAT tools.                   *)
BuildRoot(name) ==
    chains[name] \union (IF "lorax-templates" \in chains[name] THEN {"dosfstools"} ELSE {})

(* A stage that runs in a build root made of packages finds its program    *)
(* there: some pipeline asked for it before the build root was depsolved.  *)
(* Two are left to chance: the file system of the installer's root, for    *)
(* which ISORootfsImg asks nothing, and groups without users in a          *)
(* deployment.                                                             *)
ToolsInBuildRoot ==
    \A i \in DOMAIN out :
        LET p == Named(pipelines, out[i].name)
        IN  p.build # "" /\ chains[p.build] # {} =>
              \A k \in DOMAIN out[i].stages :
                LET t == out[i].stages[k].type
                IN  \/ t \notin DOMAIN ToolOf
                    \/ ToolOf[t] \in BuildRoot(p.build)
                    \/ p.kind = "iso-rootfs" /\ t = "mkfs.ext4"
                    \/ p.kind = "ostree-deployment" /\ t = "groups"

-----------------------------------------------------------------------------
(* The tree whose kernel a pipeline names.                                 *)
KernelTree(p) ==
    CASE "anaconda" \in DOMAIN p.of -> p.of.anaconda
      [] "coi" \in DOMAIN p.of -> p.of.coi
      [] p.kind \in {"raw", "pxe-tree"} -> p.of.tree
      [] OTHER -> p.name

(* Every kernel a manifest names, in the initramfs, the boot loader, the   *)
(* network boot files or on an ISO, is the one that this serialization's   *)
(* depsolve put into the tree it is taken from.  A bootc installer names   *)
(* the kernel it was told of; the second serialization of an installer has *)
(* the path of the first kernel, that of a bootc installer no kernel.      *)
KernelFresh ==
    \A i \in DOMAIN out :
        LET p == Named(pipelines, out[i].name)
            tree == Named(pipelines, KernelTree(p))
        IN  \A k \in DOMAIN out[i].stages :
              LET kernel == out[i].stages[k].kernel
              IN  \/ kernel = NoKernel
                  \/ kernel = resolved[tree.name].version /\ kernel # 0
                  \/ kernel = 1 /\ "Livefs" \in tree.opts
                  \/ round > 1 /\ p.kind = "anaconda-iso-tree" /\ kernel # 0
                  \/ round > 1 /\ p.kind = "anaconda" /\ "Livefs" \in p.opts

(* A manifest that failed between serializeStart and serializeEnd is never *)
(* serialized again: the objects that were started refuse a second start,  *)
(* so no manifest is made of the leftovers of two resolutions.             *)
AbortedIsFinal == aborted => pc # "done"

(* Inputs that osCustomizations trusts and nobody has checked or warned of. *)
Unchecked == [openscap |-> "BadTailoring", cacerts |-> "BadCert", firewall |-> "UnnamedZone"]

UncheckedInput(r) ==
    /\ r.type.image \in WithOS
    /\ \E section \in DOMAIN Unchecked : Section(r, section) /\ Unchecked[section] \in r.bad

(* The panics in serializeEnd are never met, nor those of osCustomizations *)
(* for files, directories and repositories, which were checked before.     *)
(* Those that can be met: in the image functions, what ValidateConfig only *)
(* warned of (OpenSCAP in a commit, a simplified installer without         *)
(* customizations) and an UncheckedInput; in the image definitions, a      *)
(* compression nobody knows or of an image format; in serialize, a file of *)
(* the host that has gone, the boot files of a deployed container, options *)
(* a stage refuses, and the first boot of a bootable container with        *)
(* neither a URL nor Empty.                                                *)
PanicsKnown ==
    pc = "panicked" =>
        \/ /\ calls # << >> /\ custom = << >>
           /\ LET r == Head(calls)
              IN  (warned /\ ~ValidateConfig(r.type, r.bp)) \/ UncheckedInput(r)
        \/ InstantiateManifestPanics(img)
        \/ "UriFiles" \in img.opts /\ out # << >>
        \/ "InvalidOptions" \in img.opts
        \/ img.kind = "bootc-legacy-disk" /\ "TreeBootFiles" \in img.opts
        \/ /\ img.kind = "bootc-disk" /\ {"Ignition", "NoProvisioningURL"} \subseteq img.opts
           /\ "EmptyFirstboot" \notin img.opts

-----------------------------------------------------------------------------
(* The stage that makes a boot image of an ISO.                            *)
MakerOf == [efiboot |-> "mkfs.fat", isolinux |-> "isolinux", eltorito |-> "grub2.inst",
            cdboot |-> "mks390image"]

(* xorrisofs finds every boot image its options name in the tree it makes  *)
(* the ISO from: the type of boot the ISO was told of and the boot loaders *)
(* the tree was given agree.                                               *)
BootImagesMade ==
    \A i \in DOMAIN out : \A u \in UsedBy(out[i]) :
        u[1] = "tree" =>
            \E j \in 1..(i - 1) : \E k \in DOMAIN out[j].stages :
                /\ out[j].name = Named(pipelines, out[i].name).of.tree
                /\ out[j].stages[k].type = MakerOf[u[2]]

(* Stages that change no file of the tree they run in, or that make the    *)
(* labels themselves.                                                      *)
AfterLabels == {"selinux", "ostree.preptree", "bootupd.gen-metadata", "bootc.install.config"}

(* The stages before the packages: their scripts read what these write.    *)
BeforePackages == {"kernel-cmdline", "dracut.conf", "ostree.passwd"}

(* Packages are installed before anything else touches a tree, whatever is *)
(* written to it is written before the files are labelled, and units exist *)
(* before the services of the last systemd stage are enabled.              *)
TreeOrder ==
    \A i \in DOMAIN out :
        LET s == out[i].stages
            At(t) == {k \in DOMAIN s : s[k].type = t}
        IN  /\ \A r \in At("rpm") : \A k \in 1..(r - 1) : s[k].type \in BeforePackages
            /\ \A l \in At("selinux") : \A k \in (l + 1)..Len(s) : s[k].type \in AfterLabels
            /\ \A u \in At("systemd.unit.create") :
                 At("systemd") # {} => \E k \in At("systemd") : k > u
=============================================================================
