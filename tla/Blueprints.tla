----------------------------- MODULE Blueprints -----------------------------
(***************************************************************************)
(* What is asked of an image type and how it is checked: ValidateConfig    *)
(* (pkg/distro/validator.go) and checkOptions (pkg/distro/generic).  A     *)
(* request is [type, bp, options, mode, bad]: bp is the set of the paths   *)
(* of the blueprint that are set, such as <<"kernel", "append">>, without  *)
(* the "customizations" they begin with; options the image options that    *)
(* are set; mode the partitioning mode; bad the inputs that a validating   *)
(* function of the blueprint library or of this package rejects.           *)
(***************************************************************************)
EXTENDS Images

Given(r, path) == path \in r.bp

Section(r, name) == \E p \in r.bp : p[1] = name

(* The parts of a blueprint that are not customizations.                   *)
Contents == {"distro", "packages", "enabled_modules", "containers"}

NilCustomizations(r) == \A p \in r.bp : p[1] \in Contents

IsOSTreeBasedImageType(t) == "OSTree" \in t.flags

-----------------------------------------------------------------------------
IsPrefixOf(s, p) == Len(s) <= Len(p) /\ SubSeq(p, 1, Len(s)) = s

(* The recursion goes down as long as the list has something below the     *)
(* key: a key that is listed both whole and in part is supported in part.  *)
supports(supported, p) ==
    LET listed == {k \in 1..Len(p) : \E s \in supported : Len(s) > k /\ IsPrefixOf(SubSeq(p, 1, k), s)}
        leaf == Cardinality(listed) + 1
    IN  leaf <= Len(p) /\ SubSeq(p, 1, leaf) \in supported

validateSupportedConfig(t, bp) == \A p \in bp : supports(t.supported, p)

validateRequiredConfig(t, bp) == \A q \in t.required : \E p \in bp : IsPrefixOf(q, p)

ValidateConfig(t, bp) == validateSupportedConfig(t, bp) /\ validateRequiredConfig(t, bp)

-----------------------------------------------------------------------------
(* ImageOptions.Validate of package ostree.                                *)
OSTreeOptionsInvalid(r) ==
    "BadOSTree" \in r.bad \/ ("ParentRef" \in r.options /\ "OSTreeURL" \notin r.options)

OSTreeRefused(r) ==
    LET t == r.type
    IN  \/ ~IsOSTreeBasedImageType(t) /\ "OSTree" \in r.options
        \/ t.modes # {} /\ r.mode \notin t.modes
        \/ "OSTree" \in r.options /\ OSTreeOptionsInvalid(r)
        \/ /\ t.flags \intersect {"BootISO", "Bootable"} # {} /\ IsOSTreeBasedImageType(t)
           /\ "DefaultURL" \notin t.flags /\ "OSTreeURL" \notin r.options

(* FDO needs a server and exactly one way to know its key; an Ignition     *)
(* configuration is either embedded or fetched, and then has a URL.        *)
IgnitionRefused(r) ==
    \/ Section(r, "fdo") /\ "BadFDO" \in r.bad
    \/ Section(r, "ignition") /\ "BadIgnition" \in r.bad
    \/ {<<"ignition", "embedded">>, <<"ignition", "firstboot">>} \subseteq r.bp
    \/ Given(r, <<"ignition", "firstboot">>) /\ "NoProvisioningURL" \in r.bad

PartitioningRefused(r) ==
    \/ Section(r, "disk") /\ Section(r, "filesystem")
    \/ (Section(r, "disk") \/ Section(r, "filesystem")) /\ "BadMountpoint" \in r.bad
    \/ Section(r, "disk") /\ "BadDisk" \in r.bad

OpenSCAPRefused(r) == Section(r, "openscap") /\ "BadProfile" \in r.bad

(* Files and directories below what the policy of the kind of image, with  *)
(* or without OSTree, protects; groups.                                    *)
FilesRefused(r) ==
    \/ (Section(r, "files") \/ Section(r, "directories")) /\ "BadPath" \in r.bad
    \/ Section(r, "group") /\ "BadGroup" \in r.bad

RepositoriesRefused(r) == Section(r, "repositories") /\ "BadRepository" \in r.bad

InstallerRefused(r) ==
    \/ Section(r, "installer") /\ "BadInstaller" \in r.bad
    \/ Given(r, <<"installer", "kickstart">>) /\ (Section(r, "user") \/ Section(r, "group"))

checkOptionsCommon(r) ==
    \/ OSTreeRefused(r) \/ IgnitionRefused(r) \/ PartitioningRefused(r)
    \/ OpenSCAPRefused(r) \/ FilesRefused(r) \/ RepositoriesRefused(r) \/ InstallerRefused(r)

(* An id is [name, major, minor]; a rolling release has no minor version.  *)
NoMinor == 999

checkOptionsRhel9(r) == Section(r, "openscap") /\ r.type.id.minor = 0

(* Without a minor version "8" is less than "8.7".                         *)
checkOptionsRhel8(r) ==
    \/ Given(r, <<"disk", "swap">>) /\ r.type.arch = "aarch64"
    \/ Section(r, "openscap") /\ (r.type.id.minor < 7 \/ r.type.id.minor = NoMinor)

(* checkOptions returns an error.                                          *)
checkOptionsFails(r) ==
    \/ checkOptionsCommon(r)
    \/ r.type.idLike = "EL8" /\ checkOptionsRhel8(r)
    \/ r.type.idLike = "EL9" /\ checkOptionsRhel9(r)

(* A blueprint the type does not support is only warned of, and so is FIPS *)
(* on a host without it.                                                   *)
checkOptionsWarns(r) ==
    ~ValidateConfig(r.type, r.bp) \/ (Given(r, <<"fips">>) /\ "HostFIPS" \notin r.options)
=============================================================================
