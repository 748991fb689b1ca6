---------------------------- MODULE MCCustomDisk ----------------------------
\* Instances of CustomDisk: what blueprints list, sizes in units of 128 bytes.
EXTENDS CustomDisk
MiB == 8192
G == 1024 * MiB
R(kind, s, vols) == [kind |-> kind, size |-> s, vols |-> vols]
Swap == Bare(G)
Efi == Plain("/boot/efi", 100 * MiB)
Boot == Plain("/boot", G)
Root == Plain("/", 3 * G + 1)
Data == Plain("/data", 2 * G)
LVMRoot == R("lvm", 3 * G, "/" :> 2 * G + 7 @@ "/home" :> G @@ "swap" :> G)
LVMData == R("lvm", 8 * G, "/data" :> G)
LVMSrv == R("lvm", 8 * G, "/srv" :> G)
BtrfsRoot == R("btrfs", 2 * G, "/" :> 0 @@ "/home" :> 0)
BtrfsBoot == R("btrfs", 2 * G, "/" :> 0 @@ "/boot" :> 0)
BtrfsData == R("btrfs", 3 * G, "/home" :> 0 @@ "/data" :> 0)
BtrfsOnlyBoot == R("btrfs", G, "/boot" :> 0)
MCRequests == {Swap, Efi, Boot, Root, Data, LVMRoot, LVMData, LVMSrv, BtrfsRoot, BtrfsBoot,
               BtrfsData, BtrfsOnlyBoot}
MCCustoms == {<<>>, <<Data, Swap>>, <<Root, Efi>>, <<LVMData, Root>>,
              <<LVMRoot>>, <<Efi, LVMRoot, Boot>>, <<Data, LVMSrv>>, <<LVMData, Boot>>,
              <<BtrfsRoot, Swap>>, <<BtrfsBoot>>, <<BtrfsData>>, <<BtrfsData, Boot>>, <<BtrfsOnlyBoot>>}
B(a, m) == [arch |-> a, mode |-> m]
MCBoots == {B("x86_64", "none"), B("x86_64", "legacy"), B("x86_64", "uefi"), B("x86_64", "hybrid"),
            B("aarch64", "uefi"), B("ppc64le", "legacy"), B("s390x", "legacy")}
MCRequired == {<<>>, "/" :> G @@ "/usr" :> 2 * G,
               "/" :> 2 * G @@ "/home/a" :> 2 * G @@ "/data" :> 3 * G}
MCAncestors == "/" :> <<"/">> @@ "/usr" :> <<"/usr", "/">> @@ "/data" :> <<"/data", "/">>
                 @@ "/home/a" :> <<"/home/a", "/home", "/">>
MCImageSizes == {10 * G + 9}
=============================================================================
