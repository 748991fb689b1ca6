---------------------------- MODULE MCDiskLayout ----------------------------
\* Instances of DiskLayout: base tables as the image definitions have them,
\* sizes in units of 128 bytes.
EXTENDS DiskLayout
MiB == 8192
G == 1024 * MiB
P(id, s, root, kind, luks, content) ==
    [id |-> id, start |-> 0, size |-> s, root |-> root, kind |-> kind, luks |-> luks, content |-> content]
On(id, s) == [on |-> id, size |-> s]
Bios == P(1, MiB, FALSE, "plain", FALSE, 0)
BootPart == P(2, 500 * MiB, FALSE, "plain", FALSE, 0)
\* Root on a partition, without and with /boot; on LVM; on btrfs, without and
\* with /boot in it; in LUKS.
Plain == [parts |-> <<Bios, P(2, 2 * G, TRUE, "plain", FALSE, 0)>>,
          fs |-> "/" :> On(2, 0), size |-> 0]
PlainBoot == [parts |-> <<P(3, 2 * G, TRUE, "plain", FALSE, 0), BootPart>>,
              fs |-> "/" :> On(3, 0) @@ "/boot" :> On(2, 0), size |-> 0]
LVM == [parts |-> <<BootPart, P(3, 3 * G, TRUE, "lvm", FALSE, 3 * G)>>,
        fs |-> "/" :> On(3, 2 * G) @@ "/home" :> On(3, G) @@ "/boot" :> On(2, 0), size |-> 8 * G]
BtrfsRoot == [parts |-> <<BootPart, P(3, 10 * G, TRUE, "btrfs", FALSE, 5 * G)>>,
          fs |-> "/" :> On(3, 0) @@ "/var" :> On(3, 5 * G) @@ "/boot" :> On(2, 0), size |-> 0]
BtrfsBoot == [parts |-> <<P(3, 5 * G, TRUE, "btrfs", FALSE, 0)>>,
          fs |-> "/" :> On(3, 0) @@ "/boot" :> On(3, 0) @@ "/home" :> On(3, 0), size |-> 0]
LUKSLVM == [parts |-> <<BootPart, P(3, 5 * G, TRUE, "lvm", TRUE, 4 * G)>>,
            fs |-> "/" :> On(3, 2 * G) @@ "/home" :> On(3, 2 * G) @@ "/boot" :> On(2, 0), size |-> 0]
LUKSPlain == [parts |-> <<BootPart, P(3, 3 * G, TRUE, "plain", TRUE, 0)>>,
              fs |-> "/" :> On(3, 0) @@ "/boot" :> On(2, 0), size |-> 0]
\* Three partitions, of the four a DOS table can have.
Three == [parts |-> <<Bios, P(2, G, FALSE, "plain", FALSE, 0), P(3, 2 * G, TRUE, "plain", FALSE, 0)>>,
          fs |-> "/" :> On(3, 0) @@ "/home" :> On(2, 0), size |-> 0]
MCBases == {Plain, PlainBoot, LVM, BtrfsRoot, BtrfsBoot, LUKSLVM, LUKSPlain, Three}
M(m, s) == [mount |-> m, size |-> s]
MCCustoms == {<<>>, <<M("/", 6 * G)>>, <<M("/boot", 100)>>, <<M("/home", 2 * G + 5)>>,
              <<M("/var", G + 1), M("/home", 3 * G), M("/boot", G + 3)>>,
              <<M("/home", 0), M("/", 3 * G + 7), M("/home", 3 * G)>>}
MCModes == {"raw", "lvm", "auto-lvm", "btrfs"}
\* The default of NewPartitionTable, none, and one with two users of /home.
MCRequired == {"/" :> G @@ "/usr" :> 2 * G, <<>>,
               "/" :> 7 * G @@ "/home/a" :> 2 * G @@ "/home" :> 3 * G @@ "/var" :> 2 * G + 1}
MCAncestors == "/" :> <<"/">> @@ "/usr" :> <<"/usr", "/">> @@ "/var" :> <<"/var", "/">>
                 @@ "/home" :> <<"/home", "/">> @@ "/home/a" :> <<"/home/a", "/home", "/">>
MCImageSizes == {10 * G + 9}
=============================================================================
