----------------------------- MODULE MCRelayout -----------------------------
\* Instances of Relayout: sizes in units of 128 bytes, so MiB is 2^13 of them.
EXTENDS Relayout
MiB == 8192
P(kind, luks, s, content) == [kind |-> kind, luks |-> luks, size |-> s, content |-> content]
\* A raw, an empty and an unaligned partition, volumes that outgrow theirs.
Others == {P("plain", FALSE, 0, 0), P("plain", FALSE, 10 * MiB + 1, 0),
           P("lvm", FALSE, 4 * MiB, 12 * MiB), P("btrfs", FALSE, 0, 5 * MiB),
           P("lvm", TRUE, 32 * MiB, 8 * MiB), P("plain", TRUE, 8 * MiB, 0)}
\* Root as a file system, converted to LVM or btrfs (size 0), inside LUKS.
Roots == {P("plain", FALSE, 20 * MiB, 0), P("lvm", FALSE, 0, 8 * MiB),
          P("btrfs", FALSE, 0, 3 * MiB + 7), P("lvm", TRUE, 0, 8 * MiB)}
Table(s, root) ==
    [i \in DOMAIN s |-> [id |-> i, start |-> 0, size |-> s[i].size, root |-> i = root,
                         kind |-> s[i].kind, luks |-> s[i].luks, content |-> s[i].content]]
MCTables ==
    {Table(<<r>>, 1) : r \in Roots}
      \cup {Table(<<r, o>>, 1) : r \in Roots, o \in Others}
      \cup {Table(<<o, r, q>>, 2) : r \in Roots, o \in Others, q \in Others}
MCDiskSizes == {0, 100 * MiB}
MCImageSizes == {0, 150 * MiB + 3}
=============================================================================
