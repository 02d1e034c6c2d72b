------------------------------ MODULE MCExt2 ------------------------------
(***************************************************************************)
(* A disk as mkfs makes it: inodes 1 to 3 in use (2 is the root, 3 is      *)
(* lost+found), blocks 1 to 4 in use, the last two of them the two         *)
(* directories. Names of one to ten bytes; a block of 14 units of four     *)
(* bytes holds lost+found and about three entries more.                    *)
(***************************************************************************)
EXTENDS Ext2

MCNames   == {"a", "bb", "four", "lost+found"}
MCNameLen == [n \in MCNames |-> CASE n = "a" -> 1 [] n = "bb" -> 2 [] n = "four" -> 4 [] n = "lost+found" -> 10]

Dirent(i, r, n) == [ino |-> i, rec |-> r, name |-> n]
MkfsInode(t, b) == [type |-> t, links |-> 2, block |-> b, by |-> "mkfs"]
MCDisk0 ==
  [bbm |-> {0, 1, 2, 3}, ibm |-> {0, 1, 2}, fb |-> 2, fi |-> 3,
   inode |-> [i \in 1..6 |-> CASE i = 2 -> MkfsInode("dir", 3) [] i = 3 -> MkfsInode("dir", 4)
                               [] OTHER -> MkfsInode("none", 0)],
   dir |-> [b \in 3..6 |-> IF b = 3 THEN 0 :> Dirent(3, 14, "lost+found") ELSE [o \in {} |-> Blank]],
   boot |-> "intact"]
=============================================================================
