------------------------------ MODULE MCVfs ------------------------------
(***************************************************************************)
(* An instance of Vfs: an EXT2 disk, a SORFS disk and a device without a   *)
(* file system under the same name; paths of the kinds the shells build    *)
(* ("//m" is what cat makes of "m" in the directory "/"). A device's copy  *)
(* in devfs is reached once devfs is mounted on "/m" as well. The SORFS    *)
(* disk may be mounted twice, on "/m" and on "/".                          *)
(***************************************************************************)
EXTENDS Vfs

MCDevs     == 1..3
MCDevName  == <<"hd", "rd", "rd">>
MCDiskType == <<"ext2", "sorfs", "none">>
MCDisk0    == << (<<"m">> :> "dir") @@ (<<"m", "f">> :> "file"), (<<"f">> :> "file") @@ (<<"d">> :> "dir"), <<>> >>
MCPaths    == {Relative, Root, <<"proc", "pci">>, <<"m", "f">>, <<"m", "d", "f">>, <<"", "m">>, <<"m", "hd">>, <<"dev", "">>}
MCModPaths == {<<"m", "hd">>, <<"dev", "hd">>}
MCDevPaths == {<<"dev", "rd">>, <<"m", "hd">>}
MCMountPaths == {Root, <<"m">>, <<"", "">>}
=============================================================================
