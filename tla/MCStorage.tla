----------------------------- MODULE MCStorage -----------------------------
(***************************************************************************)
(* An instance of three parts of the storage below the filesystems: block  *)
(* devices (Blocks), the log (LogDisk) and the contents of EXT2 files      *)
(* (Ext2File). They share no memory, so a behaviour steps one of them; the *)
(* others stay as they were initialised.                                   *)
(*                                                                         *)
(* Disk 0 has two partitions, disk 2 has one, and each table has one more  *)
(* or none from past the buffer.                                           *)
(* The first file has nine blocks: with one direct block and two numbers   *)
(* to an indirect one, its last blocks are three levels down.              *)
(***************************************************************************)
EXTENDS Blocks, LogDisk, Ext2File

VARIABLE part      \* the part that a behaviour steps

Entry(id, start, length) == [id |-> id, start |-> start, length |-> length]
Empty == Entry(0, 0, 0)
MCAnswers == {<<"found", "absent", "found", "error">>}
MCTable   == (0 :> <<Entry(1, 1, 2), Empty, Entry(1, 3, 1), Empty>>) @@ (2 :> <<Empty, Empty, Entry(3, 2, 1), Empty>>)
               @@ [u \in {1, 3} |-> NoTable]
MCBeyond  == {Empty, Entry(5, 6, 9)}
MCFiles   == <<[size |-> 17, blocks |-> <<2, 3, 4, 5, 6, 7, 8, 9, 10>>], [size |-> 2, blocks |-> <<11>>]>>

MCInit == part \in {"blocks", "log", "file"} /\ BlocksInit /\ LogInit /\ FileInit
BlocksStep == part = "blocks" /\ BlocksNext /\ UNCHANGED <<part, lvars, fvars>>
LogStep    == part = "log"    /\ LogNext    /\ UNCHANGED <<part, bvars, fvars>>
FileStep   == part = "file"   /\ FileNext   /\ UNCHANGED <<part, bvars, lvars>>
MCSpec == MCInit /\ [][BlocksStep \/ LogStep \/ FileStep]_<<part, bvars, lvars, fvars>>
=============================================================================
