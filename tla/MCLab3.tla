-------------------------------- MODULE MCLab3 --------------------------------
(***************************************************************************)
(* Lab3 for TLC: a file system of 24 blocks and 16 inodes with a root, a   *)
(* subdirectory and a file that uses all three levels of indirect blocks,  *)
(* sound or damaged in one of many ways, or in two.  Two pointers fit in a *)
(* block.                                                                  *)
(***************************************************************************)
EXTENDS Lab3

Entry(inode, rec_len, name) == [inode |-> inode, rec_len |-> rec_len, name |-> name]

Inode(type, links, size, direct, indirect) ==
  [mode |-> 1, type |-> type, links |-> links, size |-> size,
   block |-> direct \o [k \in 1..12 - Len(direct) |-> 0] \o indirect]

NoInode == [mode |-> 0, type |-> " ", links |-> 0, size |-> 0, block |-> <<0>> \o [k \in 1..14 |-> 0]]

Sound ==
  [blocks |-> 24, blocks_per_group |-> 64, first_data_block |-> 1,
   inodes |-> 16, inodes_per_group |-> 16, inode_size |-> 128, first_ino |-> 11,
   group |-> <<[inode_table |-> 5, free_blocks |-> 20..22, free_inodes |-> 13..15]>>,
   inode |-> <<NoInode, Inode("d", 3, 1024, <<7>>, <<0, 0, 0>>), NoInode, NoInode, NoInode,
               NoInode, NoInode, NoInode, NoInode, NoInode,
               Inode("d", 2, 1024, <<0>>, <<8, 0, 0>>),
               Inode("f", 1, 1024, <<10>>, <<11, 13, 16>>),
               Inode("s", 1, 100, <<20>>, <<0, 0, 0>>), NoInode, NoInode, NoInode>>,
   directory |-> (
     7 :> (0 :> Entry(2, 12, ".") @@ 12 :> Entry(2, 12, "..") @@ 24 :> Entry(11, 500, "sub")
           @@ 524 :> Entry(0, 100, "gone") @@ 624 :> Entry(12, 400, "file"))
     @@ 9 :> (0 :> Entry(11, 12, ".") @@ 12 :> Entry(2, 512, "..") @@ 524 :> Entry(13, 500, "link"))),
   pointers |-> (
     8 :> <<9, 0>> @@ 11 :> <<0, 12>> @@ 13 :> <<14, 0>> @@ 14 :> <<15, 0>>
     @@ 16 :> <<0, 17>> @@ 17 :> <<18, 0>> @@ 18 :> <<0, 19>>)]

Group(fs, field, value) ==
  [fs EXCEPT !.group = <<[fs.group[1] EXCEPT ![field] = value]>>]

Point(fs, i, m, b) == [fs EXCEPT !.inode[i].block[m] = b]

\* One thing is wrong.
Damaged(fs) ==
  <<Group(fs, "free_blocks", 20..21), Group(fs, "free_blocks", {9, 20, 21, 22}),
   Group(fs, "free_inodes", 14..15), Group(fs, "free_inodes", 12..15),
   Group(fs, "free_inodes", {14}),
   Point(fs, 12, 1, 99), Point(fs, 12, 2, 3), Point(fs, 12, 3, -1),
   Point(fs, 12, 2, 12), Point(fs, 12, 13, 0), Point(fs, 12, 14, 11),
   Point(fs, 12, 15, 2^22 + 16), Point(fs, 12, 13, 99),
   [fs EXCEPT !.pointers[17] = <<18, 14>>],
   [fs EXCEPT !.inode[11].links = 3], [fs EXCEPT !.inode[2].links = 0],
   [fs EXCEPT !.directory[7][24].inode = 0],
   [fs EXCEPT !.directory[7][624].inode = 14],
   [fs EXCEPT !.directory[7][624].inode = 99],
   [fs EXCEPT !.directory[9][0].inode = 2],
   [fs EXCEPT !.directory[9][12].inode = 12],
   [fs EXCEPT !.directory[9][0].inode = 2, !.directory[7][24].inode = 0],
   [fs EXCEPT !.directory[7][524].rec_len = 0],
   [fs EXCEPT !.inode[13].size = 10], [fs EXCEPT !.blocks = 22]>>

One == Damaged(Sound)

\* There is a boot block, and read as pointers it has one.
Booted == [Sound EXCEPT !.pointers = @ @@ (0 :> <<18, 0>>)]

\* The root has the same entry twice.
Twins ==
  [Sound EXCEPT !.inode[12].links = 2, !.directory[7] =
     [o \in {0, 12, 24} |-> @[o]] @@ 524 :> Entry(12, 250, "file") @@ 774 :> Entry(12, 250, "file")]

\* The subdirectory is in a directory with a higher number.
Elder ==
  [Sound EXCEPT
     !.directory = [@ EXCEPT ![7][24].inode = 13, ![9] = 0 :> Entry(11, 12, ".") @@ 12 :> Entry(13, 1012, "..")]
                   @@ 20 :> (0 :> Entry(13, 12, ".") @@ 12 :> Entry(2, 12, "..") @@ 24 :> Entry(11, 1000, "deep")),
     !.inode[13] = Inode("d", 3, 1024, <<20>>, <<0, 0, 0>>)]

\* There is an empty root only, and its second block is beyond the end of the image.
Beyond ==
  [Sound EXCEPT
     !.directory = 7 :> (0 :> Entry(2, 512, ".") @@ 512 :> Entry(2, 512, "..")),
     !.inode = [i \in 1..16 |-> IF i = 2 THEN Inode("d", 2, 2048, <<7, 99>>, <<0, 0, 0>>) ELSE NoInode]]

\* Nothing is wrong with the first four, one thing or two with the others.
Images ==
  <<Sound, Booted, Twins, Elder, Beyond, Point(Sound, 2, 2, 7), Point(Booted, 12, 1, 99)>>
  \o One \o Damaged(One[9]) \o Damaged(One[20]) \o Damaged(Elder)

\* A name for Images: TLC keeps the value of a definition, not of what stands for a constant.
MCDisks == Images

MCPointers == 2
=============================================================================
