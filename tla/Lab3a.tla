-------------------------------- MODULE Lab3a --------------------------------
(***************************************************************************)
(* Project 3A, lab3a.c: the summary of an ext2 image, one row for each     *)
(* group, free block, free inode, allocated inode, directory entry and     *)
(* pointer of an indirect block.  The program is what it has still to      *)
(* call, a stack of calls, each a sequence of its name and its arguments;  *)
(* a row is a sequence of its name and the columns that lab3b reads.       *)
(*                                                                         *)
(* An image is a record: its numbers of blocks and inodes, its groups, its *)
(* inodes, and what its blocks hold when they are read as a directory (a   *)
(* function from offsets to entries) or as pointers (a sequence).  A block *)
(* that is neither holds zeros.  Blocks have 1024 bytes, as the program    *)
(* assumes before it has read the superblock.                              *)
(***************************************************************************)
EXTENDS Integers, Sequences, FiniteSets, SequencesExt

CONSTANTS
  Disks,       \* the images that are summarised, a sequence
  Pointers     \* the number of pointers in a block

ASSUME Lab3aAssumption ==
  /\ Pointers \in Nat \ {0}
  /\ \A d \in DOMAIN Disks :
       /\ Disks[d].blocks \in Nat /\ Disks[d].inodes_per_group % 8 = 0
       /\ \A b \in DOMAIN Disks[d].pointers : Len(Disks[d].pointers[b]) = Pointers
       /\ \A i \in 1..Disks[d].inodes : Len(Disks[d].inode[i].block) = 15

VARIABLES
  disk,        \* which image it is
  calls,       \* the calls that are still to be made
  rows         \* the rows that have been printed

lab3aVars == <<calls, rows>>

image == Disks[disk]

BlockSize == 1024

Init3a ==
  /\ disk \in DOMAIN Disks
  /\ calls = <<<<"open">>>>
  /\ rows = <<>>

Running(name) == calls # <<>> /\ Head(calls)[1] = name

\* The k-th argument of the call that runs.
Arg(k) == Head(calls)[k + 1]

CallsInstead(callees) == calls' = callees \o Tail(calls)

Return == calls' = Tail(calls)

-----------------------------------------------------------------------------
open ==
  /\ Running("open")
  /\ calls' \in {<<<<"process_superblock">>, <<"process_groups">>>>, <<>>}
  /\ UNCHANGED rows

process_superblock ==
  /\ Running("process_superblock")
  /\ rows' = Append(rows, <<"SUPERBLOCK", image.blocks, image.inodes, BlockSize,
                            image.inode_size, image.first_ino>>)
  /\ Return

process_groups ==
  /\ Running("process_groups")
  /\ LET per == image.blocks_per_group
         count == (image.blocks + per - 1) \div per
         size(n) == IF n = count THEN image.blocks - per * (count - 1) ELSE per
     IN CallsInstead(FlattenSeq([n \in 1..count |->
          <<<<"printf", <<"GROUP", n - 1, size(n), image.group[n].inode_table>>>>,
            <<"process_freeblocks", n, size(n)>>, <<"process_freeinodes", n>>>>]))
  /\ UNCHANGED rows

printf ==
  /\ Running("printf")
  /\ rows' = Append(rows, Arg(1))
  /\ Return

\* The bits of the last byte are left out when they do not fill it.
process_freeblocks ==
  /\ Running("process_freeblocks")
  /\ LET bits == 0..8 * (Arg(2) \div 8) - 1
         free == SetToSortSeq(bits \intersect image.group[Arg(1)].free_blocks, <)
         first == image.first_data_block + (Arg(1) - 1) * image.blocks_per_group
     IN rows' = rows \o [k \in 1..Len(free) |-> <<"BFREE", first + free[k]>>]
  /\ Return

\* Mutant of process_freeinodes: inodes are counted from 0.
FreeinodesFromZero ==
  /\ Running("process_freeinodes")
  /\ LET per == image.inodes_per_group
     IN CallsInstead([n \in 1..8 * (per \div 8) |->
          LET inode_i == n - 1 + (Arg(1) - 1) * per
          IN IF n - 1 \in image.group[Arg(1)].free_inodes
               THEN <<"printf", <<"IFREE", inode_i>>>>
               ELSE <<"process_inode_summary", inode_i>>])
  /\ UNCHANGED rows

\* Only inodes that the bitmap calls allocated are looked at.
process_freeinodes ==
  /\ Running("process_freeinodes")
  /\ LET per == image.inodes_per_group
     IN CallsInstead([n \in 1..8 * (per \div 8) |->
          LET inode_i == n + (Arg(1) - 1) * per
          IN IF n - 1 \in image.group[Arg(1)].free_inodes
               THEN <<"printf", <<"IFREE", inode_i>>>>
               ELSE <<"process_inode_summary", inode_i>>])
  /\ UNCHANGED rows

Allocated(i) == image.inode[i].mode # 0 /\ image.inode[i].links # 0

\* A symbolic link of up to 60 bytes, or a special file, is printed without blocks.
PrintsBlocks(inode) == inode.type \in {"d", "f"} \/ (inode.type = "s" /\ inode.size > 60)

process_inode_summary ==
  /\ Running("process_inode_summary")
  /\ LET inode_i == Arg(1)
         inode == image.inode[inode_i]
         used(from, to) == SelectSeq([k \in 1..(to - from + 1) |-> k + from - 1],
                                     LAMBDA m : inode.block[m] # 0)
         blocks == IF inode.type = "d" THEN used(1, 12) ELSE <<>>
         trees == IF inode.type # "s" THEN used(13, 15) ELSE <<>>
     IN IF Allocated(inode_i)
          THEN /\ rows' = Append(rows, <<"INODE", inode_i, inode.type, inode.links,
                                         IF PrintsBlocks(inode) THEN inode.block ELSE <<>>>>)
               /\ CallsInstead(
                    [k \in 1..Len(blocks) |->
                       <<"process_directory", inode_i, inode.block[blocks[k]], 0>>]
                    \o [k \in 1..Len(trees) |->
                         <<"process_indirect_block", inode_i, trees[k] - 12,
                           inode.block[trees[k]], <<12, 268, 65804>>[trees[k] - 12],
                           inode.type = "d">>])
          ELSE Return /\ UNCHANGED rows

-----------------------------------------------------------------------------
\* The byte offset of a block is computed in 32 bits.
Place(block_i) == block_i % 2^22

NoEntry == [inode |-> 0, rec_len |-> 0, name |-> ""]

\* What a read of an entry may leave: past the end of the image nothing is read, and
\* the variable holds what it held, nothing or an entry that was read before.
EntryRead(block_i, entry) ==
  LET b == Place(block_i)
      held == {image.directory[d][o] : <<d, o>> \in
                 {<<d, o>> \in (DOMAIN image.directory) \X (0..BlockSize - 1) :
                    o \in DOMAIN image.directory[d]}}
  IN IF b >= image.blocks THEN {NoEntry} \union held
     ELSE IF b \in DOMAIN image.directory /\ entry \in DOMAIN image.directory[b]
       THEN {image.directory[b][entry]}
       ELSE {NoEntry}

\* The same of a block of pointers, in memory from malloc.
PointersRead(block_i) ==
  LET b == Place(block_i)
      zeros == [k \in 1..Pointers |-> 0]
  IN IF b >= image.blocks THEN {zeros} \union {image.pointers[d] : d \in DOMAIN image.pointers}
     ELSE IF b \in DOMAIN image.pointers THEN {image.pointers[b]} ELSE {zeros}

\* Names are printed between quotation marks.
Quoted(name) == CASE name = "." -> "'.'" [] name = ".." -> "'..'" [] OTHER -> name

\* Mutant of process_directory: the walk goes on to the next entry only after printing.
DirectoryStays ==
  /\ Running("process_directory")
  /\ IF Arg(3) < BlockSize
       THEN \E entry \in EntryRead(Arg(2), Arg(3)) :
              IF entry.inode # 0
                THEN /\ rows' = Append(rows, <<"DIRENT", Arg(1), Arg(3), entry.inode,
                                               Quoted(entry.name)>>)
                     /\ CallsInstead(<<[Head(calls) EXCEPT ![4] = @ + entry.rec_len]>>)
                ELSE UNCHANGED lab3aVars
       ELSE Return /\ UNCHANGED rows

\* One round of the loop over the entries.
process_directory ==
  /\ Running("process_directory")
  /\ IF Arg(3) < BlockSize
       THEN \E entry \in EntryRead(Arg(2), Arg(3)) :
              /\ rows' = IF entry.inode # 0
                           THEN Append(rows, <<"DIRENT", Arg(1), Arg(3), entry.inode,
                                               Quoted(entry.name)>>)
                           ELSE rows
              /\ CallsInstead(<<[Head(calls) EXCEPT ![4] = @ + entry.rec_len]>>)
       ELSE Return /\ UNCHANGED rows

\* Mutant of process_indirect_block: only the pointers of the lowest level are printed.
IndirectLowestOnly ==
  /\ Running("process_indirect_block")
  /\ LET inode_i == Arg(1) indirection == Arg(2) block_i == Arg(3)
         logical_offset == Arg(4) directory == Arg(5)
     IN \E pointers \in PointersRead(block_i) :
          CallsInstead(
            IF indirection > 1
              THEN [k \in 1..Pointers |-> <<"process_indirect_block", inode_i,
                     indirection - 1, pointers[k], logical_offset, directory>>]
              ELSE FlattenSeq([k \in 1..Pointers |->
                     IF pointers[k] = 0 THEN <<>>
                     ELSE <<<<"printf", <<"INDIRECT", inode_i, indirection,
                              (k - 1) * indirection + logical_offset, block_i,
                              pointers[k]>>>>>>]))
  /\ UNCHANGED rows

\* Down a level for every pointer, the zeros too; then the block's own pointers, and at
\* the lowest level of a directory the entries.  All levels get the same offset.
process_indirect_block ==
  /\ Running("process_indirect_block")
  /\ LET inode_i == Arg(1) indirection == Arg(2) block_i == Arg(3)
         logical_offset == Arg(4) directory == Arg(5)
     IN \E pointers \in PointersRead(block_i) :
          CallsInstead(
            (IF indirection > 1
               THEN [k \in 1..Pointers |-> <<"process_indirect_block", inode_i,
                      indirection - 1, pointers[k], logical_offset, directory>>]
               ELSE <<>>)
            \o FlattenSeq([k \in 1..Pointers |->
                 IF pointers[k] = 0 THEN <<>>
                 ELSE (IF indirection = 1 /\ directory
                         THEN <<<<"process_directory", inode_i, pointers[k], 0>>>>
                         ELSE <<>>)
                      \o <<<<"printf", <<"INDIRECT", inode_i, indirection,
                             (k - 1) * indirection + logical_offset, block_i,
                             pointers[k]>>>>>>]))
  /\ UNCHANGED rows

lab3a ==
  /\ \/ open \/ process_superblock \/ process_groups \/ printf
     \/ process_freeblocks \/ process_freeinodes \/ process_inode_summary
     \/ process_directory \/ process_indirect_block
  /\ UNCHANGED disk

Lab3aTypeOK ==
  /\ disk \in DOMAIN Disks
  /\ \A n \in 1..Len(calls) :
       /\ calls[n][1] \in {"process_inode_summary", "process_directory",
                           "process_indirect_block"} => calls[n][2] \in 1..image.inodes
       /\ calls[n][1] = "process_directory" => calls[n][4] \in Nat
       /\ calls[n][1] = "process_indirect_block" => calls[n][3] \in 1..3
  /\ \A n \in 1..Len(rows) :
       /\ rows[n][1] \in {"SUPERBLOCK", "GROUP", "BFREE", "IFREE", "INODE", "DIRENT", "INDIRECT"}
       /\ rows[n][1] # "GROUP" => rows[n][2] \in 1..(image.blocks + image.inodes)
=============================================================================
