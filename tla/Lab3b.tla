-------------------------------- MODULE Lab3b --------------------------------
(***************************************************************************)
(* Project 3B, lab3b.py: the audit of lab3a's rows.  process_data scans the *)
(* rows, then audits the blocks, the inodes and, row by row, the names.  A *)
(* complaint is a sequence of its kind and what it is about; offsets and   *)
(* names in it are left out.  The dictionaries of the program are          *)
(* functions of the rows.                                                  *)
(***************************************************************************)
EXTENDS Lab3a

VARIABLES
  place,        \* where the audit is, or how it has ended
  line,         \* the row that is looked at
  complaints    \* what has been printed

lab3bVars == <<place, line, complaints>>

Init3b ==
  /\ place = "read"
  /\ line = 1
  /\ complaints = {}

Rows(kind) == SelectSeq(rows, LAMBDA row : row[1] = kind)

-----------------------------------------------------------------------------
(***************************************************************************)
(* What process_data has of the rows.                                      *)
(***************************************************************************)
total_blocks == Last(Rows("SUPERBLOCK"))[2]
total_inodes == Last(Rows("SUPERBLOCK"))[3]
block_size == Last(Rows("SUPERBLOCK"))[4]
inode_size == Last(Rows("SUPERBLOCK"))[5]
first_inode == Last(Rows("SUPERBLOCK"))[6]

\* After the inodes of the last group.
datablock_i == Last(Rows("GROUP"))[4] + (inode_size * total_inodes) \div block_size

b_free == {row[2] : row \in ToSet(Rows("BFREE"))}
i_free == {row[2] : row \in ToSet(Rows("IFREE"))}

\* The pointers in a row, each with the inode it belongs to.
References(row) ==
  CASE row[1] = "INODE" ->
         LET used == SelectSeq(row[5], LAMBDA block_i : block_i # 0)
         IN [k \in 1..Len(used) |-> <<used[k], row[2]>>]
    [] row[1] = "INDIRECT" -> <<<<row[6], row[2]>>>>
    [] OTHER -> <<>>

\* block_dict: all references to a block.
ReferencesTo(block_i) ==
  SelectSeq(FlattenSeq([n \in 1..Len(rows) |-> References(rows[n])]),
            LAMBDA reference : reference[1] = block_i)

\* inode_dict: the inodes with a row, and the links the first row says they have.
HasInode(i) == \E n \in 1..Len(rows) : rows[n][1] = "INODE" /\ rows[n][2] = i

LinkCount(i) == Rows("INODE")[SelectInSeq(Rows("INODE"), LAMBDA row : row[2] = i)][4]

\* inodecount_dict
Links(i) == Len(SelectSeq(Rows("DIRENT"), LAMBDA row : row[4] = i))

\* dirent_dict: the first row that names an inode, 0 if there is none.  Names come
\* with their quotation marks, and so none is left out.
FirstNaming(i) ==
  SelectInSeq(Rows("DIRENT"), LAMBDA row : row[4] = i /\ row[5] \notin {".", ".."})

-----------------------------------------------------------------------------
Goes(to, found) ==
  /\ place' = to
  /\ line' = 1
  /\ complaints' = complaints \union found

\* Without its first rows a summary leaves variables unset.
ReadSummary ==
  /\ place = "read"
  /\ \/ Goes(IF Rows("SUPERBLOCK") = <<>> \/ Rows("GROUP") = <<>> THEN "exit 1" ELSE "scan", {})
     \/ Goes("exit 1", {})

\* An INODE row without columns for blocks ends the program.
ScanRow ==
  /\ place = "scan" /\ line <= Len(rows)
  /\ LET row == rows[line]
         found == {<<IF reference[1] > total_blocks - 1 \/ reference[1] < 0
                       THEN "INVALID" ELSE "RESERVED", reference[1], reference[2]>> :
                     reference \in {r \in ToSet(References(row)) :
                                      r[1] \notin datablock_i..total_blocks - 1}}
     IN IF row[1] = "INODE" /\ row[5] = <<>>
          THEN Goes("exit 1", {})
          ELSE /\ line' = line + 1
               /\ complaints' = complaints \union found
               /\ UNCHANGED place

\* Mutant of AuditBlocks: the last block is left out.
AuditAllButLast ==
  /\ place = "scan" /\ line > Len(rows)
  /\ LET data == datablock_i..total_blocks - 2
     IN Goes("inodes",
          {<<"UNREFERENCED", b>> : b \in {c \in data \ b_free : ReferencesTo(c) = <<>>}}
          \union {<<"ALLOCATED BLOCK", b>> : b \in {c \in data \intersect b_free : ReferencesTo(c) # <<>>}}
          \union UNION {{<<"DUPLICATE", b, r[2]>> : r \in ToSet(ReferencesTo(b))} :
                          b \in {c \in data : Len(ReferencesTo(c)) > 1}})

AuditBlocks ==
  /\ place = "scan" /\ line > Len(rows)
  /\ LET data == datablock_i..total_blocks - 1
     IN Goes("inodes",
          {<<"UNREFERENCED", b>> : b \in {c \in data \ b_free : ReferencesTo(c) = <<>>}}
          \union {<<"ALLOCATED BLOCK", b>> : b \in {c \in data \intersect b_free : ReferencesTo(c) # <<>>}}
          \union UNION {{<<"DUPLICATE", b, r[2]>> : r \in ToSet(ReferencesTo(b))} :
                          b \in {c \in data : Len(ReferencesTo(c)) > 1}})

\* The root, and the inodes that are not reserved.
AuditInodes ==
  /\ place = "inodes"
  /\ LET inodes == {2} \union first_inode..total_inodes
         there == {i \in inodes : HasInode(i)}
     IN Goes("names",
          {<<"ALLOCATED INODE", i>> : i \in there \intersect i_free}
          \union {<<"UNALLOCATED INODE", i>> : i \in (inodes \ there) \ i_free}
          \union {<<"LINKS", i, Links(i)>> : i \in {j \in there : LinkCount(j) # Links(j)}})

\* A directory that no row names has no parent to compare with.
AuditName ==
  /\ place = "names" /\ line <= Len(rows)
  /\ LET row == rows[line]
         directory == row[2]
         inode_i == row[4]
         parent == Rows("DIRENT")[FirstNaming(directory)][2]
         entry == IF inode_i \notin 1..total_inodes THEN {<<"INVALID ENTRY", directory, inode_i>>}
                  ELSE IF ~HasInode(inode_i) THEN {<<"UNALLOCATED ENTRY", directory, inode_i>>}
                  ELSE {}
     IN IF row[1] # "DIRENT"
          THEN line' = line + 1 /\ UNCHANGED <<place, complaints>>
        ELSE IF row[5] = "'..'" /\ FirstNaming(directory) = 0
          THEN Goes("exit 1", entry)
        ELSE /\ line' = line + 1
             /\ complaints' = complaints \union entry
                  \union (IF row[5] = "'.'" /\ inode_i # directory
                            THEN {<<"SELF", directory, inode_i>>} ELSE {})
                  \union (IF row[5] = "'..'" /\ inode_i # parent
                            THEN {<<"PARENT", directory, inode_i>>} ELSE {})
             /\ UNCHANGED place

\* The exit_code that main tests is its own, and always 0.
EndAudit ==
  /\ place = "names" /\ line > Len(rows)
  /\ Goes("exit 0", {})

lab3b ==
  /\ ReadSummary \/ ScanRow \/ AuditBlocks \/ AuditInodes \/ AuditName \/ EndAudit
  /\ UNCHANGED rows
=============================================================================
