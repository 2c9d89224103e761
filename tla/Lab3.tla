--------------------------------- MODULE Lab3 ---------------------------------
(***************************************************************************)
(* Projects 3A and 3B together: lab3a summarises an image, lab3b audits    *)
(* the summary.  What they should find is defined here from the image      *)
(* itself, without rows.                                                   *)
(***************************************************************************)
EXTENDS Lab3b

vars == <<disk, calls, rows, place, line, complaints>>

Init == Init3a /\ Init3b

Summarise == lab3a /\ UNCHANGED lab3bVars

Audit == calls = <<>> /\ lab3b /\ UNCHANGED <<disk, calls>>

Next == Summarise \/ Audit

\* Both programs run on.
Spec == Init /\ [][Next]_vars /\ WF_vars(Summarise) /\ WF_vars(Audit)

Ended == place \in {"exit 0", "exit 1"}

-----------------------------------------------------------------------------
(***************************************************************************)
(* The image.  A pointer of an inode is given by the path that leads to    *)
(* it: its number in the inode, and its numbers in the blocks below.       *)
(***************************************************************************)
Deeper == UNION {[1..depth -> 1..Pointers] : depth \in 1..3}

Paths ==
  {<<m>> : m \in 1..15}
  \union {path \in {<<m>> \o deeper : m \in 13..15, deeper \in Deeper} :
            Len(path) <= path[1] - 11}

Below(block_i, k) ==
  IF block_i # 0 /\ Place(block_i) \in DOMAIN image.pointers
    THEN image.pointers[Place(block_i)][k] ELSE 0

PointerAt(i, path) == FoldLeft(Below, image.inode[i].block[path[1]], Tail(path))

\* The path ends in a block of data, not of pointers.
ToData(path) == path[1] <= 12 \/ Len(path) = path[1] - 11

InUse == {i \in 1..image.inodes : Allocated(i)}

Slots == {<<i, path>> \in InUse \X Paths : PointerAt(i, path) # 0}

\* The entries of the directories, each with the directory before it and, behind it, the
\* path to its block and its offset there, which tell equal entries apart.
Entries ==
  UNION {
    LET b == PointerAt(slot[1], slot[2])
    IN {<<slot[1], image.directory[b][o], slot[2], o>> : o \in DOMAIN image.directory[b]} :
    slot \in {s \in Slots : /\ image.inode[s[1]].type = "d" /\ ToData(s[2])
                            /\ PointerAt(s[1], s[2]) \in DOMAIN image.directory}}

Naming(i) == {e \in Entries : e[2].inode = i}

Held(b) == {Below(b, k) : k \in 1..Pointers} \ {0}

\* The pointers that block 0 holds, and those in the blocks they point to: the programs
\* meet them where an indirect block has a zero.  A blank block 0 has none.
HeldByBlock0 ==
  LET pointers == IF 0 \in DOMAIN image.pointers THEN ToSet(image.pointers[0]) \ {0} ELSE {}
  IN pointers \union UNION {Held(b) : b \in pointers}

\* Blocks of pointers are in the image, and blocks of directories hold entries that go on.
Readable ==
  /\ \A b \in HeldByBlock0 : Place(b) < image.blocks
  /\ \A slot \in Slots :
       LET b == PointerAt(slot[1], slot[2])
       IN /\ ~ToData(slot[2]) => Place(b) < image.blocks
          /\ ToData(slot[2]) /\ image.inode[slot[1]].type = "d" =>
               /\ b \in DOMAIN image.directory
               /\ \A o \in DOMAIN image.directory[b] : image.directory[b][o].rec_len > 0

\* The directories with an entry that names d, other than d itself and its children; the
\* root is its own.
Parents(d) ==
  IF d = 2 THEN {2} ELSE {e[1] : e \in {f \in Naming(d) : f[2].name \notin {".", ".."}}}

\* What the programs take for granted: one group of whole bytes, and every inode in use
\* has its bit and its columns.
Plain ==
  /\ image.blocks <= image.blocks_per_group /\ image.blocks % 8 = 0
  /\ \A i \in InUse : i - 1 \notin image.group[1].free_inodes /\ PrintsBlocks(image.inode[i])

\* The directory has one parent, which is the first in the order of inodes to name it.
ParentFirst(d) ==
  \E p \in {e[1] : e \in Naming(d)} :
    Parents(d) = {p} /\ \A e \in Naming(d) : e[1] >= p

-----------------------------------------------------------------------------
(***************************************************************************)
(* What an audit should find.                                              *)
(***************************************************************************)
FirstData == image.group[1].inode_table + (image.inode_size * image.inodes) \div BlockSize
DataBlocks == FirstData..image.blocks - 1
FreeBlocks == {image.first_data_block + bit : bit \in image.group[1].free_blocks}
FreeInodes == {1 + bit : bit \in image.group[1].free_inodes}
SlotsOf(b) == {s \in Slots : PointerAt(s[1], s[2]) = b}

BlockFindings ==
  {<<IF PointerAt(s[1], s[2]) \in 0..FirstData - 1 THEN "RESERVED" ELSE "INVALID",
     PointerAt(s[1], s[2]), s[1]>> : s \in {t \in Slots : PointerAt(t[1], t[2]) \notin DataBlocks}}
  \union {<<"UNREFERENCED", b>> : b \in {c \in DataBlocks \ FreeBlocks : SlotsOf(c) = {}}}
  \union {<<"ALLOCATED BLOCK", b>> : b \in {c \in DataBlocks \intersect FreeBlocks : SlotsOf(c) # {}}}
  \union UNION {{<<"DUPLICATE", b, s[1]>> : s \in SlotsOf(b)} :
                  b \in {c \in DataBlocks : Cardinality(SlotsOf(c)) > 1}}

InodeFindings ==
  LET audited == {2} \union image.first_ino..image.inodes
  IN {<<"ALLOCATED INODE", i>> : i \in audited \intersect InUse \intersect FreeInodes}
     \union {<<"UNALLOCATED INODE", i>> : i \in audited \ (InUse \union FreeInodes)}
     \union {<<"LINKS", i, Cardinality(Naming(i))>> :
               i \in {j \in audited \intersect InUse : image.inode[j].links # Cardinality(Naming(j))}}

EntryFindings ==
  LET named == {e \in Entries : e[2].inode # 0}
      about(kind, wrong(_)) == {<<kind, e[1], e[2].inode>> : e \in {f \in named : wrong(f)}}
  IN about("INVALID ENTRY", LAMBDA e : e[2].inode > image.inodes)
     \union about("UNALLOCATED ENTRY", LAMBDA e : e[2].inode \in 1..image.inodes \ InUse)
     \union about("SELF", LAMBDA e : e[2].name = "." /\ e[2].inode # e[1])
     \union about("PARENT", LAMBDA e : e[2].name = ".." /\ e[2].inode \notin Parents(e[1]))

Findings == BlockFindings \union InodeFindings \union EntryFindings

-----------------------------------------------------------------------------
\* Every variable has its type; every call is about something of the image.
TypeOK ==
  /\ Lab3aTypeOK
  /\ place \in {"read", "scan", "inodes", "names", "exit 0", "exit 1"}
  /\ line \in 1..Len(rows) + 1
  /\ \A complaint \in complaints : complaint[1] \in
       {"INVALID", "RESERVED", "UNREFERENCED", "ALLOCATED BLOCK", "DUPLICATE",
        "ALLOCATED INODE", "UNALLOCATED INODE", "LINKS", "INVALID ENTRY",
        "UNALLOCATED ENTRY", "SELF", "PARENT"}

Level(path) == IF Len(path) = 1 THEN 0 ELSE path[1] - 10 - Len(path)

\* The pointers of the summary, with the inode and the level of the block that holds
\* them, level 0 being the inode itself.
Listed ==
  FlattenSeq([n \in 1..Len(rows) |->
    LET references == References(rows[n])
    IN [k \in 1..Len(references) |->
          <<references[k][2], IF rows[n][1] = "INODE" THEN 0 ELSE rows[n][3], references[k][1]>>]])

PointerOf(slot) == <<slot[1], Level(slot[2]), PointerAt(slot[1], slot[2])>>

TimesListed(p) == Len(SelectSeq(Listed, LAMBDA q : q = p))
TimesThere(p) == Cardinality({s \in Slots : PointerOf(s) = p})

\* The summary has every pointer of every inode in use, of all levels of indirect
\* blocks, as often as the image has it.  It has one oftener only if block 0 holds or
\* leads to it: the walk does not stop at zero pointers, and reads block 0 for each.
EveryPointerListed ==
  place = "scan" /\ line = 1 /\ Readable /\ Plain =>
    /\ \A p \in {PointerOf(slot) : slot \in Slots} : TimesListed(p) >= TimesThere(p)
    /\ \A p \in ToSet(Listed) : TimesListed(p) > TimesThere(p) => p[3] \in HeldByBlock0

\* The two programs together find what is wrong with an image, all of it and nothing
\* else, save what is said of the ".." in a directory whose parent is not the first to
\* name it.  If block 0 is not blank, they still find every pointer that is wrong.  An
\* audit that is broken off had a row without columns, a directory that nothing names,
\* or no file to read.
AuditAgrees ==
  /\ place = "exit 0" /\ Readable /\ Plain =>
       LET due(found) == {f \in found : f[1] = "PARENT" => ParentFirst(f[2])}
       IN IF HeldByBlock0 = {}
            THEN due(complaints) = due(Findings)
            ELSE {f \in BlockFindings : f[1] # "UNREFERENCED"} \subseteq complaints
  /\ place = "exit 1" /\ complaints # {} =>
       \/ \E i \in InUse : ~PrintsBlocks(image.inode[i])
       \/ \E i \in InUse : image.inode[i].type = "d" /\ Naming(i) = {}

\* The walk over a directory is at an entry that may have no length, in the image or
\* in what a read past its end leaves.
NoWayOn ==
  /\ Running("process_directory") /\ Arg(3) < BlockSize
  /\ \E entry \in EntryRead(Arg(2), Arg(3)) : entry.rec_len = 0

\* Both programs end, on any image, unless the walk stays for good at an entry without
\* a length: nothing else that is damaged keeps them from ending.
Ends == calls = <<<<"open">>>> ~> (Ended \/ []NoWayOn)
=============================================================================
