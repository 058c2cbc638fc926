-------------------------------- MODULE Ext2 --------------------------------
(***************************************************************************)
(* The ext2 file system of vfs/generic/ext2/: files in one directory of a  *)
(* partition with one block group and blocks of 1 KiB.  Every step makes   *)
(* at most one write to the disk; between two of them the machine may be   *)
(* switched off, and a write may fail.  What a file contains is left out:  *)
(* which blocks are marked, which inode lists them and what the counters   *)
(* say is kept.                                                            *)
(*                                                                         *)
(* Sizes are in half blocks.  A file has its direct blocks only, and one   *)
(* task uses the partition at a time: nothing in the code locks it.        *)
(***************************************************************************)
EXTENDS Integers, FiniteSets, Sequences

CONSTANTS
    NBLOCKS,        \* blocks 1..NBLOCKS of the group
    Meta,           \* those that hold the file system's own tables
    NINODES,        \* inodes 1..NINODES
    FIRST,          \* the first inode that is not reserved
    BYTE,           \* bits per byte of a bitmap
    Direct,         \* direct block pointers of an inode, 0..Direct - 1
    Name,           \* file names, sequences of characters
    MaxEntries,     \* how many entries fit into the directory
    Failing,        \* which writes may fail
    MaxFaults,      \* bound: how many writes fail and how often the power goes
    Clobbered       \* what is no superblock

ASSUME BlocksAssumption == NBLOCKS \in Nat /\ Meta \subseteq 1..NBLOCKS
ASSUME InodesAssumption == NINODES \in Nat /\ FIRST \in 1..NINODES
ASSUME SlotsAssumption == BYTE \in Nat /\ Direct \in Nat
ASSUME ClobberedAssumption == Clobbered \notin [blocks : Int, inodes : Int]

VARIABLES
    bbm,            \* disk: the blocks marked in the block bitmap
    ibm,            \* disk: the inodes marked in the inode bitmap
    itab,           \* disk: the inode table
    dir,            \* disk: the directory's entries, in their order
    disk_sb,        \* disk: the counters in the superblock
    gd, sb,         \* memory: the counters of the group and the superblock
    flush_required,
    pc, ino, i_block, size, need, todo,   \* the running operation
    cut,            \* history: a deletion has left its inode a name
    leaked,         \* history: the blocks that have been lost
    restarted,      \* history: the machine has been switched off
    faults          \* history: how many writes failed, how often the power went

disk == <<bbm, ibm, itab, dir, disk_sb>>
memory == <<gd, sb, flush_required>>
local == <<ino, i_block, size, need, todo>>
history == <<cut, leaked, restarted, faults>>
vars == <<disk, memory, pc, local, history>>

Block == 1..NBLOCKS
Ino == 1..NINODES
Bit == 1..BYTE * NINODES
Slot == 0..Direct - 1
\* Unsigned in the code: here a negative number stands for the one it wraps to.
Counters == [blocks : Int, inodes : Int]
Entry == [name : Name, ino : Ino]
Inode == [size : Nat, i_block : [Slot -> Block \cup {0}]]

Deleting == {"deallocate", "bitmap", "remove"}
Places == {"idle", "initialize", "entry", "allocate", "flush_bg", "flush_sb",
           "stray", "lost"} \cup Deleting

TypeOK ==
    /\ bbm \subseteq Block /\ ibm \subseteq Bit /\ itab \in [Ino -> Inode]
    /\ dir \in Seq(Entry)
    /\ disk_sb \in Counters \cup {Clobbered}
    /\ gd \in Counters /\ sb \in Counters /\ flush_required \in BOOLEAN
    /\ pc \in Places /\ ino \in Ino /\ i_block \in [Slot -> Block \cup {0}]
    /\ size \in Nat /\ need \in Nat /\ todo \subseteq Slot
    /\ cut \in BOOLEAN /\ leaked \subseteq Block /\ restarted \in BOOLEAN /\ faults \in Nat

NoBlocks == [s \in Slot |-> 0]
\* The group's counters on the disk, where registering the partition reads them.
Fresh == [blocks |-> Cardinality(Block \ Meta), inodes |-> NINODES - FIRST + 1]

\* A new file system, registered.
Init ==
    /\ bbm = Meta
    /\ ibm = Bit \ (FIRST..NINODES)
    /\ itab = [i \in Ino |-> [size |-> 0, i_block |-> NoBlocks]]
    /\ dir = <<>>
    /\ disk_sb = Fresh /\ gd = Fresh /\ sb = Fresh /\ flush_required = FALSE
    /\ pc = "idle" /\ ino = 1 /\ i_block = NoBlocks /\ size = 0 /\ need = 0 /\ todo = {}
    /\ cut = FALSE /\ leaked = {} /\ restarted = FALSE /\ faults = 0
-----------------------------------------------------------------------------
Least(S) == CHOOSE x \in S : \A y \in S : x <= y
Greatest(S) == CHOOSE x \in S : \A y \in S : y <= x

\* A write of this kind, and whether it succeeds.
Write(kind, written) ==
    \/ written /\ UNCHANGED faults
    \/ ~written /\ kind \in Failing /\ faults < MaxFaults /\ faults' = faults + 1

Goto(place) == pc' = place /\ UNCHANGED local
\* The operation's variables are gone.
Leave(place) ==
    pc' = place /\ ino' = 1 /\ i_block' = NoBlocks /\ size' = 0 /\ need' = 0 /\ todo' = {}

\* strncmp over the length of the entry's name: an entry is found by every name
\* that begins with its own.
Matches(e, n) == Len(e.name) <= Len(n) /\ SubSeq(n, 1, Len(e.name)) = e.name
\* The place of the first entry that is found by this name.
Found(n, k) ==
    k \in DOMAIN dir /\ Matches(dir[k], n) /\ \A m \in 1..k - 1 : ~Matches(dir[m], n)

Named == {dir[k].ino : k \in DOMAIN dir}
\* Fault: only whole blocks are counted.
Blocks_whole(s) == s \div 2
\* Blocks needed for so many half blocks: DIVIDE_ROUNDED_UP.
Blocks(s) == (s + 1) \div 2
Used(blocks) == {s \in Slot : blocks[s] # 0}
\* The blocks in these pointers, and those the inodes list.
At(blocks, slots) == {blocks[s] : s \in slots}
BlocksOf(inodes) == UNION {At(itab[i].i_block, Used(itab[i].i_block)) : i \in inodes}
\* The block list: the first n pointers that are not 0.
Listed(blocks, n) == {s \in Used(blocks) : Cardinality({r \in Used(blocks) : r < s}) < n}

\* Fault: the superblock is not counted.
CountBlock_group(n) ==
    /\ gd' = [gd EXCEPT !.blocks = @ + n]
    /\ flush_required' = TRUE
    /\ UNCHANGED sb

\* Fault: no flush is asked for.
CountBlock_unflushed(n) ==
    /\ gd' = [gd EXCEPT !.blocks = @ + n]
    /\ sb' = [sb EXCEPT !.blocks = @ + n]
    /\ UNCHANGED flush_required

CountBlock(n) ==
    /\ gd' = [gd EXCEPT !.blocks = @ + n]
    /\ sb' = [sb EXCEPT !.blocks = @ + n]
    /\ flush_required' = TRUE

CountInode(n) ==
    /\ gd' = [gd EXCEPT !.inodes = @ + n]
    /\ sb' = [sb EXCEPT !.inodes = @ + n]
    /\ flush_required' = TRUE
-----------------------------------------------------------------------------
(* Creating a file. *)

\* ext2_create_file up to ext2_allocate_inode.  A failed write of the bitmap is
\* not noticed: EXT2_WRITE_FAILED is not <= 0.  An inode that is clear in the
\* bitmap is taken for free.  The model ends where one beyond the inode table is
\* handed out.
ext2_allocate_inode ==
    /\ pc = "idle" /\ gd.inodes > 0 /\ Bit \ ibm # {}
    /\ LET i == Least(Bit \ ibm) IN
       /\ \E written \in BOOLEAN :
             Write("bitmap", written) /\ ibm' = IF written THEN ibm \cup {i} ELSE ibm
       /\ IF i \in Ino
          THEN pc' = "initialize" /\ ino' = i /\ UNCHANGED <<i_block, size, need, todo>>
          ELSE Leave("stray")
    /\ CountInode(-1)
    /\ UNCHANGED <<bbm, itab, dir, disk_sb, cut, leaked, restarted>>

\* Fault: the pointers of the inode's last use stay.
ext2_initialize_inode_stale ==
    /\ pc = "initialize"
    /\ itab' = [itab EXCEPT ![ino].size = 0]
    /\ Goto("entry")
    /\ UNCHANGED <<bbm, ibm, dir, disk_sb, memory, history>>

\* A file that had the inode loses its blocks.
ext2_initialize_inode ==
    /\ pc = "initialize"
    /\ \E written \in BOOLEAN : Write("inode", written) /\
          IF written
          THEN /\ itab' = [itab EXCEPT ![ino] = [size |-> 0, i_block |-> NoBlocks]]
               /\ leaked' = leaked \cup BlocksOf({ino} \cap Named)
               /\ Goto("entry")
          ELSE Leave("idle") /\ UNCHANGED <<itab, leaked>>
    /\ UNCHANGED <<bbm, ibm, dir, disk_sb, memory, cut, restarted>>

\* An inode for which there is no entry stays marked.
ext2_create_directory_entry ==
    /\ pc = "entry"
    /\ IF Len(dir) < MaxEntries
       THEN \E written \in BOOLEAN, n \in Name :
               /\ Write("data", written)
               /\ dir' = IF written THEN Append(dir, [name |-> n, ino |-> ino]) ELSE dir
       ELSE UNCHANGED <<dir, faults>>
    /\ Leave("idle")
    /\ UNCHANGED <<bbm, ibm, itab, disk_sb, memory, cut, leaked, restarted>>
-----------------------------------------------------------------------------
(* Writing past the end of a file. *)

\* ext2_write_file to the end of file that asks for more than it has.
ext2_write_file(n, end) ==
    /\ pc = "idle"
    /\ \E k \in DOMAIN dir : Found(n, k) /\ ino' = dir[k].ino
    /\ i_block' = itab[ino'].i_block
    /\ itab[ino'].size < end
    /\ need' = Blocks(end - itab[ino'].size)
    /\ need' <= Cardinality(Slot \ Used(i_block'))
    /\ size' = end
    /\ pc' = "allocate"
    /\ UNCHANGED <<disk, memory, todo, history>>

\* The blocks that only the copy of the inode in memory lists.
Grown == At(i_block, Used(i_block) \ Used(itab[ino].i_block))

\* ext2_allocate_block for the next empty pointer, in memory, of the inode.  The
\* code that undoes a failed write of the bitmap is never reached.
ext2_allocate_block ==
    /\ pc = "allocate" /\ need > 0
    /\ IF gd.blocks = 0 \/ Block \ bbm = {}
       THEN /\ Leave("idle")
            /\ leaked' = leaked \cup Grown
            /\ UNCHANGED <<bbm, memory, faults>>
       ELSE LET b == Least(Block \ bbm) IN
            /\ \E written \in BOOLEAN :
                  Write("bitmap", written) /\ bbm' = IF written THEN bbm \cup {b} ELSE bbm
            /\ CountBlock(-1)
            /\ i_block' = [i_block EXCEPT ![Least(Slot \ Used(i_block))] = b]
            /\ need' = need - 1
            /\ leaked' = leaked \ {b}
            /\ UNCHANGED <<pc, ino, size, todo>>
    /\ UNCHANGED <<ibm, itab, dir, disk_sb, cut, restarted>>

\* The end of ext2_resize_file.
ext2_write_inode ==
    /\ pc = "allocate" /\ need = 0
    /\ \E written \in BOOLEAN : Write("inode", written) /\
          IF written
          THEN /\ itab' = [itab EXCEPT ![ino] = [size |-> size, i_block |-> i_block]]
               /\ Leave("flush_bg")
               /\ UNCHANGED leaked
          ELSE Leave("idle") /\ leaked' = leaked \cup Grown /\ UNCHANGED itab
    /\ UNCHANGED <<bbm, ibm, dir, disk_sb, memory, cut, restarted>>
-----------------------------------------------------------------------------
(* ext2_flush_partition. *)

ext2_sync ==
    /\ pc = "idle" /\ Leave("flush_bg")
    /\ UNCHANGED <<disk, memory, history>>

\* The descriptors are written to sector bgdt_block of the partition, which with
\* blocks of 1 KiB is where the superblock is, and not to block bgdt_block, where
\* they are read.
ext2_flush_bg ==
    /\ pc = "flush_bg" /\ Goto("flush_sb")
    /\ \E written \in BOOLEAN :
          Write("flush", written) /\ disk_sb' = IF written THEN Clobbered ELSE disk_sb
    /\ UNCHANGED <<bbm, ibm, itab, dir, memory, cut, leaked, restarted>>

ext2_flush_sb ==
    /\ pc = "flush_sb" /\ Leave("idle")
    /\ \E written \in BOOLEAN :
          Write("flush", written) /\ disk_sb' = IF written THEN sb ELSE disk_sb
    /\ flush_required' = FALSE
    /\ UNCHANGED <<bbm, ibm, itab, dir, gd, sb, cut, leaked, restarted>>
-----------------------------------------------------------------------------
(* Deleting a file. *)

\* ext2_delete_file of a file that is not empty: kmalloc(0), for the list of no
\* blocks, fails.  Pointers beyond those the size asks for are not listed, and
\* what they point to is lost.
ext2_delete_file(n) ==
    /\ pc = "idle"
    /\ \E k \in DOMAIN dir : Found(n, k) /\ ino' = dir[k].ino
    /\ i_block' = itab[ino'].i_block
    /\ itab[ino'].size > 0
    /\ todo' = Listed(i_block', Blocks(itab[ino'].size))
    /\ leaked' = leaked \cup At(i_block', Used(i_block') \ todo')
    /\ pc' = "deallocate"
    /\ UNCHANGED <<disk, memory, size, need, cut, restarted, faults>>

\* Blocks are freed from the last to the first.
ext2_deallocate_block ==
    /\ pc = "deallocate" /\ todo # {}
    /\ LET s == Greatest(todo)  b == i_block[s] IN
       IF b \in bbm
       THEN /\ \E written \in BOOLEAN :
                  /\ Write("bitmap", written)
                  /\ bbm' = IF written THEN bbm \ {b} ELSE bbm
                  /\ leaked' = IF written THEN leaked ELSE leaked \cup {b}
            /\ CountBlock(1)
            /\ todo' = todo \ {s}
            /\ UNCHANGED <<pc, ino, i_block, size, need, cut>>
       ELSE /\ Leave("idle") /\ cut' = TRUE
            /\ UNCHANGED <<bbm, memory, leaked, faults>>
    /\ UNCHANGED <<ibm, itab, dir, disk_sb, restarted>>

\* Fault: the first block of the file is left out.
ext2_delete_inode_early ==
    /\ pc = "deallocate" /\ Cardinality(todo) <= 1
    /\ itab' = [itab EXCEPT ![ino].size = 0]
    /\ Goto("bitmap")
    /\ flush_required' = TRUE
    /\ UNCHANGED <<bbm, ibm, dir, disk_sb, gd, sb, history>>

\* ext2_delete_inode: the inode keeps its pointers.
ext2_delete_inode ==
    /\ pc = "deallocate" /\ todo = {}
    /\ \E written \in BOOLEAN : Write("inode", written) /\
          IF written
          THEN itab' = [itab EXCEPT ![ino].size = 0] /\ Goto("bitmap") /\ UNCHANGED cut
          ELSE Leave("idle") /\ cut' = TRUE /\ UNCHANGED itab
    /\ flush_required' = TRUE
    /\ UNCHANGED <<bbm, ibm, dir, disk_sb, gd, sb, leaked, restarted>>

\* The byte, not the bit, with the inode's index is cleared.
ext2_write_inode_bitmap ==
    /\ pc = "bitmap"
    /\ \E written \in BOOLEAN : Write("ibitmap", written) /\
          IF written
          THEN /\ ibm' = ibm \ (BYTE * (ino - 1) + 1 .. BYTE * ino)
               /\ CountInode(1)
               /\ Goto("remove")
               /\ UNCHANGED cut
          ELSE /\ Leave("idle") /\ cut' = TRUE
               /\ UNCHANGED <<ibm, memory>>
    /\ UNCHANGED <<bbm, itab, dir, disk_sb, leaked, restarted>>

\* ext2_delete_dentry: the first entry with the inode's number.
ext2_delete_dentry ==
    /\ pc = "remove"
    /\ \E written \in BOOLEAN : Write("data", written) /\
          IF written
          THEN /\ \E k \in DOMAIN dir :
                     /\ dir[k].ino = ino /\ \A m \in 1..k - 1 : dir[m].ino # ino
                     /\ cut' = (cut \/ \E m \in DOMAIN dir \ {k} : dir[m].ino = ino)
                     /\ dir' = SubSeq(dir, 1, k - 1) \o SubSeq(dir, k + 1, Len(dir))
               /\ Leave("flush_bg")
          ELSE Leave("idle") /\ cut' = TRUE /\ UNCHANGED dir
    /\ UNCHANGED <<bbm, ibm, itab, disk_sb, memory, leaked, restarted>>
-----------------------------------------------------------------------------
\* The machine is switched off and the partition registered again, if it still
\* has a superblock.
Restart ==
    /\ pc \notin {"stray", "lost"} /\ faults < MaxFaults
    /\ IF disk_sb = Clobbered THEN Leave("lost") /\ UNCHANGED sb
                              ELSE Leave("idle") /\ sb' = disk_sb
    /\ gd' = Fresh /\ flush_required' = FALSE
    /\ cut' = (cut \/ pc \in Deleting)
    /\ leaked' = IF pc = "allocate" THEN leaked \cup Grown ELSE leaked
    /\ restarted' = TRUE /\ faults' = faults + 1
    /\ UNCHANGED disk

Next ==
    \/ ext2_allocate_inode \/ ext2_initialize_inode \/ ext2_create_directory_entry
    \/ \E n \in Name, end \in 1..2 * Direct : ext2_write_file(n, end)
    \/ ext2_allocate_block \/ ext2_write_inode
    \/ ext2_sync \/ ext2_flush_bg \/ ext2_flush_sb
    \/ \E n \in Name : ext2_delete_file(n)
    \/ ext2_deallocate_block \/ ext2_delete_inode \/ ext2_write_inode_bitmap
    \/ ext2_delete_dentry
    \/ Restart

Spec == Init /\ [][Next]_vars
-----------------------------------------------------------------------------
\* The files: the inodes that have a name and are not being deleted.
Files == IF pc \in Deleting THEN Named \ {ino} ELSE Named

\* A block is listed by one inode with a name, in one place, and the bitmap has
\* it marked, wherever the machine was switched off and whatever write failed but
\* one of a bitmap, unless a deletion has left its inode a name, being cut short
\* or because another file was given the inode: ext2_resize_file marks a block
\* before the inode lists it, but ext2_delete_file frees the blocks first.
BlocksExclusive ==
    ~cut =>
        /\ \A i \in Files : \A s \in Used(itab[i].i_block) : itab[i].i_block[s] \in bbm \ Meta
        /\ \A i, j \in Files : \A s \in Used(itab[i].i_block), r \in Used(itab[j].i_block) :
              itab[i].i_block[s] = itab[j].i_block[r] => i = j /\ s = r

\* Both counters of free blocks agree with the bitmap until the machine is
\* switched off.
CountsAgree ==
    ~restarted => gd.blocks = Cardinality(Block \ bbm) /\ sb.blocks = Cardinality(Block \ bbm)

\* When no flush is required the disk has the superblock's counters.
SuperblockFlushed == ~flush_required /\ pc \notin {"flush_sb", "lost"} => disk_sb = sb

\* No block is lost but the ones a growth had added when it failed or was cut
\* short, the ones of a deleted file beyond those its size asks for, the ones of a
\* file whose inode is handed out again, and one whose bit could not be cleared:
\* every other marked block is listed by an inode with a name, also where a
\* deletion was cut short.
BlocksReclaimed == pc = "idle" => bbm \subseteq Meta \cup BlocksOf(Named) \cup leaked

\* An inode has the blocks its size asks for, also where a deletion was cut
\* short: ext2_load_block_list would otherwise follow the pointer to an indirect
\* block that is not there.
SizeCovered ==
    /\ \A i \in Named : itab[i].size <= 2 * Cardinality(Used(itab[i].i_block))
    /\ pc = "allocate" => size <= 2 * (Cardinality(Used(i_block)) + need)
-----------------------------------------------------------------------------
\* The remaining properties do not hold of the code.

\* Every block that is listed belongs to one file, also where a deletion has left
\* its inode a name.
BlocksAlwaysExclusive ==
    \A i, j \in Files : \A s \in Used(itab[i].i_block), r \in Used(itab[j].i_block) :
        itab[i].i_block[s] = itab[j].i_block[r] => i = j /\ s = r

\* An inode that is handed out is free.
InodesFresh == pc # "stray" /\ (pc = "initialize" => ino \notin Named)

\* The partition can be registered again.
StaysMountable == pc # "lost"

\* The counter of free inodes agrees with the bitmap.
InodeCountAgrees == ~restarted => gd.inodes = Cardinality((FIRST..NINODES) \ ibm)
=============================================================================
