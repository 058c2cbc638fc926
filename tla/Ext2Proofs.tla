----------------------------- MODULE Ext2Proofs -----------------------------
(***************************************************************************)
(* Theorems about Ext2, for partitions and directories of every size and   *)
(* any number of failed writes and restarts.  A failed write of a bitmap   *)
(* goes unnoticed by the code, so that blocks are exclusive and counted is *)
(* shown where it does not fail, and that the superblock is flushed where  *)
(* no write of a flush fails.                                              *)
(*                                                                         *)
(* The invariant speaks of the blocks an inode has in the eyes of the      *)
(* running operation (View): those on the disk, those of the copy in       *)
(* memory while a file grows, and those still to be freed while it is      *)
(* deleted.  These are what the bitmap and exclusion are about.            *)
(***************************************************************************)
EXTENDS Ext2, WellFoundedInduction, FiniteSetTheorems, SequenceTheorems, TLAPS

View(i) ==
    IF i = ino /\ pc = "allocate" THEN i_block
    ELSE IF i = ino /\ pc \in Deleting THEN [s \in Slot |-> IF s \in todo THEN i_block[s] ELSE 0]
    ELSE itab[i].i_block

\* What the running operation knows of its inode.
Operation ==
    /\ pc = "entry" => itab[ino].i_block = NoBlocks
    /\ pc = "allocate" =>
          ino \in Named /\ \A s \in Used(itab[ino].i_block) : i_block[s] = itab[ino].i_block[s]
    /\ pc = "deallocate" => todo \subseteq Used(i_block)
    /\ pc \in {"bitmap", "remove"} => todo = {}
    /\ pc \in Deleting => ino \in Named /\ i_block = itab[ino].i_block

\* Every block an inode has is marked, and no other place has it.
Exclusive ==
    "bitmap" \notin Failing /\ ~cut =>
        /\ Meta \subseteq bbm
        /\ \A i \in Named, s \in Slot : View(i)[s] # 0 => View(i)[s] \in bbm \ Meta
        /\ \A i, j \in Named, s, r \in Slot :
              View(i)[s] = View(j)[r] /\ View(i)[s] # 0 => i = j /\ s = r

\* Every block marked belongs to an inode with a name, or is known to be lost.
Reclaimed == \A b \in bbm \ (Meta \cup leaked) : \E i \in Named, s \in Slot : View(i)[s] = b

Counted == "bitmap" \notin Failing => CountsAgree

\* A growing file has room for the blocks it still needs.
Covered ==
    /\ \A i \in Ino : itab[i].size <= 2 * Cardinality(Used(itab[i].i_block))
    /\ pc = "allocate" => /\ size <= 2 * (Cardinality(Used(i_block)) + need)
                          /\ need <= Cardinality(Slot \ Used(i_block))

IInv == TypeOK /\ Operation /\ Exclusive /\ Reclaimed /\ Counted /\ Covered
-----------------------------------------------------------------------------
(* Facts about the operators. *)

LEMMA LeastExists == ASSUME NEW S \in SUBSET Nat, S # {} PROVE \E x \in S : \A y \in S : x <= y
<1> DEFINE R == {ss \in Nat \X Nat : ss[1] < ss[2]}
<1>1. IsWellFoundedOn(R, Nat)
    BY NatLessThanWellFounded DEF OpToRel
<1> HIDE DEF R
<1>2. PICK x \in S : \A y \in S : <<y, x>> \notin R
    BY ZenonT(30), <1>1, WFMin
<1>3. ASSUME NEW y \in S PROVE x <= y
  <2>1. <<y, x>> \notin R
    BY <1>2
  <2> QED
    BY <2>1 DEF R
<1> QED
    BY <1>3

\* The bitmap search returns a bit that is free, the deallocation a pointer of
\* its list.
LEMMA LeastIn == ASSUME NEW S \in SUBSET Nat, S # {} PROVE Least(S) \in S
    BY ZenonT(30), LeastExists DEF Least

LEMMA GreatestIn == ASSUME NEW n \in Nat, NEW S \in SUBSET (0..n), S # {} PROVE Greatest(S) \in S
<1> DEFINE T == {n - s : s \in S}
<1>1. T # {}
    BY ZenonT(30)
<1>2. ASSUME NEW s \in S PROVE n - s \in Nat
    OBVIOUS
<1>3. T \in SUBSET Nat
    BY <1>2
<1>4. PICK x \in T : \A y \in T : x <= y
    BY ZenonT(30), <1>1, <1>3, LeastExists
<1>5. PICK s \in S : x = n - s
    OBVIOUS
<1>6. ASSUME NEW r \in S PROVE r <= s
  <2>1. n - r \in T
    OBVIOUS
  <2>2. n - s <= n - r
    BY ZenonT(30), <1>4, <1>5, <2>1
  <2> QED
    BY <2>2
<1> QED
    BY ZenonT(30), <1>5, <1>6 DEF Greatest

LEMMA Sizes ==
    /\ IsFiniteSet(Slot) /\ IsFiniteSet(Block)
    /\ \A S \in SUBSET Block : IsFiniteSet(S) /\ Cardinality(S) \in Nat
    /\ \A f : IsFiniteSet(Used(f)) /\ Cardinality(Used(f)) \in Nat
    /\ \A f : IsFiniteSet(Slot \ Used(f)) /\ Cardinality(Slot \ Used(f)) \in Nat
<1>1. IsFiniteSet(Slot) /\ IsFiniteSet(Block)
    BY FS_Interval, BlocksAssumption, SlotsAssumption DEF Slot, Block
<1>2. \A f : Used(f) \in SUBSET Slot /\ Slot \ Used(f) \in SUBSET Slot
    BY DEF Used
<1> QED
    BY <1>1, <1>2, FS_Subset, FS_CardinalityType

LEMMA FreeBlocks ==
    ASSUME NEW S \in SUBSET Block, NEW b \in Block
    PROVE  /\ Cardinality(Block \ S) \in Nat
           /\ b \notin S => Cardinality(Block \ (S \cup {b})) = Cardinality(Block \ S) - 1
           /\ b \in S => Cardinality(Block \ (S \ {b})) = Cardinality(Block \ S) + 1
<1>1. IsFiniteSet(Block \ S) /\ Cardinality(Block \ S) \in Nat
    BY Sizes
<1>2. ASSUME b \notin S PROVE Cardinality(Block \ (S \cup {b})) = Cardinality(Block \ S) - 1
  <2>1. Block \ (S \cup {b}) = (Block \ S) \ {b} /\ b \in Block \ S
    BY <1>2
  <2> QED
    BY <1>1, <2>1, FS_RemoveElement
<1>3. ASSUME b \in S PROVE Cardinality(Block \ (S \ {b})) = Cardinality(Block \ S) + 1
  <2>1. Block \ (S \ {b}) = (Block \ S) \cup {b} /\ b \notin Block \ S
    BY <1>3
  <2> QED
    BY ZenonT(30), <1>1, <2>1, FS_AddElement
<1> QED
    BY <1>1, <1>2, <1>3

LEMMA OneMore ==
    ASSUME NEW U \in SUBSET Slot, NEW s \in Slot, s \notin U
    PROVE  /\ Cardinality(U \cup {s}) = Cardinality(U) + 1
           /\ Cardinality(Slot \ (U \cup {s})) = Cardinality(Slot \ U) - 1
<1>1. IsFiniteSet(U) /\ IsFiniteSet(Slot \ U)
    BY Sizes, FS_Subset
<1>2. Cardinality(U \cup {s}) = Cardinality(U) + 1
    BY <1>1, FS_AddElement
<1>3. Slot \ (U \cup {s}) = (Slot \ U) \ {s} /\ s \in Slot \ U
    OBVIOUS
<1>4. Cardinality((Slot \ U) \ {s}) = Cardinality(Slot \ U) - 1
    BY ONLY ZenonT(30), <1>1, <1>3, FS_RemoveElement
<1> QED
    BY <1>2, <1>3, <1>4

LEMMA BlocksCover == ASSUME NEW n \in Nat PROVE Blocks(n) \in Nat /\ n <= 2 * Blocks(n)
    BY DEF Blocks

\* A sequence without its k-th member.
LEMMA FirstPart ==
    ASSUME NEW S, NEW q \in Seq(S), NEW k \in 1..Len(q), NEW a, a = SubSeq(q, 1, k - 1)
    PROVE  a \in Seq(S) /\ Len(a) = k - 1 /\ \A m \in 1..k - 1 : a[m] = q[m]
    OBVIOUS

LEMMA LastPart ==
    ASSUME NEW S, NEW q \in Seq(S), NEW k \in 1..Len(q), NEW b, b = SubSeq(q, k + 1, Len(q))
    PROVE  b \in Seq(S) /\ Len(b) = Len(q) - k /\ \A m \in 1..Len(q) - k : b[m] = q[m + k]
    OBVIOUS

LEMMA Joined ==
    ASSUME NEW S, NEW a \in Seq(S), NEW b \in Seq(S)
    PROVE  /\ a \o b \in Seq(S) /\ DOMAIN (a \o b) = 1..Len(a) + Len(b)
           /\ \A m \in 1..Len(a) : (a \o b)[m] = a[m]
           /\ \A m \in 1..Len(b) : (a \o b)[m + Len(a)] = b[m]
    OBVIOUS

Without(q, k) == SubSeq(q, 1, k - 1) \o SubSeq(q, k + 1, Len(q))

LEMMA Removed ==
    ASSUME NEW S, NEW q \in Seq(S), NEW k \in 1..Len(q)
    PROVE  /\ Without(q, k) \in Seq(S) /\ DOMAIN Without(q, k) = 1..Len(q) - 1
           /\ \A m \in 1..k - 1 : Without(q, k)[m] = q[m]
           /\ \A m \in k..Len(q) - 1 : Without(q, k)[m] = q[m + 1]
<1>9. PICK n \in Nat : n = Len(q)
    BY LenProperties
<1>10. PICK r : r = Without(q, k)
    OBVIOUS
<1>11. k \in 1..n
    BY <1>9
<1>1. PICK a : a = SubSeq(q, 1, k - 1)
    BY ZenonT(30)
<1>2. PICK b : b = SubSeq(q, k + 1, Len(q))
    BY ZenonT(30)
<1>3. a \in Seq(S) /\ Len(a) = k - 1 /\ \A m \in 1..k - 1 : a[m] = q[m]
    BY <1>1, FirstPart
<1>4. b \in Seq(S) /\ Len(b) = n - k /\ \A m \in 1..n - k : b[m] = q[m + k]
    BY <1>2, <1>9, LastPart
<1>5. r = a \o b
    BY <1>1, <1>2, <1>10 DEF Without
<1>6. /\ r \in Seq(S) /\ DOMAIN r = 1..(k - 1) + (n - k)
      /\ \A m \in 1..k - 1 : r[m] = a[m]
      /\ \A m \in 1..n - k : r[m + (k - 1)] = b[m]
  <2>1. a \in Seq(S) /\ b \in Seq(S) /\ Len(a) = k - 1 /\ Len(b) = n - k
    BY <1>3, <1>4
  <2>2. /\ a \o b \in Seq(S) /\ DOMAIN (a \o b) = 1..Len(a) + Len(b)
        /\ \A m \in 1..Len(a) : (a \o b)[m] = a[m]
        /\ \A m \in 1..Len(b) : (a \o b)[m + Len(a)] = b[m]
    <3>1. a \in Seq(S)
        BY <2>1
    <3>2. b \in Seq(S)
        BY <2>1
    <3> QED
        BY ONLY <3>1, <3>2, Joined
  <2> QED
    BY ZenonT(30), <1>5, <2>1, <2>2
<1>7. (k - 1) + (n - k) = n - 1
    BY <1>11
<1>8. ASSUME NEW m \in k..n - 1 PROVE r[m] = q[m + 1]
  <2>1. PICK l \in 1..n - k : m = l + (k - 1) /\ l + k = m + 1
    <3>1. m - k + 1 \in 1..n - k /\ m = (m - k + 1) + (k - 1) /\ (m - k + 1) + k = m + 1
        BY <1>11
    <3> QED
        BY <3>1
  <2>2. r[m] = b[l] /\ b[l] = q[m + 1]
    BY ZenonT(30), <1>4, <1>6, <2>1
  <2> QED
    BY <2>2
<1> QED
    BY ZenonT(30), <1>3, <1>6, <1>7, <1>8, <1>9, <1>10
-----------------------------------------------------------------------------
(* What the actions have in common. *)

LEMMA Simple ==
    /\ 1 \in Ino /\ 0 \notin Block
    /\ NoBlocks \in [Slot -> Block \cup {0}] /\ Fresh \in Counters
    /\ Deleting \subseteq Places
    /\ {"idle", "initialize", "entry", "allocate", "flush_bg", "flush_sb", "stray", "lost"}
          \cap Deleting = {}
<1>1. Fresh \in Counters
  <2>1. Cardinality(Block \ Meta) \in Nat /\ NINODES - FIRST + 1 \in Int
    BY Sizes, InodesAssumption
  <2> QED
    BY <2>1 DEF Fresh, Counters
<1>2. 1 \in Ino /\ 0 \notin Block
    BY InodesAssumption DEF Ino, Block
<1>3. NoBlocks \in [Slot -> Block \cup {0}]
    BY DEF NoBlocks
<1> QED
    BY <1>1, <1>2, <1>3 DEF Deleting, Places

\* The disk writes that fail are not those of a bitmap.
LEMMA BitmapWritten ==
    ASSUME "bitmap" \notin Failing, NEW written \in BOOLEAN, Write("bitmap", written)
    PROVE  written = TRUE /\ faults' = faults
    BY DEF Write

LEMMA FaultsCounted ==
    ASSUME TypeOK, NEW kind, NEW written \in BOOLEAN, Write(kind, written)
    PROVE  faults' \in Nat
    BY DEF TypeOK, Write

LEMMA LeaveType ==
    ASSUME NEW place \in Places, Leave(place)
    PROVE  /\ pc' = place /\ pc' \in Places /\ ino' \in Ino /\ i_block' \in [Slot -> Block \cup {0}]
           /\ size' \in Nat /\ need' \in Nat /\ todo' \subseteq Slot
    BY Simple DEF Leave

LEMMA ViewType ==
    ASSUME TypeOK, NEW i \in Ino
    PROVE  View(i) \in [Slot -> Block \cup {0}] /\ itab[i].i_block \in [Slot -> Block \cup {0}]
<1>1. itab[i].i_block \in [Slot -> Block \cup {0}] /\ i_block \in [Slot -> Block \cup {0}]
    BY DEF TypeOK, Inode
<1>2. [s \in Slot |-> IF s \in todo THEN i_block[s] ELSE 0] \in [Slot -> Block \cup {0}]
    BY <1>1
<1> QED
    BY <1>1, <1>2 DEF View

LEMMA NamedInodes ==
    ASSUME TypeOK
    PROVE  /\ Named \subseteq Ino
           /\ \A k \in DOMAIN dir : dir[k] \in Entry /\ dir[k].ino \in Named /\ dir[k].ino \in Ino
           /\ Len(dir) \in Nat /\ DOMAIN dir = 1..Len(dir)
<1>1. dir \in Seq(Entry)
    BY DEF TypeOK
<1>2. Len(dir) \in Nat /\ DOMAIN dir = 1..Len(dir)
    BY <1>1, LenProperties
<1>3. \A k \in DOMAIN dir : dir[k] \in Entry
    BY <1>1, <1>2, ElementOfSeq
<1> QED
    BY <1>2, <1>3 DEF Named, Entry

LEMMA AtBlocks ==
    ASSUME NEW f \in [Slot -> Block \cup {0}], NEW S \in SUBSET Used(f)
    PROVE  At(f, S) \subseteq Block
    BY DEF At, Used

LEMMA ListedBlocks ==
    ASSUME NEW S, NEW i \in S, NEW s \in Slot, itab[i].i_block[s] # 0
    PROVE  itab[i].i_block[s] \in BlocksOf(S)
<1>1. s \in Used(itab[i].i_block)
    BY DEF Used
<1>2. itab[i].i_block[s] \in At(itab[i].i_block, Used(itab[i].i_block))
    BY <1>1 DEF At
<1> QED
    BY <1>2 DEF BlocksOf

LEMMA BlocksOfType ==
    ASSUME TypeOK, NEW S \in SUBSET Ino
    PROVE  BlocksOf(S) \subseteq Block
<1>1. ASSUME NEW i \in S PROVE At(itab[i].i_block, Used(itab[i].i_block)) \subseteq Block
  <2>1. itab[i].i_block \in [Slot -> Block \cup {0}]
    BY ViewType
  <2> QED
    BY <2>1, AtBlocks
<1> QED
    BY <1>1 DEF BlocksOf

LEMMA GrownType == ASSUME TypeOK PROVE Grown \subseteq Block
<1>1. i_block \in [Slot -> Block \cup {0}]
    BY DEF TypeOK
<1>2. Used(i_block) \ Used(itab[ino].i_block) \in SUBSET Used(i_block)
    OBVIOUS
<1> QED
    BY <1>1, <1>2, AtBlocks DEF Grown

\* The blocks stay exclusive when the inodes have no others than before.
LEMMA ExclusiveKept ==
    ASSUME Exclusive, bbm' = bbm, ~cut' => ~cut,
           ~cut' => \A i \in Named', s \in Slot :
               View(i)'[s] # 0 => i \in Named /\ View(i)'[s] = View(i)[s]
    PROVE  Exclusive'
<1> SUFFICES ASSUME "bitmap" \notin Failing, ~cut' PROVE
        /\ Meta \subseteq bbm'
        /\ \A i \in Named', s \in Slot : View(i)'[s] # 0 => View(i)'[s] \in bbm' \ Meta
        /\ \A i, j \in Named', s, r \in Slot :
              View(i)'[s] = View(j)'[r] /\ View(i)'[s] # 0 => i = j /\ s = r
    BY DEF Exclusive
<1>1. /\ Meta \subseteq bbm
      /\ \A i \in Named, s \in Slot : View(i)[s] # 0 => View(i)[s] \in bbm \ Meta
      /\ \A i, j \in Named, s, r \in Slot :
            View(i)[s] = View(j)[r] /\ View(i)[s] # 0 => i = j /\ s = r
    BY DEF Exclusive
<1>2. \A i \in Named', s \in Slot : View(i)'[s] # 0 => i \in Named /\ View(i)'[s] = View(i)[s]
    OBVIOUS
<1>3. ASSUME NEW i \in Named', NEW s \in Slot, View(i)'[s] # 0
      PROVE  View(i)'[s] \in bbm' \ Meta
    BY <1>1, <1>2, <1>3
<1>4. ASSUME NEW i \in Named', NEW j \in Named', NEW s \in Slot, NEW r \in Slot,
             View(i)'[s] = View(j)'[r], View(i)'[s] # 0
      PROVE  i = j /\ s = r
  <2>1. i \in Named /\ View(i)'[s] = View(i)[s] /\ View(i)[s] # 0
    BY <1>2, <1>4
  <2>2. j \in Named /\ View(j)'[r] = View(j)[r]
    BY <1>2, <1>4
  <2>3. View(i)[s] = View(j)[r]
    BY ZenonT(30), <1>4, <2>1, <2>2
  <2> QED
    BY <1>1, <2>1, <2>2, <2>3
<1> QED
    BY <1>1, <1>3, <1>4

\* No other block is lost when the inodes have those they had.
LEMMA ReclaimedKept ==
    ASSUME TypeOK, Reclaimed, bbm' \subseteq bbm, leaked \subseteq leaked',
           \A i \in Named, s \in Slot :
               View(i)[s] \in bbm' \ leaked' => i \in Named' /\ View(i)'[s] = View(i)[s]
    PROVE  Reclaimed'
<1> SUFFICES ASSUME NEW b \in bbm' \ (Meta \cup leaked')
             PROVE  \E i \in Named', s \in Slot : View(i)'[s] = b
    BY DEF Reclaimed
<1>1. b \in bbm \ (Meta \cup leaked)
    OBVIOUS
<1>2. PICK i \in Named, s \in Slot : View(i)[s] = b
    BY <1>1 DEF Reclaimed
<1>3. i \in Named' /\ View(i)'[s] = b
    BY <1>2
<1> QED
    BY <1>3

\* Neither changes when a step leaves every inode its blocks.
LEMMA SameBlocks ==
    ASSUME TypeOK, Exclusive, Reclaimed, bbm' = bbm, dir' = dir, cut' = cut, leaked' = leaked,
           \A i \in Named : View(i)' = View(i)
    PROVE  Exclusive' /\ Reclaimed'
<1>1. Named' = Named
    BY DEF Named
<1>2. Exclusive'
    BY <1>1, ExclusiveKept
<1>3. Reclaimed'
    BY <1>1, ReclaimedKept
<1> QED
    BY <1>2, <1>3

LEMMA InitIInv == Init => IInv
<1> SUFFICES ASSUME Init PROVE IInv
    OBVIOUS
<1>1. TypeOK
  <2>1. bbm \subseteq Block /\ ibm \subseteq Bit
    BY BlocksAssumption DEF Init, Block
  <2>2. itab \in [Ino -> Inode]
    BY Simple DEF Init, Inode
  <2>3. dir \in Seq(Entry)
    BY EmptySeq DEF Init
  <2>4. pc \in Places /\ size \in Nat /\ need \in Nat /\ todo \subseteq Slot /\ faults \in Nat
    BY DEF Init, Places
  <2>5. /\ disk_sb \in Counters \cup {Clobbered} /\ gd \in Counters /\ sb \in Counters
        /\ ino \in Ino /\ i_block \in [Slot -> Block \cup {0}]
    BY Simple DEF Init
  <2> QED
    BY ZenonT(30), <2>1, <2>2, <2>3, <2>4, <2>5 DEF Init, TypeOK
<1>2. DOMAIN dir = {} /\ Named = {}
    BY DEF Init, Named
<1>3. Operation
    BY <1>2 DEF Init, Operation, Deleting
<1>4. Exclusive /\ Reclaimed
    BY ZenonT(30), <1>2 DEF Init, Exclusive, Reclaimed
<1>5. Counted
    BY DEF Init, Counted, CountsAgree, Fresh
<1>6. Covered
  <2> SUFFICES ASSUME NEW i \in Ino PROVE itab[i].size <= 2 * Cardinality(Used(itab[i].i_block))
    BY DEF Init, Covered
  <2>1. itab[i].size = 0
    BY DEF Init
  <2> QED
    BY <2>1, Sizes
<1> QED
    BY ZenonT(30), <1>1, <1>3, <1>4, <1>5, <1>6 DEF IInv

LEMMA CountsKept ==
    ASSUME Counted, bbm' = bbm, gd'.blocks = gd.blocks, sb'.blocks = sb.blocks,
           ~restarted' => ~restarted
    PROVE  Counted'
    BY DEF Counted, CountsAgree

LEMMA CoveredKept ==
    ASSUME Covered, itab' = itab, pc' # "allocate"
    PROVE  Covered'
    BY DEF Covered

LEMMA CountInodeFacts ==
    ASSUME TypeOK, NEW n \in Int, CountInode(n)
    PROVE  /\ gd' \in Counters /\ sb' \in Counters /\ flush_required' = TRUE
           /\ gd'.blocks = gd.blocks /\ sb'.blocks = sb.blocks
<1>1. /\ gd' = [gd EXCEPT !.inodes = @ + n] /\ sb' = [sb EXCEPT !.inodes = @ + n]
      /\ gd \in Counters /\ sb \in Counters /\ flush_required' = TRUE
    BY DEF TypeOK, CountInode
<1>2. gd' \in Counters /\ gd'.blocks = gd.blocks
    BY <1>1 DEF Counters
<1>3. sb' \in Counters /\ sb'.blocks = sb.blocks
    BY <1>1 DEF Counters
<1> QED
    BY ZenonT(30), <1>1, <1>2, <1>3

LEMMA CountBlockFacts ==
    ASSUME TypeOK, NEW n \in Int, CountBlock(n)
    PROVE  /\ gd' \in Counters /\ sb' \in Counters /\ flush_required' = TRUE
           /\ gd'.blocks = gd.blocks + n /\ sb'.blocks = sb.blocks + n
<1>1. /\ gd' = [gd EXCEPT !.blocks = @ + n] /\ sb' = [sb EXCEPT !.blocks = @ + n]
      /\ gd \in Counters /\ sb \in Counters /\ flush_required' = TRUE
    BY DEF TypeOK, CountBlock
<1>2. gd' \in Counters /\ gd'.blocks = gd.blocks + n
    BY <1>1 DEF Counters
<1>3. sb' \in Counters /\ sb'.blocks = sb.blocks + n
    BY <1>1 DEF Counters
<1> QED
    BY <1>1, <1>2, <1>3

\* The end of an operation that leaves the bitmap, the inodes and the names
\* alone.  Blocks the inode has in memory only are lost; the blocks of a
\* deletion that is cut short are no longer known to be exclusive, but still
\* listed.
LEMMA Ends ==
    ASSUME IInv, NEW place \in {"idle", "flush_bg", "stray", "lost"}, Leave(place),
           bbm' = bbm, itab' = itab, dir' = dir,
           ~cut' => ~cut /\ pc \notin Deleting,
           leaked \subseteq leaked', pc = "allocate" => Grown \subseteq leaked'
    PROVE  Operation' /\ Exclusive' /\ Reclaimed' /\ Covered'
<1> USE DEF IInv
<1>1. pc' = place /\ pc' \notin Deleting \cup {"initialize", "entry", "allocate"}
    BY DEF Leave, Deleting
<1>2. Named' = Named
    BY DEF Named
<1>3. \A i : View(i)' = itab[i].i_block
    BY <1>1 DEF View
<1>4. Operation'
    BY <1>1 DEF Operation, Deleting
<1>5. Exclusive'
  <2>1. ASSUME ~cut', NEW i \in Named, NEW s \in Slot, itab[i].i_block[s] # 0
        PROVE  itab[i].i_block[s] = View(i)[s]
    <3>1. pc \notin Deleting /\ s \in Used(itab[i].i_block)
        BY <2>1 DEF Used
    <3> QED
        BY <3>1 DEF View, Operation
  <2> QED
    BY ZenonT(30), <1>2, <1>3, <2>1, ExclusiveKept
<1>6. Reclaimed'
  <2>1. ASSUME NEW i \in Named, NEW s \in Slot, View(i)[s] \in bbm' \ leaked'
        PROVE  itab[i].i_block[s] = View(i)[s]
    <3>1. View(i)[s] # 0
        BY <2>1, Simple DEF TypeOK
    <3>2. CASE i = ino /\ pc = "allocate"
      <4>1. View(i)[s] = i_block[s] /\ s \in Used(i_block)
        BY <3>1, <3>2 DEF View, Used
      <4>2. s \in Used(itab[ino].i_block)
        BY <2>1, <3>2, <4>1 DEF Grown, At
      <4> QED
        BY <3>2, <4>1, <4>2 DEF Operation
    <3>3. CASE i = ino /\ pc \in Deleting
      <4>1. View(i)[s] = i_block[s]
        BY <3>1, <3>3, Simple DEF View
      <4> QED
        BY <3>3, <4>1 DEF Operation
    <3> QED
        BY <3>2, <3>3 DEF View
  <2> QED
    BY ZenonT(30), <1>2, <1>3, <2>1, ReclaimedKept
<1>7. Covered'
    BY <1>1, CoveredKept
<1> QED
    BY <1>4, <1>5, <1>6, <1>7
-----------------------------------------------------------------------------
(* Every action preserves the invariant. *)

LEMMA AllocateInode == ASSUME IInv, ext2_allocate_inode PROVE IInv'
<1> USE DEF IInv
<1> DEFINE i == Least(Bit \ ibm)
<1>1. /\ pc = "idle" /\ i \in Bit
      /\ bbm' = bbm /\ itab' = itab /\ dir' = dir /\ disk_sb' = disk_sb
      /\ cut' = cut /\ leaked' = leaked /\ restarted' = restarted
      /\ CountInode(-1)
  <2>1. Bit \ ibm \in SUBSET Nat /\ Bit \ ibm # {}
    BY DEF Bit, ext2_allocate_inode
  <2> QED
    BY <2>1, LeastIn DEF ext2_allocate_inode
<1>2. PICK written \in BOOLEAN : Write("bitmap", written) /\ ibm' = IF written THEN ibm \cup {i} ELSE ibm
    BY DEF ext2_allocate_inode
<1>3. faults' \in Nat /\ ibm' \subseteq Bit
    BY ZenonT(30), <1>1, <1>2, FaultsCounted DEF TypeOK
<1>4. /\ gd' \in Counters /\ sb' \in Counters /\ flush_required' = TRUE
      /\ gd'.blocks = gd.blocks /\ sb'.blocks = sb.blocks
  <2>1. -1 \in Int
    OBVIOUS
  <2> QED
    BY ZenonT(30), <1>1, <2>1, CountInodeFacts
<1>5. Counted'
    BY <1>1, <1>4, CountsKept
<1>6. CASE i \in Ino
  <2>1. pc' = "initialize" /\ ino' = i /\ i_block' = i_block /\ size' = size /\ need' = need /\ todo' = todo
    BY <1>6 DEF ext2_allocate_inode
  <2>2. TypeOK'
    BY ZenonT(30), <1>1, <1>3, <1>4, <1>6, <2>1 DEF TypeOK, Places
  <2>3. Operation'
    BY ZenonT(30), <1>1, <1>6, <2>1 DEF Operation, Deleting, Named
  <2>4. \A j : View(j)' = View(j)
    BY <1>1, <2>1, Simple DEF View
  <2>5. Exclusive' /\ Reclaimed'
    BY <1>1, <2>4, SameBlocks
  <2>6. Covered'
    BY <1>1, <2>1, CoveredKept
  <2> QED
    BY ZenonT(30), <1>5, <2>2, <2>3, <2>5, <2>6
<1>7. CASE i \notin Ino
  <2>1. Leave("stray")
    BY ZenonT(30), <1>7 DEF ext2_allocate_inode
  <2>2. TypeOK'
    BY ZenonT(30), <1>1, <1>3, <1>4, <2>1, LeaveType DEF TypeOK, Places
  <2>3. Operation' /\ Exclusive' /\ Reclaimed' /\ Covered'
    BY ZenonT(30), <1>1, <2>1, Simple, Ends
  <2> QED
    BY <1>5, <2>2, <2>3
<1> QED
    BY <1>6, <1>7

LEMMA InitializeInode == ASSUME IInv, ext2_initialize_inode PROVE IInv'
<1> USE DEF IInv
<1>1. /\ pc = "initialize"
      /\ bbm' = bbm /\ ibm' = ibm /\ dir' = dir /\ disk_sb' = disk_sb
      /\ gd' = gd /\ sb' = sb /\ flush_required' = flush_required
      /\ cut' = cut /\ restarted' = restarted
    BY DEF ext2_initialize_inode, memory
<1>2. PICK written \in BOOLEAN :
         Write("inode", written) /\
         IF written THEN /\ itab' = [itab EXCEPT ![ino] = [size |-> 0, i_block |-> NoBlocks]]
                         /\ leaked' = leaked \cup BlocksOf({ino} \cap Named)
                         /\ Goto("entry")
                    ELSE Leave("idle") /\ itab' = itab /\ leaked' = leaked
    BY DEF ext2_initialize_inode
<1>3. faults' \in Nat
    BY <1>2, FaultsCounted
<1>4. Counted'
    BY <1>1, CountsKept
<1>5. CASE written = TRUE
  <2>1. /\ pc' = "entry" /\ ino' = ino /\ i_block' = i_block /\ size' = size /\ need' = need /\ todo' = todo
        /\ itab' = [itab EXCEPT ![ino] = [size |-> 0, i_block |-> NoBlocks]]
        /\ leaked' = leaked \cup BlocksOf({ino} \cap Named)
    BY ZenonT(30), <1>2, <1>5 DEF Goto, local
  <2>2. ino \in Ino /\ itab \in [Ino -> Inode]
    BY ZenonT(30), <1>1 DEF TypeOK
  <2>3. itab' \in [Ino -> Inode]
    BY ZenonT(30), <2>1, <2>2, Simple DEF Inode
  <2>4. TypeOK'
    <3>1. leaked' \subseteq Block
      <4>1. {ino} \cap Named \in SUBSET Ino
        BY <2>2
      <4>2. BlocksOf({ino} \cap Named) \subseteq Block
        BY <4>1, BlocksOfType
      <4> QED
        BY <2>1, <4>2 DEF TypeOK
    <3> QED
        BY ZenonT(30), <1>1, <1>3, <2>1, <2>3, <3>1 DEF TypeOK, Places
  <2>5. itab'[ino].i_block = NoBlocks /\ \A j \in Ino : j # ino => itab'[j] = itab[j]
    BY <2>1, <2>2
  <2>6. Operation'
    BY ZenonT(30), <1>1, <2>1, <2>5 DEF Operation, Deleting
  <2>7. /\ Named' = Named
        /\ \A j \in Named : View(j) = itab[j].i_block /\ View(j)' = itab'[j].i_block
    BY <1>1, <2>1, Simple DEF Named, View
  <2>9. Exclusive'
    <3>1. ASSUME NEW j \in Named', NEW s \in Slot, View(j)'[s] # 0
          PROVE  j \in Named /\ View(j)'[s] = View(j)[s]
      <4>1. j \in Named /\ j \in Ino /\ View(j) = itab[j].i_block /\ View(j)' = itab'[j].i_block
        BY ZenonT(30), <2>7, NamedInodes
      <4>2. j # ino
        BY <2>5, <3>1, <4>1 DEF NoBlocks
      <4> QED
        BY ZenonT(30), <2>5, <4>1, <4>2
    <3> QED
        BY <1>1, <3>1, ExclusiveKept
  <2>10. Reclaimed'
    <3>1. ASSUME NEW j \in Named, NEW s \in Slot, View(j)[s] \in bbm' \ leaked'
          PROVE  j \in Named' /\ View(j)'[s] = View(j)[s]
      <4>1. j \in Named' /\ j \in Ino /\ View(j) = itab[j].i_block /\ View(j)' = itab'[j].i_block
        BY ZenonT(30), <2>7, NamedInodes
      <4>2. View(j)[s] # 0
        BY <1>1, <3>1, Simple DEF TypeOK
      <4>3. CASE j = ino
        <5>1. j \in {ino} \cap Named
            BY <4>3
        <5>2. View(j)[s] \in BlocksOf({ino} \cap Named)
            BY ZenonT(30), <4>1, <4>2, <5>1, ListedBlocks
        <5> QED
            BY <2>1, <3>1, <5>2
      <4>4. CASE j # ino
        BY ZenonT(30), <2>5, <4>1, <4>4
      <4> QED
        BY <4>3, <4>4
    <3> QED
        BY <1>1, <2>1, <3>1, ReclaimedKept
  <2>8. Covered'
    <3> SUFFICES ASSUME NEW i \in Ino PROVE itab'[i].size <= 2 * Cardinality(Used(itab'[i].i_block))
        BY <2>1 DEF Covered
    <3>1. CASE i = ino
      <4>1. itab'[i].size = 0
        BY <2>1, <2>2, <3>1
      <4> QED
        BY <4>1, Sizes
    <3>2. CASE i # ino
        BY <2>1, <2>2, <3>2 DEF Covered
    <3> QED
        BY <3>1, <3>2
  <2> QED
    BY ZenonT(30), <1>4, <2>4, <2>6, <2>8, <2>9, <2>10
<1>6. CASE written = FALSE
  <2>1. Leave("idle") /\ itab' = itab /\ leaked' = leaked
    BY <1>2, <1>6
  <2>2. TypeOK'
    BY ZenonT(30), <1>1, <1>3, <2>1, LeaveType DEF TypeOK, Places
  <2>3. Operation' /\ Exclusive' /\ Reclaimed' /\ Covered'
    BY <1>1, <2>1, Simple, Ends
  <2> QED
    BY <1>4, <2>2, <2>3
<1> QED
    BY ZenonT(30), <1>5, <1>6

LEMMA CreateEntry == ASSUME IInv, ext2_create_directory_entry PROVE IInv'
<1> USE DEF IInv
<1>1. /\ pc = "entry" /\ Leave("idle")
      /\ bbm' = bbm /\ ibm' = ibm /\ itab' = itab /\ disk_sb' = disk_sb
      /\ gd' = gd /\ sb' = sb /\ flush_required' = flush_required
      /\ cut' = cut /\ leaked' = leaked /\ restarted' = restarted
    BY DEF ext2_create_directory_entry, memory
<1>2. faults' \in Nat
  <2>1. CASE Len(dir) < MaxEntries
    <3>1. PICK written \in BOOLEAN : Write("data", written)
        BY ZenonT(30), <2>1 DEF ext2_create_directory_entry
    <3> QED
        BY <3>1, FaultsCounted
  <2>2. CASE ~(Len(dir) < MaxEntries)
    BY <2>2 DEF ext2_create_directory_entry, TypeOK
  <2> QED
    BY <2>1, <2>2
<1>3. Counted'
    BY <1>1, CountsKept
<1>4. CASE dir' = dir
  <2>1. TypeOK'
    BY ZenonT(30), <1>1, <1>2, <1>4, LeaveType DEF TypeOK, Places
  <2>2. Operation' /\ Exclusive' /\ Reclaimed' /\ Covered'
    BY <1>1, <1>4, Simple, Ends
  <2> QED
    BY ZenonT(30), <1>3, <2>1, <2>2
<1>5. ASSUME NEW n \in Name, dir' = Append(dir, [name |-> n, ino |-> ino])
      PROVE  IInv'
  <2>1. PICK e : e = [name |-> n, ino |-> ino]
    BY ZenonT(30)
  <2>2. e \in Entry /\ e.ino = ino /\ ino \in Ino /\ dir \in Seq(Entry) /\ dir' = Append(dir, e)
    BY <1>5, <2>1 DEF Entry, TypeOK
  <2>3. PICK m \in Nat : m = Len(dir)
    BY ZenonT(30), NamedInodes
  <2>4. /\ dir' \in Seq(Entry) /\ DOMAIN dir = 1..m /\ DOMAIN dir' = 1..m + 1
        /\ dir'[m + 1] = e /\ \A k \in 1..m : dir'[k] = dir[k]
    BY <2>2, <2>3
  <2>5. \A k \in 1..m + 1 : k \in 1..m \/ k = m + 1
    BY <2>3
  <2>6. itab[ino].i_block = NoBlocks
    BY <1>1 DEF Operation
  <2>7. Named' = Named \cup {ino}
    <3>1. ASSUME NEW j \in Named' PROVE j \in Named \cup {ino}
      <4>1. PICK k \in DOMAIN dir' : j = dir'[k].ino
        BY DEF Named
      <4>2. CASE k \in 1..m
        BY ZenonT(30), <2>4, <4>1, <4>2 DEF Named
      <4>3. CASE k = m + 1
        BY <2>2, <2>4, <4>1, <4>3
      <4> QED
        BY ZenonT(30), <2>4, <2>5, <4>2, <4>3
    <3>2. ASSUME NEW j \in Named PROVE j \in Named'
      <4>1. PICK k \in DOMAIN dir : j = dir[k].ino
        BY DEF Named
      <4>2. k \in DOMAIN dir' /\ j = dir'[k].ino
        BY <2>3, <2>4, <4>1
      <4> QED
        BY <4>2 DEF Named
    <3>3. ino \in Named'
      <4>1. m + 1 \in DOMAIN dir' /\ dir'[m + 1].ino = ino
        BY SMTT(30), <2>2, <2>3, <2>4
      <4> QED
        BY <4>1 DEF Named
    <3> QED
        BY <3>1, <3>2, <3>3
  <2>8. TypeOK'
    BY ZenonT(30), <1>1, <1>2, <2>4, LeaveType DEF TypeOK, Places
  <2>9. pc' = "idle"
    BY <1>1 DEF Leave
  <2>10. Operation'
    BY ZenonT(30), <2>9 DEF Operation, Deleting
  <2>11. \A i \in Named : View(i)' = View(i)
    BY <1>1, <2>9, Simple DEF View
  <2>12. \A i \in Named' : i \in Named \/ View(i)' = NoBlocks
    BY <1>1, <2>6, <2>7, <2>9, Simple DEF View
  <2>13. \A s \in Slot : NoBlocks[s] = 0
    BY DEF NoBlocks
  <2>14. Exclusive'
    <3>1. ASSUME NEW i \in Named', NEW s \in Slot, View(i)'[s] # 0
          PROVE  i \in Named /\ View(i)'[s] = View(i)[s]
        BY <2>11, <2>12, <2>13, <3>1
    <3> QED
        BY <1>1, <3>1, ExclusiveKept
  <2>15. Reclaimed'
    BY <1>1, <2>7, <2>11, ReclaimedKept
  <2>16. Covered'
    BY <1>1, <2>9, CoveredKept
  <2> QED
    BY ZenonT(30), <1>3, <2>8, <2>10, <2>14, <2>15, <2>16
<1> QED
    BY ZenonT(30), <1>4, <1>5 DEF ext2_create_directory_entry

LEMMA WriteFile ==
    ASSUME IInv, NEW n \in Name, NEW end \in 1..2 * Direct, ext2_write_file(n, end)
    PROVE  IInv'
<1> USE DEF IInv
<1>1. /\ pc = "idle" /\ pc' = "allocate" /\ size' = end /\ todo' = todo
      /\ bbm' = bbm /\ ibm' = ibm /\ itab' = itab /\ dir' = dir /\ disk_sb' = disk_sb
      /\ gd' = gd /\ sb' = sb /\ flush_required' = flush_required
      /\ cut' = cut /\ leaked' = leaked /\ restarted' = restarted /\ faults' = faults
      /\ i_block' = itab[ino'].i_block
    BY ZenonT(30) DEF ext2_write_file, disk, memory, history
<1>2. ino' \in Named /\ ino' \in Ino
    BY NamedInodes DEF ext2_write_file
<1>3. i_block' \in [Slot -> Block \cup {0}] /\ itab[ino'].size \in Nat
    BY <1>1, <1>2 DEF TypeOK, Inode
<1>4. PICK d \in Nat : d = end - itab[ino'].size
  <2>1. itab[ino'].size < end /\ end \in Nat
    BY SMTT(30), SlotsAssumption DEF ext2_write_file
  <2> QED
    BY SMTT(30), <1>3, <2>1
<1>5. need' = Blocks(d)
    BY <1>4 DEF ext2_write_file
<1>6. need' \in Nat /\ d <= 2 * need'
    BY ZenonT(30), <1>5, BlocksCover
<1>7. TypeOK'
  <2>1. end \in Nat
    BY SMTT(30), SlotsAssumption
  <2> QED
    BY ZenonT(30), <1>1, <1>2, <1>3, <1>6, <2>1 DEF TypeOK, Places
<1>8. Operation'
    BY ZenonT(30), <1>1, <1>2 DEF Operation, Named
<1>9. \A i \in Named : View(i)' = View(i)
    BY <1>1, Simple DEF View
<1>10. Exclusive' /\ Reclaimed'
    BY <1>1, <1>9, SameBlocks
<1>11. Counted'
    BY ZenonT(30), <1>1, CountsKept
<1>12. Covered'
  <2>1. itab[ino'].size <= 2 * Cardinality(Used(itab[ino'].i_block))
    BY <1>2 DEF Covered
  <2>2. PICK c \in Nat : c = Cardinality(Used(itab[ino'].i_block))
    BY Sizes
  <2>3. PICK a \in Nat : a = itab[ino'].size
    BY <1>3
  <2>4. end \in Nat /\ need' \in Nat /\ end - a = d /\ a <= 2 * c /\ d <= 2 * need'
    BY SMTT(30), <1>4, <1>6, <2>1, <2>2, <2>3, SlotsAssumption
  <2>5. end <= 2 * (c + need')
    BY ONLY SMTT(30), <2>4, <2>2, <2>3, <1>4
  <2>6. size' <= 2 * (Cardinality(Used(i_block')) + need')
    BY ZenonT(30), <1>1, <2>2, <2>5
  <2>7. need' <= Cardinality(Slot \ Used(i_block'))
    BY DEF ext2_write_file
  <2> QED
    BY ZenonT(30), <1>1, <2>6, <2>7 DEF Covered
<1> QED
    BY <1>7, <1>8, <1>10, <1>11, <1>12

LEMMA AllocateBlock == ASSUME IInv, ext2_allocate_block PROVE IInv'
<1> USE DEF IInv
<1>1. /\ pc = "allocate" /\ need > 0 /\ pc \notin Deleting
      /\ ibm' = ibm /\ itab' = itab /\ dir' = dir /\ disk_sb' = disk_sb
      /\ cut' = cut /\ restarted' = restarted
    BY Simple DEF ext2_allocate_block
<1>2. CASE gd.blocks = 0 \/ Block \ bbm = {}
  <2>1. /\ Leave("idle") /\ leaked' = leaked \cup Grown
        /\ bbm' = bbm /\ gd' = gd /\ sb' = sb /\ flush_required' = flush_required /\ faults' = faults
    BY ZenonT(30), <1>2 DEF ext2_allocate_block, memory
  <2>3. leaked' \subseteq Block /\ leaked \subseteq leaked' /\ Grown \subseteq leaked'
    BY <2>1, GrownType DEF TypeOK
  <2>2. TypeOK'
    BY ZenonT(30), <1>1, <2>1, <2>3, LeaveType DEF TypeOK, Places
  <2>4. Operation' /\ Exclusive' /\ Reclaimed' /\ Covered'
    BY ZenonT(30), <1>1, <2>1, <2>3, Ends
  <2>5. Counted'
    BY <1>1, <2>1, CountsKept
  <2> QED
    BY ZenonT(30), <2>2, <2>4, <2>5
<1>3. CASE ~(gd.blocks = 0 \/ Block \ bbm = {})
  <2>1. PICK b : b = Least(Block \ bbm)
    OBVIOUS
  <2>2. PICK o : o = Least(Slot \ Used(i_block))
    OBVIOUS
  <2>3. b \in Block /\ b \notin bbm /\ b # 0
    <3>1. Block \ bbm \in SUBSET Nat /\ Block \ bbm # {}
        BY <1>3 DEF Block
    <3> QED
        BY <2>1, <3>1, LeastIn, Simple
  <2>4. o \in Slot \ Used(i_block) /\ o \in Slot /\ i_block[o] = 0
    <3>1. Slot \ Used(i_block) # {}
      <4>1. need \in Nat /\ need <= Cardinality(Slot \ Used(i_block))
        BY <1>1 DEF Covered, TypeOK
      <4>2. Cardinality(Slot \ Used(i_block)) # 0
        BY <1>1, <4>1, Sizes
      <4> QED
        BY <4>2, FS_EmptySet
    <3>2. Slot \ Used(i_block) \in SUBSET Nat
        BY SlotsAssumption DEF Slot
    <3>3. o \in Slot \ Used(i_block)
        BY ZenonT(30), <2>2, <3>1, <3>2, LeastIn
    <3> QED
        BY <3>3 DEF Used
  <2>5. /\ CountBlock(-1) /\ i_block' = [i_block EXCEPT ![o] = b] /\ need' = need - 1
        /\ pc' = pc /\ ino' = ino /\ size' = size /\ todo' = todo /\ leaked' = leaked \ {b}
    BY <1>3, <2>1, <2>2 DEF ext2_allocate_block
  <2>6. /\ bbm' \subseteq bbm \cup {b} /\ faults' \in Nat
        /\ "bitmap" \notin Failing => bbm' = bbm \cup {b}
    <3>1. PICK written \in BOOLEAN : Write("bitmap", written) /\ bbm' = IF written THEN bbm \cup {b} ELSE bbm
        BY ZenonT(30), <1>3, <2>1 DEF ext2_allocate_block
    <3>2. bbm' \subseteq bbm \cup {b}
        BY <3>1
    <3> QED
        BY ZenonT(30), <3>1, <3>2, BitmapWritten, FaultsCounted
  <2>7. i_block \in [Slot -> Block \cup {0}] /\ ino \in Ino /\ need \in Nat /\ bbm \subseteq Block /\ size \in Nat
    BY DEF TypeOK
  <2>8. /\ gd' \in Counters /\ sb' \in Counters /\ flush_required' = TRUE
        /\ gd'.blocks = gd.blocks + (-1) /\ sb'.blocks = sb.blocks + (-1)
    <3>1. -1 \in Int
        OBVIOUS
    <3> QED
        BY ZenonT(30), <2>5, <3>1, CountBlockFacts
  <2>9. need' \in Nat
    BY <1>1, <2>5, <2>7
  <2>10. i_block' \in [Slot -> Block \cup {0}]
    BY ZenonT(30), <2>3, <2>5, <2>7
  <2>11. TypeOK'
    <3>1. bbm' \subseteq Block /\ leaked' \subseteq Block
        BY <2>3, <2>5, <2>6, <2>7 DEF TypeOK
    <3> QED
        BY ZenonT(30), <1>1, <2>5, <2>6, <2>8, <2>9, <2>10, <3>1 DEF TypeOK
  <2>12. Operation'
    <3>1. o \notin Used(itab[ino].i_block)
        BY ZenonT(30), <1>1, <2>3, <2>4 DEF Operation, Used
    <3>2. \A s \in Used(itab[ino].i_block) : s \in Slot /\ i_block'[s] = itab[ino].i_block[s]
        BY ZenonT(30), <1>1, <2>5, <2>7, <3>1 DEF Operation, Used
    <3> QED
        BY <1>1, <2>5, <3>2 DEF Operation, Named
  <2>13. Named' = Named
    BY ZenonT(30), <1>1 DEF Named
  <2>14. \A i \in Named, s \in Slot :
            View(i)'[s] = IF i = ino /\ s = o THEN b ELSE View(i)[s]
    BY <1>1, <2>4, <2>5, <2>7 DEF View
  <2>15. \A s \in Slot : ino \in Named => View(ino)[o] = 0
    BY ZenonT(30), <1>1, <2>4 DEF View
  <2>16. Exclusive'
    <3> SUFFICES ASSUME "bitmap" \notin Failing, ~cut'
                 PROVE  /\ Meta \subseteq bbm'
                        /\ \A i \in Named, s \in Slot : View(i)'[s] # 0 => View(i)'[s] \in bbm' \ Meta
                        /\ \A i, j \in Named, s, r \in Slot :
                              View(i)'[s] = View(j)'[r] /\ View(i)'[s] # 0 => i = j /\ s = r
        BY <2>13 DEF Exclusive
    <3>1. /\ Meta \subseteq bbm
          /\ \A i \in Named, s \in Slot : View(i)[s] # 0 => View(i)[s] \in bbm \ Meta
          /\ \A i, j \in Named, s, r \in Slot :
                View(i)[s] = View(j)[r] /\ View(i)[s] # 0 => i = j /\ s = r
        BY <1>1 DEF Exclusive
    <3>2. ASSUME NEW i \in Named, NEW s \in Slot, View(i)'[s] # 0 PROVE View(i)'[s] \in bbm' \ Meta
        BY ZenonT(30), <2>3, <2>6, <2>14, <3>1, <3>2
    <3>3. ASSUME NEW i \in Named, NEW j \in Named, NEW s \in Slot, NEW r \in Slot,
                 View(i)'[s] = View(j)'[r], View(i)'[s] # 0
          PROVE  i = j /\ s = r
      <4>1. CASE (i = ino /\ s = o) /\ (j = ino /\ r = o)
        BY ZenonT(30), <4>1
      <4>2. CASE (i = ino /\ s = o) /\ ~(j = ino /\ r = o)
        BY SMTT(30), <2>3, <2>14, <3>1, <3>3, <4>2
      <4>3. CASE ~(i = ino /\ s = o) /\ (j = ino /\ r = o)
        BY <2>3, <2>14, <3>1, <3>3, <4>3
      <4>4. CASE ~(i = ino /\ s = o) /\ ~(j = ino /\ r = o)
        <5>1. View(i)'[s] = View(i)[s] /\ View(j)'[r] = View(j)[r]
            BY <2>14, <4>4
        <5>2. View(i)[s] = View(j)[r] /\ View(i)[s] # 0
            BY ZenonT(30), <3>3, <5>1
        <5> QED
            BY <3>1, <5>2
      <4> QED
        BY <4>1, <4>2, <4>3, <4>4
    <3> QED
        BY SMTT(30), <2>6, <3>1, <3>2, <3>3
  <2>17. Reclaimed'
    <3> SUFFICES ASSUME NEW c \in bbm' \ (Meta \cup leaked')
                 PROVE  \E i \in Named, s \in Slot : View(i)'[s] = c
        BY <2>13 DEF Reclaimed
    <3>1. CASE c = b
      <4>1. PICK i \in Named : i = ino
        BY <1>1 DEF Operation
      <4>2. View(i)'[o] = b
        BY ZenonT(30), <2>4, <2>14, <4>1
      <4> QED
        BY ZenonT(30), <2>4, <3>1, <4>2
    <3>2. CASE c # b
      <4>0. c \in bbm \ (Meta \cup leaked)
        BY <2>5, <2>6, <3>2
      <4>1. PICK i \in Named, s \in Slot : View(i)[s] = c
        BY <4>0 DEF Reclaimed
      <4>2. c # 0
        BY <2>7, <4>0, Simple
      <4>3. ~(i = ino /\ s = o)
        BY <2>15, <4>1, <4>2
      <4> QED
        BY <2>14, <4>1, <4>3
    <3> QED
        BY <3>1, <3>2
  <2>18. Counted'
    <3> SUFFICES ASSUME "bitmap" \notin Failing, ~restarted'
                 PROVE  gd'.blocks = Cardinality(Block \ bbm') /\ sb'.blocks = Cardinality(Block \ bbm')
        BY ZenonT(30) DEF Counted, CountsAgree
    <3>1. Cardinality(Block \ bbm') = Cardinality(Block \ bbm) - 1 /\ Cardinality(Block \ bbm) \in Nat
        BY ZenonT(30), <2>3, <2>6, <2>7, FreeBlocks
    <3>2. gd.blocks = Cardinality(Block \ bbm) /\ sb.blocks = Cardinality(Block \ bbm)
        BY ZenonT(30), <1>1 DEF Counted, CountsAgree
    <3> QED
        BY <2>8, <3>1, <3>2
  <2>19. Covered'
    <3>1. /\ Cardinality(Used(i_block')) = Cardinality(Used(i_block)) + 1
          /\ Cardinality(Slot \ Used(i_block')) = Cardinality(Slot \ Used(i_block)) - 1
      <4>1. o \in Slot /\ o \notin Used(i_block) /\ Used(i_block) \in SUBSET Slot
        BY <2>4 DEF Used
      <4>2. Used(i_block') = Used(i_block) \cup {o}
        BY <2>3, <2>4, <2>5, <2>7 DEF Used
      <4>3. /\ Cardinality(Used(i_block) \cup {o}) = Cardinality(Used(i_block)) + 1
            /\ Cardinality(Slot \ (Used(i_block) \cup {o})) = Cardinality(Slot \ Used(i_block)) - 1
        BY ONLY ZenonT(30), <4>1, OneMore
      <4> QED
        BY <4>2, <4>3
    <3>2. PICK u \in Nat : u = Cardinality(Used(i_block))
        BY Sizes
    <3>3. PICK v \in Nat : v = Cardinality(Slot \ Used(i_block))
        BY Sizes
    <3>4. size <= 2 * (u + need) /\ need <= v
        BY <1>1, <3>2, <3>3 DEF Covered
    <3>5. size' <= 2 * ((u + 1) + need') /\ need' <= v - 1
        BY ONLY SMTT(30), <2>5, <2>7, <3>2, <3>3, <3>4
    <3> QED
        BY ZenonT(30), <1>1, <3>1, <3>2, <3>3, <3>5 DEF Covered
  <2> QED
    BY ZenonT(30), <2>11, <2>12, <2>16, <2>17, <2>18, <2>19
<1> QED
    BY ZenonT(30), <1>2, <1>3

LEMMA WriteInode == ASSUME IInv, ext2_write_inode PROVE IInv'
<1> USE DEF IInv
<1>1. /\ pc = "allocate" /\ need = 0 /\ pc \notin Deleting
      /\ bbm' = bbm /\ ibm' = ibm /\ dir' = dir /\ disk_sb' = disk_sb
      /\ gd' = gd /\ sb' = sb /\ flush_required' = flush_required
      /\ cut' = cut /\ restarted' = restarted
    BY Simple DEF ext2_write_inode, memory
<1>2. PICK written \in BOOLEAN :
         Write("inode", written) /\
         IF written THEN /\ itab' = [itab EXCEPT ![ino] = [size |-> size, i_block |-> i_block]]
                         /\ Leave("flush_bg")
                         /\ leaked' = leaked
                    ELSE Leave("idle") /\ leaked' = leaked \cup Grown /\ itab' = itab
    BY DEF ext2_write_inode
<1>3. faults' \in Nat
    BY <1>2, FaultsCounted
<1>4. Counted'
    BY ZenonT(30), <1>1, CountsKept
<1>5. CASE written = TRUE
  <2>1. /\ itab' = [itab EXCEPT ![ino] = [size |-> size, i_block |-> i_block]]
        /\ Leave("flush_bg") /\ leaked' = leaked
    BY <1>2, <1>5
  <2>2. itab \in [Ino -> Inode] /\ ino \in Ino /\ size \in Nat /\ i_block \in [Slot -> Block \cup {0}]
    BY DEF TypeOK
  <2>3. itab' \in [Ino -> Inode]
    BY ZenonT(30), <2>1, <2>2 DEF Inode
  <2>4. TypeOK'
    BY ZenonT(30), <1>1, <1>3, <2>1, <2>3, LeaveType DEF TypeOK, Places
  <2>5. pc' = "flush_bg"
    BY <2>1 DEF Leave
  <2>6. Operation'
    BY ZenonT(30), <1>1, <2>5 DEF Operation, Deleting
  <2>7. ASSUME NEW i \in Named PROVE View(i)' = View(i)
    <3>1. i \in Ino
        BY NamedInodes
    <3>2. View(i)' = itab'[i].i_block
        BY <2>5, Simple DEF View
    <3>3. View(i) = IF i = ino THEN i_block ELSE itab[i].i_block
        BY <1>1 DEF View
    <3> QED
        BY <2>1, <2>2, <3>1, <3>2, <3>3
  <2>8. Exclusive' /\ Reclaimed'
    BY ZenonT(30), <1>1, <2>1, <2>7, SameBlocks
  <2>9. Covered'
    <3> SUFFICES ASSUME NEW i \in Ino PROVE itab'[i].size <= 2 * Cardinality(Used(itab'[i].i_block))
        BY ZenonT(30), <2>5 DEF Covered
    <3>1. CASE i = ino
      <4>1. itab'[i].size = size /\ itab'[i].i_block = i_block
        BY <2>1, <2>2, <3>1
      <4>2. size <= 2 * (Cardinality(Used(i_block)) + 0)
        BY ZenonT(30), <1>1 DEF Covered
      <4>3. Cardinality(Used(i_block)) + 0 = Cardinality(Used(i_block))
        BY SMTT(30), Sizes
      <4> QED
        BY ZenonT(30), <4>1, <4>2, <4>3
    <3>2. CASE i # ino
        BY ZenonT(30), <2>1, <2>2, <3>2 DEF Covered
    <3> QED
        BY <3>1, <3>2
  <2> QED
    BY <1>4, <2>4, <2>6, <2>8, <2>9
<1>6. CASE written = FALSE
  <2>1. Leave("idle") /\ leaked' = leaked \cup Grown /\ itab' = itab
    BY ZenonT(30), <1>2, <1>6
  <2>4. leaked' \subseteq Block /\ leaked \subseteq leaked' /\ Grown \subseteq leaked'
    BY <2>1, GrownType DEF TypeOK
  <2>2. TypeOK'
    BY ZenonT(30), <1>1, <1>3, <2>1, <2>4, LeaveType DEF TypeOK, Places
  <2>3. Operation' /\ Exclusive' /\ Reclaimed' /\ Covered'
    BY ZenonT(30), <1>1, <2>1, <2>4, Ends
  <2> QED
    BY <1>4, <2>2, <2>3
<1> QED
    BY ZenonT(30), <1>5, <1>6

LEMMA Sync == ASSUME IInv, ext2_sync PROVE IInv'
<1> USE DEF IInv
<1>1. /\ pc = "idle" /\ pc \notin Deleting /\ Leave("flush_bg")
      /\ bbm' = bbm /\ ibm' = ibm /\ itab' = itab /\ dir' = dir /\ disk_sb' = disk_sb
      /\ gd' = gd /\ sb' = sb /\ flush_required' = flush_required
      /\ cut' = cut /\ leaked' = leaked /\ restarted' = restarted /\ faults' = faults
    BY ZenonT(30), Simple DEF ext2_sync, disk, memory, history
<1>2. TypeOK'
    BY <1>1, LeaveType DEF TypeOK, Places
<1>3. Operation' /\ Exclusive' /\ Reclaimed' /\ Covered'
    BY <1>1, Ends
<1>4. Counted'
    BY <1>1, CountsKept
<1> QED
    BY <1>2, <1>3, <1>4

LEMMA FlushBg == ASSUME IInv, ext2_flush_bg PROVE IInv'
<1> USE DEF IInv
<1>1. /\ pc = "flush_bg" /\ pc' = "flush_sb"
      /\ ino' = ino /\ i_block' = i_block /\ size' = size /\ need' = need /\ todo' = todo
      /\ bbm' = bbm /\ ibm' = ibm /\ itab' = itab /\ dir' = dir
      /\ gd' = gd /\ sb' = sb /\ flush_required' = flush_required
      /\ cut' = cut /\ leaked' = leaked /\ restarted' = restarted
    BY DEF ext2_flush_bg, Goto, local, memory
<1>2. PICK written \in BOOLEAN :
         Write("flush", written) /\ disk_sb' = IF written THEN Clobbered ELSE disk_sb
    BY DEF ext2_flush_bg
<1>3. TypeOK'
  <2>1. faults' \in Nat
    BY <1>2, FaultsCounted
  <2>2. disk_sb' \in Counters \cup {Clobbered}
    BY ZenonT(30), <1>2 DEF TypeOK
  <2> QED
    BY <1>1, <2>1, <2>2 DEF TypeOK, Places
<1>4. Operation'
    BY <1>1 DEF Operation, Deleting
<1>5. \A i : View(i)' = View(i)
    BY <1>1, Simple DEF View
<1>6. Exclusive' /\ Reclaimed'
    BY <1>1, <1>5, SameBlocks
<1>7. Counted' /\ Covered'
    BY <1>1, CountsKept, CoveredKept
<1> QED
    BY ZenonT(30), <1>3, <1>4, <1>6, <1>7

LEMMA FlushSb == ASSUME IInv, ext2_flush_sb PROVE IInv'
<1> USE DEF IInv
<1>1. /\ pc = "flush_sb" /\ pc \notin Deleting /\ Leave("idle")
      /\ bbm' = bbm /\ ibm' = ibm /\ itab' = itab /\ dir' = dir
      /\ gd' = gd /\ sb' = sb /\ flush_required' = FALSE
      /\ cut' = cut /\ leaked' = leaked /\ restarted' = restarted
    BY Simple DEF ext2_flush_sb
<1>2. PICK written \in BOOLEAN : Write("flush", written) /\ disk_sb' = IF written THEN sb ELSE disk_sb
    BY DEF ext2_flush_sb
<1>3. TypeOK'
  <2>1. faults' \in Nat
    BY <1>2, FaultsCounted
  <2>2. disk_sb' \in Counters \cup {Clobbered}
    BY <1>2 DEF TypeOK
  <2> QED
    BY ZenonT(30), <1>1, <2>1, <2>2, LeaveType DEF TypeOK, Places
<1>4. Operation' /\ Exclusive' /\ Reclaimed' /\ Covered'
    BY <1>1, Ends
<1>5. Counted'
    BY <1>1, CountsKept
<1> QED
    BY ZenonT(30), <1>3, <1>4, <1>5

LEMMA DeleteFile == ASSUME IInv, NEW n \in Name, ext2_delete_file(n) PROVE IInv'
<1> USE DEF IInv
<1>1. /\ pc = "idle" /\ pc' = "deallocate" /\ size' = size /\ need' = need
      /\ bbm' = bbm /\ ibm' = ibm /\ itab' = itab /\ dir' = dir /\ disk_sb' = disk_sb
      /\ gd' = gd /\ sb' = sb /\ flush_required' = flush_required
      /\ cut' = cut /\ restarted' = restarted /\ faults' = faults
      /\ i_block' = itab[ino'].i_block
      /\ leaked' = leaked \cup At(i_block', Used(i_block') \ todo')
    BY DEF ext2_delete_file, disk, memory
<1>2. ino' \in Named /\ ino' \in Ino
    BY ZenonT(30), NamedInodes DEF ext2_delete_file
<1>3. i_block' \in [Slot -> Block \cup {0}] /\ todo' \subseteq Used(i_block') /\ todo' \subseteq Slot
    BY ZenonT(30), <1>1, <1>2 DEF ext2_delete_file, Listed, Used, TypeOK, Inode
<1>4. TypeOK'
  <2>1. Used(i_block') \ todo' \in SUBSET Used(i_block')
    OBVIOUS
  <2>2. leaked' \subseteq Block
    BY <1>1, <1>3, <2>1, AtBlocks DEF TypeOK
  <2> QED
    BY ZenonT(30), <1>1, <1>2, <1>3, <2>2 DEF TypeOK, Places, Deleting
<1>5. Operation'
  <2>1. /\ pc' = "deallocate" /\ todo' \subseteq Used(i_block') /\ ino' \in Named'
        /\ i_block' = itab'[ino'].i_block
    BY ZenonT(30), <1>1, <1>2, <1>3 DEF Named
  <2> QED
    BY ONLY ZenonT(30), <2>1 DEF Operation
<1>6. Named' = Named
    BY <1>1 DEF Named
<1>7. \A i : View(i) = itab[i].i_block
    BY ZenonT(30), <1>1, Simple DEF View
<1>8. ASSUME NEW i \in Named, NEW s \in Slot
      PROVE  View(i)'[s] = IF i = ino' /\ s \notin todo' THEN 0 ELSE View(i)[s]
  <2>1. CASE i = ino'
    <3>1. View(i)' = [r \in Slot |-> IF r \in todo' THEN i_block'[r] ELSE 0]
        BY <1>1, <2>1 DEF View, Deleting
    <3> QED
        BY ZenonT(30), <1>1, <1>7, <2>1, <3>1
  <2>2. CASE i # ino'
    BY ZenonT(30), <1>1, <1>7, <2>2 DEF View
  <2> QED
    BY ZenonT(30), <2>1, <2>2
<1>9. Exclusive'
    BY ZenonT(30), <1>1, <1>6, <1>8, ExclusiveKept
<1>10. Reclaimed'
  <2>1. ASSUME NEW i \in Named, NEW s \in Slot, View(i)[s] \in bbm' \ leaked'
        PROVE  View(i)'[s] = View(i)[s]
    <3>1. View(i)[s] # 0
        BY <1>1, <2>1, Simple DEF TypeOK
    <3>2. CASE i = ino'
      <4>0. View(i)[s] = i_block'[s] /\ s \in Used(i_block')
        BY <1>1, <1>7, <3>1, <3>2 DEF Used
      <4>1. s \in todo'
        BY <1>1, <2>1, <4>0 DEF At
      <4> QED
        BY <1>8, <4>1
    <3>3. CASE i # ino'
        BY <1>8, <3>3
    <3> QED
        BY <3>2, <3>3
  <2>2. leaked \subseteq leaked' /\ bbm' \subseteq bbm
    BY <1>1
  <2> QED
    BY ZenonT(30), <1>6, <2>1, <2>2, ReclaimedKept
<1>11. Counted' /\ Covered'
    BY <1>1, CountsKept, CoveredKept
<1> QED
    BY ZenonT(30), <1>4, <1>5, <1>9, <1>10, <1>11

LEMMA DeallocateBlock == ASSUME IInv, ext2_deallocate_block PROVE IInv'
<1> USE DEF IInv
<1>1. /\ pc = "deallocate" /\ pc \in Deleting /\ todo # {}
      /\ ibm' = ibm /\ itab' = itab /\ dir' = dir /\ disk_sb' = disk_sb /\ restarted' = restarted
    BY DEF ext2_deallocate_block, Deleting
<1>2. PICK o : o = Greatest(todo)
    OBVIOUS
<1>3. o \in todo /\ o \in Slot
  <2>1. todo \in SUBSET (0..Direct) /\ Direct \in Nat
    BY SlotsAssumption DEF TypeOK, Slot
  <2> QED
    BY ZenonT(30), <1>1, <1>2, <2>1, GreatestIn DEF TypeOK
<1>4. PICK b : b = i_block[o]
    OBVIOUS
<1>5. CASE b \notin bbm
  <2>1. /\ Leave("idle") /\ cut' = TRUE /\ leaked' = leaked
        /\ bbm' = bbm /\ gd' = gd /\ sb' = sb /\ flush_required' = flush_required /\ faults' = faults
    BY ZenonT(30), <1>2, <1>4, <1>5 DEF ext2_deallocate_block, memory
  <2>2. TypeOK'
    BY ZenonT(30), <1>1, <2>1, LeaveType DEF TypeOK, Places
  <2>3. Operation' /\ Exclusive' /\ Reclaimed' /\ Covered'
    BY <1>1, <2>1, Ends
  <2>4. Counted'
    BY <1>1, <2>1, CountsKept
  <2> QED
    BY <2>2, <2>3, <2>4
<1>6. CASE b \in bbm
  <2>1. /\ CountBlock(1) /\ todo' = todo \ {o}
        /\ pc' = pc /\ ino' = ino /\ i_block' = i_block /\ size' = size /\ need' = need
        /\ cut' = cut
    BY <1>2, <1>4, <1>6 DEF ext2_deallocate_block
  <2>2. /\ bbm' \subseteq bbm /\ leaked \subseteq leaked' /\ leaked' \subseteq leaked \cup {b}
        /\ b \notin bbm' \ leaked' /\ faults' \in Nat
        /\ "bitmap" \notin Failing => bbm' = bbm \ {b}
    <3>1. PICK written \in BOOLEAN : /\ Write("bitmap", written)
                                     /\ bbm' = IF written THEN bbm \ {b} ELSE bbm
                                     /\ leaked' = IF written THEN leaked ELSE leaked \cup {b}
        BY ZenonT(30), <1>2, <1>4, <1>6 DEF ext2_deallocate_block
    <3>2. /\ bbm' \subseteq bbm /\ leaked \subseteq leaked' /\ leaked' \subseteq leaked \cup {b}
          /\ b \notin bbm' \ leaked'
        BY <3>1
    <3> QED
        BY ZenonT(30), <3>1, <3>2, BitmapWritten, FaultsCounted
  <2>3. bbm \subseteq Block /\ b \in Block /\ b # 0
    BY <1>6, Simple DEF TypeOK
  <2>4. /\ gd' \in Counters /\ sb' \in Counters /\ flush_required' = TRUE
        /\ gd'.blocks = gd.blocks + 1 /\ sb'.blocks = sb.blocks + 1
    <3>1. 1 \in Int
        OBVIOUS
    <3> QED
        BY ZenonT(30), <2>1, <3>1, CountBlockFacts
  <2>5. TypeOK'
    <3>1. bbm' \subseteq Block /\ leaked' \subseteq Block /\ todo' \subseteq Slot
        BY <2>1, <2>2, <2>3 DEF TypeOK
    <3> QED
        BY ZenonT(30), <1>1, <2>1, <2>2, <2>4, <3>1 DEF TypeOK
  <2>6. Operation'
    BY ZenonT(30), <1>1, <2>1 DEF Operation, Named
  <2>7. Named' = Named
    BY ZenonT(30), <1>1 DEF Named
  <2>8. ASSUME NEW i \in Named, NEW s \in Slot
        PROVE  View(i)'[s] = IF i = ino /\ s = o THEN 0 ELSE View(i)[s]
    <3>1. CASE i = ino
      <4>1. View(i)' = [r \in Slot |-> IF r \in todo \ {o} THEN i_block[r] ELSE 0]
        BY ZenonT(30), <1>1, <2>1, <3>1 DEF View, Deleting
      <4>2. View(i) = [r \in Slot |-> IF r \in todo THEN i_block[r] ELSE 0]
        BY <1>1, <3>1 DEF View, Deleting
      <4> QED
        BY ZenonT(30), <3>1, <4>1, <4>2
    <3>2. CASE i # ino
        BY ZenonT(30), <1>1, <2>1, <3>2 DEF View
    <3> QED
        BY ZenonT(30), <3>1, <3>2
  <2>9. PICK f \in Named : f = ino
    BY <1>1 DEF Operation
  <2>10. View(f)[o] = b
    BY <1>1, <1>3, <1>4, <2>9 DEF View, Deleting
  <2>11. Exclusive'
    <3> SUFFICES ASSUME "bitmap" \notin Failing, ~cut'
                 PROVE  /\ Meta \subseteq bbm'
                        /\ \A i \in Named, s \in Slot : View(i)'[s] # 0 => View(i)'[s] \in bbm' \ Meta
                        /\ \A i, j \in Named, s, r \in Slot :
                              View(i)'[s] = View(j)'[r] /\ View(i)'[s] # 0 => i = j /\ s = r
        BY <2>7 DEF Exclusive
    <3>1. /\ Meta \subseteq bbm
          /\ \A i \in Named, s \in Slot : View(i)[s] # 0 => View(i)[s] \in bbm \ Meta
          /\ \A i, j \in Named, s, r \in Slot :
                View(i)[s] = View(j)[r] /\ View(i)[s] # 0 => i = j /\ s = r
        BY ZenonT(30), <2>1 DEF Exclusive
    <3>2. b \notin Meta
        BY ZenonT(30), <1>3, <2>3, <2>9, <2>10, <3>1
    <3>3. ASSUME NEW i \in Named, NEW s \in Slot, View(i)'[s] # 0
          PROVE  View(i)'[s] = View(i)[s] /\ View(i)[s] # b
      <4>1. View(i)'[s] = View(i)[s] /\ ~(i = f /\ s = o)
        BY ZenonT(30), <2>8, <2>9, <3>3
      <4> QED
        BY SMTT(30), <1>3, <2>9, <2>10, <3>1, <3>3, <4>1
    <3>4. ASSUME NEW i \in Named, NEW s \in Slot, View(i)'[s] # 0 PROVE View(i)'[s] \in bbm' \ Meta
        BY SMTT(30), <2>2, <3>1, <3>3, <3>4
    <3>5. ASSUME NEW i \in Named, NEW j \in Named, NEW s \in Slot, NEW r \in Slot,
                 View(i)'[s] = View(j)'[r], View(i)'[s] # 0
          PROVE  i = j /\ s = r
      <4>1. View(i)[s] = View(j)[r] /\ View(i)[s] # 0
        BY ZenonT(30), <3>3, <3>5
      <4> QED
        BY SMTT(30), <3>1, <4>1
    <3>6. Meta \subseteq bbm'
        BY <2>2, <3>1, <3>2
    <3>7. \A i \in Named, s \in Slot : View(i)'[s] # 0 => View(i)'[s] \in bbm' \ Meta
        BY ONLY <3>4
    <3>8. \A i, j \in Named, s, r \in Slot :
              View(i)'[s] = View(j)'[r] /\ View(i)'[s] # 0 => i = j /\ s = r
        BY ONLY <3>5
    <3> QED
        BY ONLY ZenonT(30), <3>6, <3>7, <3>8
  <2>12. Reclaimed'
    <3> SUFFICES ASSUME NEW c \in bbm' \ (Meta \cup leaked')
                 PROVE  \E i \in Named, s \in Slot : View(i)'[s] = c
        BY <2>7 DEF Reclaimed
    <3>1. c \in bbm \ (Meta \cup leaked) /\ c # b
        BY <2>2
    <3>2. PICK i \in Named, s \in Slot : View(i)[s] = c
        BY <3>1 DEF Reclaimed
    <3>3. ~(i = ino /\ s = o)
        BY ZenonT(30), <2>9, <2>10, <3>1, <3>2
    <3> QED
        BY ZenonT(30), <2>8, <3>2, <3>3
  <2>13. Counted'
    <3> SUFFICES ASSUME "bitmap" \notin Failing, ~restarted'
                 PROVE  gd'.blocks = Cardinality(Block \ bbm') /\ sb'.blocks = Cardinality(Block \ bbm')
        BY ZenonT(30) DEF Counted, CountsAgree
    <3>1. Cardinality(Block \ bbm') = Cardinality(Block \ bbm) + 1
        BY ZenonT(30), <1>6, <2>2, <2>3, FreeBlocks
    <3>2. gd.blocks = Cardinality(Block \ bbm) /\ sb.blocks = Cardinality(Block \ bbm)
        BY ZenonT(30), <1>1 DEF Counted, CountsAgree
    <3> QED
        BY <2>4, <3>1, <3>2
  <2>14. Covered'
    BY ZenonT(30), <1>1, <2>1, CoveredKept
  <2> QED
    BY ZenonT(30), <2>5, <2>6, <2>11, <2>12, <2>13, <2>14
<1> QED
    BY <1>5, <1>6

LEMMA DeleteInode == ASSUME IInv, ext2_delete_inode PROVE IInv'
<1> USE DEF IInv
<1>1. /\ pc = "deallocate" /\ pc \in Deleting /\ todo = {} /\ flush_required' = TRUE
      /\ bbm' = bbm /\ ibm' = ibm /\ dir' = dir /\ disk_sb' = disk_sb
      /\ gd' = gd /\ sb' = sb /\ restarted' = restarted /\ leaked' = leaked
    BY DEF ext2_delete_inode, Deleting
<1>2. PICK written \in BOOLEAN :
         Write("inode", written) /\
         IF written THEN /\ itab' = [itab EXCEPT ![ino].size = 0] /\ Goto("bitmap")
                         /\ cut' = cut
                    ELSE Leave("idle") /\ cut' = TRUE /\ itab' = itab
    BY DEF ext2_delete_inode
<1>3. faults' \in Nat
    BY <1>2, FaultsCounted
<1>4. Counted'
    BY ZenonT(30), <1>1, CountsKept
<1>5. CASE written = TRUE
  <2>1. /\ pc' = "bitmap" /\ ino' = ino /\ i_block' = i_block /\ size' = size /\ need' = need /\ todo' = todo
        /\ itab' = [itab EXCEPT ![ino].size = 0] /\ cut' = cut
    BY ZenonT(30), <1>2, <1>5 DEF Goto, local
  <2>2. ino \in Ino /\ itab \in [Ino -> Inode] /\ 0 \in Nat
    BY DEF TypeOK
  <2>3. /\ itab' \in [Ino -> Inode]
        /\ \A i \in Ino : itab'[i].i_block = itab[i].i_block
        /\ \A i \in Ino : itab'[i].size = IF i = ino THEN 0 ELSE itab[i].size
    BY <2>1, <2>2 DEF Inode
  <2>4. TypeOK'
    BY ZenonT(30), <1>1, <1>3, <2>1, <2>3 DEF TypeOK, Places, Deleting
  <2>5. Operation'
    BY ZenonT(30), <1>1, <2>1, <2>2, <2>3 DEF Operation, Named, Deleting
  <2>6. \A i \in Named : View(i)' = View(i)
    BY <1>1, <2>1, <2>3, NamedInodes DEF View, Deleting
  <2>7. Exclusive' /\ Reclaimed'
    BY ZenonT(30), <1>1, <2>1, <2>6, SameBlocks
  <2>8. Covered'
    <3> SUFFICES ASSUME NEW i \in Ino PROVE itab'[i].size <= 2 * Cardinality(Used(itab'[i].i_block))
        BY ZenonT(30), <2>1 DEF Covered
    <3>1. CASE i = ino
      <4>1. itab'[i].size = 0
        BY ZenonT(30), <2>3, <3>1
      <4> QED
        BY <4>1, Sizes
    <3>2. CASE i # ino
        BY ZenonT(30), <2>3, <3>2 DEF Covered
    <3> QED
        BY <3>1, <3>2
  <2> QED
    BY <1>4, <2>4, <2>5, <2>7, <2>8
<1>6. CASE written = FALSE
  <2>1. Leave("idle") /\ cut' = TRUE /\ itab' = itab
    BY ZenonT(30), <1>2, <1>6
  <2>2. TypeOK'
    BY ZenonT(30), <1>1, <1>3, <2>1, LeaveType DEF TypeOK, Places
  <2>3. Operation' /\ Exclusive' /\ Reclaimed' /\ Covered'
    BY ZenonT(30), <1>1, <2>1, Ends
  <2> QED
    BY <1>4, <2>2, <2>3
<1> QED
    BY ZenonT(30), <1>5, <1>6

LEMMA WriteInodeBitmap == ASSUME IInv, ext2_write_inode_bitmap PROVE IInv'
<1> USE DEF IInv
<1>1. /\ pc = "bitmap" /\ pc \in Deleting
      /\ bbm' = bbm /\ itab' = itab /\ dir' = dir /\ disk_sb' = disk_sb /\ restarted' = restarted
      /\ leaked' = leaked
    BY ZenonT(30) DEF ext2_write_inode_bitmap, Deleting
<1>2. PICK written \in BOOLEAN :
         Write("ibitmap", written) /\
         IF written THEN /\ ibm' = ibm \ (BYTE * (ino - 1) + 1 .. BYTE * ino)
                         /\ CountInode(1) /\ Goto("remove")
                         /\ cut' = cut
                    ELSE /\ Leave("idle") /\ cut' = TRUE
                         /\ ibm' = ibm /\ gd' = gd /\ sb' = sb /\ flush_required' = flush_required
    BY DEF ext2_write_inode_bitmap, memory
<1>3. faults' \in Nat
    BY ZenonT(30), <1>2, FaultsCounted
<1>4. CASE written = TRUE
  <2>1. /\ pc' = "remove" /\ ino' = ino /\ i_block' = i_block /\ size' = size /\ need' = need /\ todo' = todo
        /\ CountInode(1) /\ cut' = cut
        /\ ibm' \subseteq ibm
    BY <1>2, <1>4 DEF Goto, local
  <2>2. /\ gd' \in Counters /\ sb' \in Counters /\ flush_required' = TRUE
        /\ gd'.blocks = gd.blocks /\ sb'.blocks = sb.blocks
    <3>1. 1 \in Int
        BY SMTT(30)
    <3> QED
        BY ZenonT(30), <2>1, <3>1, CountInodeFacts
  <2>3. TypeOK'
    BY ZenonT(30), <1>1, <1>3, <2>1, <2>2 DEF TypeOK, Places, Deleting
  <2>4. Operation'
    BY ZenonT(30), <1>1, <2>1 DEF Operation, Named, Deleting
  <2>5. \A i : View(i)' = View(i)
    BY <1>1, <2>1 DEF View, Deleting
  <2>6. Exclusive' /\ Reclaimed'
    BY ZenonT(30), <1>1, <2>1, <2>5, SameBlocks
  <2>7. Counted' /\ Covered'
    BY ZenonT(30), <1>1, <2>1, <2>2, CountsKept, CoveredKept
  <2> QED
    BY <2>3, <2>4, <2>6, <2>7
<1>5. CASE written = FALSE
  <2>1. /\ Leave("idle") /\ cut' = TRUE
        /\ ibm' = ibm /\ gd' = gd /\ sb' = sb /\ flush_required' = flush_required
    BY ZenonT(30), <1>2, <1>5
  <2>2. TypeOK'
    BY ZenonT(30), <1>1, <1>3, <2>1, LeaveType DEF TypeOK, Places
  <2>3. Operation' /\ Exclusive' /\ Reclaimed' /\ Covered'
    BY <1>1, <2>1, Ends
  <2>4. Counted'
    BY ZenonT(30), <1>1, <2>1, CountsKept
  <2> QED
    BY <2>2, <2>3, <2>4
<1> QED
    BY ZenonT(30), <1>4, <1>5

LEMMA DeleteDentry == ASSUME IInv, ext2_delete_dentry PROVE IInv'
<1> USE DEF IInv
<1>1. /\ pc = "remove" /\ pc \in Deleting
      /\ bbm' = bbm /\ ibm' = ibm /\ itab' = itab /\ disk_sb' = disk_sb /\ restarted' = restarted
      /\ gd' = gd /\ sb' = sb /\ flush_required' = flush_required /\ leaked' = leaked
    BY DEF ext2_delete_dentry, memory, Deleting
<1>2. PICK written \in BOOLEAN :
         Write("data", written) /\
         IF written THEN /\ \E k \in DOMAIN dir :
                               /\ dir[k].ino = ino
                               /\ cut' = (cut \/ \E m \in DOMAIN dir \ {k} : dir[m].ino = ino)
                               /\ dir' = SubSeq(dir, 1, k - 1) \o SubSeq(dir, k + 1, Len(dir))
                         /\ Leave("flush_bg")
                    ELSE Leave("idle") /\ cut' = TRUE /\ dir' = dir
    BY ZenonT(30) DEF ext2_delete_dentry
<1>3. faults' \in Nat
    BY <1>2, FaultsCounted
<1>4. Counted'
    BY <1>1, CountsKept
<1>5. CASE written = TRUE
  <2>1. Leave("flush_bg") /\ pc' = "flush_bg"
    BY <1>2, <1>5 DEF Leave
  <2>2. PICK n \in Nat : n = Len(dir) /\ DOMAIN dir = 1..n
    BY ZenonT(30), NamedInodes
  <2>3. PICK k \in 1..n : /\ dir[k].ino = ino
                          /\ cut' = (cut \/ \E m \in DOMAIN dir \ {k} : dir[m].ino = ino)
                          /\ dir' = SubSeq(dir, 1, k - 1) \o SubSeq(dir, k + 1, Len(dir))
    BY ZenonT(30), <1>2, <1>5, <2>2
  <2>4. /\ dir' \in Seq(Entry) /\ DOMAIN dir' = 1..n - 1
        /\ \A m \in 1..k - 1 : dir'[m] = dir[m]
        /\ \A m \in k..n - 1 : dir'[m] = dir[m + 1]
    <3>1. dir \in Seq(Entry)
        BY DEF TypeOK
    <3>2. k \in 1..Len(dir)
        BY ZenonT(30), <2>2
    <3>3. /\ Without(dir, k) \in Seq(Entry) /\ DOMAIN Without(dir, k) = 1..Len(dir) - 1
          /\ \A m \in 1..k - 1 : Without(dir, k)[m] = dir[m]
          /\ \A m \in k..Len(dir) - 1 : Without(dir, k)[m] = dir[m + 1]
        BY ONLY <3>1, <3>2, Removed
    <3>4. dir' = Without(dir, k)
        BY <2>3 DEF Without
    <3> QED
        BY <2>2, <3>3, <3>4
  <2>5. ASSUME NEW m \in 1..n - 1
        PROVE  \E l \in 1..n : l # k /\ dir'[m] = dir[l] /\ l = IF m < k THEN m ELSE m + 1
    <3>1. CASE m < k
      <4>1. m \in 1..k - 1 /\ m \in 1..n /\ m # k
        BY SMTT(30), <2>2, <2>3, <3>1
      <4> QED
        BY <2>4, <3>1, <4>1
    <3>2. CASE ~(m < k)
      <4>1. m \in k..n - 1 /\ m + 1 \in 1..n /\ m + 1 # k
        BY <2>2, <2>3, <3>2
      <4> QED
        BY <2>4, <3>2, <4>1
    <3> QED
        BY <3>1, <3>2
  <2>6. ASSUME NEW l \in 1..n, l # k PROVE \E m \in 1..n - 1 : dir'[m] = dir[l]
    <3>1. CASE l < k
      <4>1. l \in 1..k - 1 /\ l \in 1..n - 1
        BY SMTT(30), <2>2, <2>3, <3>1
      <4> QED
        BY <2>4, <4>1
    <3>2. CASE ~(l < k)
      <4>1. PICK m \in k..n - 1 : l = m + 1
        <5>1. l - 1 \in k..n - 1 /\ l = (l - 1) + 1
            BY SMTT(30), <2>2, <2>3, <2>6, <3>2
        <5> QED
            BY <5>1
      <4>2. m \in 1..n - 1
        BY SMTT(30), <2>3, <4>1
      <4> QED
        BY <2>4, <4>1, <4>2
    <3> QED
        BY ZenonT(30), <3>1, <3>2
  <2>7. ~cut' => ~cut /\ \A l \in 1..n : l # k => dir[l].ino # ino
    BY ZenonT(30), <2>2, <2>3
  <2>8. Named' \subseteq Named /\ Named \ {ino} \subseteq Named' /\ (~cut' => ino \notin Named')
    <3>1. ASSUME NEW i \in Named' PROVE i \in Named /\ (~cut' => i # ino)
      <4>1. PICK m \in 1..n - 1 : i = dir'[m].ino
        BY ZenonT(30), <2>4 DEF Named
      <4>2. PICK l \in 1..n : l # k /\ dir'[m] = dir[l]
        BY <2>5
      <4>3. i = dir[l].ino
        BY ZenonT(30), <4>1, <4>2
      <4>4. ~cut' => i # ino
        BY ZenonT(30), <2>7, <4>2, <4>3
      <4> QED
        BY ZenonT(30), <2>2, <4>3, <4>4 DEF Named
    <3>2. ASSUME NEW i \in Named, i # ino PROVE i \in Named'
      <4>1. PICK l \in 1..n : i = dir[l].ino
        BY <2>2 DEF Named
      <4>2. l # k
        BY <2>3, <3>2, <4>1
      <4>3. PICK m \in 1..n - 1 : dir'[m] = dir[l]
        BY ZenonT(30), <2>6, <4>2
      <4> QED
        BY ZenonT(30), <2>4, <4>1, <4>3 DEF Named
    <3> QED
        BY ZenonT(30), <3>1, <3>2
  <2>9. TypeOK'
    <3>1. cut' \in BOOLEAN
        BY ZenonT(30), <2>3
    <3> QED
        BY ZenonT(30), <1>1, <1>3, <2>1, <2>4, <3>1, LeaveType DEF TypeOK, Places
  <2>10. Operation'
    BY ONLY <2>1 DEF Operation, Deleting
  <2>11. \A i : View(i)' = itab[i].i_block
    BY <1>1, <2>1, Simple DEF View
  <2>12. \A i \in Named : i # ino => View(i) = itab[i].i_block
    BY DEF View
  <2>13. \A s \in Slot : \A i \in Named : i = ino => View(i)[s] = 0
    BY ZenonT(30), <1>1 DEF View, Operation
  <2>14. Exclusive'
    BY ZenonT(30), <1>1, <2>7, <2>8, <2>11, <2>12, ExclusiveKept
  <2>15. Reclaimed'
    <3>1. ASSUME NEW i \in Named, NEW s \in Slot, View(i)[s] \in bbm' \ leaked'
          PROVE  i \in Named' /\ View(i)'[s] = View(i)[s]
      <4>1. View(i)[s] # 0
        BY <1>1, <3>1, Simple DEF TypeOK
      <4>2. i # ino
        BY ZenonT(30), <2>13, <4>1
      <4> QED
        BY ZenonT(30), <2>8, <2>11, <2>12, <4>2
    <3> QED
        BY <1>1, <3>1, ReclaimedKept
  <2>16. Covered'
    BY ZenonT(30), <1>1, <2>1, CoveredKept
  <2> QED
    BY ZenonT(30), <1>4, <2>9, <2>10, <2>14, <2>15, <2>16
<1>6. CASE written = FALSE
  <2>1. Leave("idle") /\ cut' = TRUE /\ dir' = dir
    BY ZenonT(30), <1>2, <1>6
  <2>2. TypeOK'
    BY ZenonT(30), <1>1, <1>3, <2>1, LeaveType DEF TypeOK, Places
  <2>3. Operation' /\ Exclusive' /\ Reclaimed' /\ Covered'
    BY <1>1, <2>1, Ends
  <2> QED
    BY <1>4, <2>2, <2>3
<1> QED
    BY ZenonT(30), <1>5, <1>6

LEMMA RestartIInv == ASSUME IInv, Restart PROVE IInv'
<1> USE DEF IInv
<1>1. /\ gd' = Fresh /\ flush_required' = FALSE /\ restarted' = TRUE /\ faults' = faults + 1
      /\ cut' = (cut \/ pc \in Deleting)
      /\ leaked' = IF pc = "allocate" THEN leaked \cup Grown ELSE leaked
      /\ bbm' = bbm /\ ibm' = ibm /\ itab' = itab /\ dir' = dir /\ disk_sb' = disk_sb
    BY DEF Restart, disk
<1>2. PICK place \in {"idle", "lost"} : Leave(place) /\ sb' \in Counters
    BY ZenonT(30) DEF Restart, TypeOK
<1>3. TypeOK'
  <2>1. place \in Places
    BY DEF Places
  <2>2. faults' \in Nat
    BY <1>1 DEF TypeOK
  <2>3. cut' \in BOOLEAN /\ restarted' \in BOOLEAN /\ flush_required' \in BOOLEAN
    BY ZenonT(30), <1>1
  <2>4. leaked' \subseteq Block
    BY <1>1, GrownType DEF TypeOK
  <2> QED
    BY ZenonT(30), <1>1, <1>2, <2>1, <2>2, <2>3, <2>4, Simple, LeaveType DEF TypeOK
<1>4. ~cut' => ~cut /\ pc \notin Deleting
    BY ZenonT(30), <1>1
<1>5. leaked \subseteq leaked' /\ (pc = "allocate" => Grown \subseteq leaked')
    BY <1>1
<1>6. Operation' /\ Exclusive' /\ Reclaimed' /\ Covered'
  <2>1. place \in {"idle", "flush_bg", "stray", "lost"}
    OBVIOUS
  <2> QED
    BY ZenonT(30), <1>1, <1>2, <1>4, <1>5, <2>1, Ends
<1>7. Counted'
    BY ZenonT(30), <1>1 DEF Counted, CountsAgree
<1> QED
    BY ZenonT(30), <1>3, <1>6, <1>7

LEMMA StutterIInv == ASSUME IInv, UNCHANGED vars PROVE IInv'
<1>1. /\ bbm' = bbm /\ ibm' = ibm /\ itab' = itab /\ dir' = dir /\ disk_sb' = disk_sb
      /\ gd' = gd /\ sb' = sb /\ flush_required' = flush_required
      /\ pc' = pc /\ ino' = ino /\ i_block' = i_block /\ size' = size /\ need' = need /\ todo' = todo
      /\ cut' = cut /\ leaked' = leaked /\ restarted' = restarted /\ faults' = faults
    BY DEF vars, disk, memory, local, history
<1>2. TypeOK'
    BY ZenonT(30), <1>1 DEF IInv, TypeOK
<1>3. Operation'
    BY ZenonT(30), <1>1 DEF IInv, Operation, Named
<1>4. \A i : View(i)' = View(i)
    BY <1>1 DEF View
<1>5. Exclusive' /\ Reclaimed'
    BY ZenonT(30), <1>1, <1>4, SameBlocks DEF IInv
<1>6. Counted' /\ Covered'
    BY <1>1 DEF IInv, Counted, CountsAgree, Covered
<1> QED
    BY ZenonT(30), <1>2, <1>3, <1>5, <1>6 DEF IInv
-----------------------------------------------------------------------------
(* The theorems. *)

\* The inductive invariant holds, for every partition and whatever writes fail.
THEOREM Invariance == Spec => []IInv
<1>1. IInv /\ [Next]_vars => IInv'
  <2> SUFFICES ASSUME IInv, [Next]_vars PROVE IInv'
    OBVIOUS
  <2>1. CASE ext2_allocate_inode \/ ext2_initialize_inode \/ ext2_create_directory_entry
    BY ZenonT(30), <2>1, AllocateInode, InitializeInode, CreateEntry
  <2>2. CASE \E n \in Name, end \in 1..2 * Direct : ext2_write_file(n, end)
    BY <2>2, WriteFile
  <2>3. CASE ext2_allocate_block \/ ext2_write_inode
    BY <2>3, AllocateBlock, WriteInode
  <2>4. CASE ext2_sync \/ ext2_flush_bg \/ ext2_flush_sb
    BY <2>4, Sync, FlushBg, FlushSb
  <2>5. CASE \E n \in Name : ext2_delete_file(n)
    BY ZenonT(30), <2>5, DeleteFile
  <2>6. CASE ext2_deallocate_block \/ ext2_delete_inode
    BY <2>6, DeallocateBlock, DeleteInode
  <2>7. CASE ext2_write_inode_bitmap \/ ext2_delete_dentry
    BY <2>7, WriteInodeBitmap, DeleteDentry
  <2>8. CASE Restart
    BY <2>8, RestartIInv
  <2>9. CASE UNCHANGED vars
    BY <2>9, StutterIInv
  <2> QED
    BY ZenonT(30), <2>1, <2>2, <2>3, <2>4, <2>5, <2>6, <2>7, <2>8, <2>9 DEF Next
<1> QED
    BY <1>1, InitIInv, PTL DEF Spec

\* Every variable keeps its type.
THEOREM TypeCorrect == Spec => []TypeOK
<1>1. IInv => TypeOK
    BY DEF IInv
<1> QED
    BY <1>1, Invariance, PTL

\* A block is listed by one inode with a name, in one place, and is marked,
\* whatever writes fail but those of a bitmap, wherever the machine is switched
\* off and whatever inodes in use are handed out again, as long as no deletion has
\* left its inode a name.
THEOREM OneOwner == ASSUME "bitmap" \notin Failing PROVE Spec => []BlocksExclusive
<1>1. IInv => BlocksExclusive
  <2> SUFFICES ASSUME IInv, ~cut
               PROVE  /\ \A i \in Files : \A s \in Used(itab[i].i_block) : itab[i].i_block[s] \in bbm \ Meta
                      /\ \A i, j \in Files : \A s \in Used(itab[i].i_block), r \in Used(itab[j].i_block) :
                            itab[i].i_block[s] = itab[j].i_block[r] => i = j /\ s = r
    BY ZenonT(30) DEF BlocksExclusive
  <2>1. ASSUME NEW i \in Files, NEW s \in Used(itab[i].i_block)
        PROVE  i \in Named /\ s \in Slot /\ View(i)[s] = itab[i].i_block[s] /\ View(i)[s] # 0
    <3>1. i \in Named /\ s \in Slot /\ itab[i].i_block[s] # 0 /\ (pc \in Deleting => i # ino)
        BY ZenonT(30) DEF Files, Used
    <3> QED
        BY ZenonT(30), <3>1 DEF View, IInv, Operation
  <2>2. ASSUME NEW i \in Files, NEW s \in Used(itab[i].i_block)
        PROVE  itab[i].i_block[s] \in bbm \ Meta
    <3>1. i \in Named /\ s \in Slot /\ View(i)[s] = itab[i].i_block[s] /\ View(i)[s] # 0
        BY ZenonT(30), <2>1
    <3>2. \A k \in Named, t \in Slot : View(k)[t] # 0 => View(k)[t] \in bbm \ Meta
        BY ZenonT(30) DEF IInv, Exclusive
    <3> QED
        BY ONLY ZenonT(30), <3>1, <3>2
  <2>3. ASSUME NEW i \in Files, NEW j \in Files,
               NEW s \in Used(itab[i].i_block), NEW r \in Used(itab[j].i_block),
               itab[i].i_block[s] = itab[j].i_block[r]
        PROVE  i = j /\ s = r
    <3>1. i \in Named /\ s \in Slot /\ View(i)[s] = itab[i].i_block[s] /\ View(i)[s] # 0
        BY ZenonT(30), <2>1
    <3>2. j \in Named /\ r \in Slot /\ View(j)[r] = itab[j].i_block[r]
        BY ZenonT(30), <2>1
    <3>3. View(i)[s] = View(j)[r]
        BY ZenonT(30), <2>3, <3>1, <3>2
    <3>4. \A k, l \in Named, t, u \in Slot :
             View(k)[t] = View(l)[u] /\ View(k)[t] # 0 => k = l /\ t = u
        BY DEF IInv, Exclusive
    <3> QED
        BY ONLY SMTT(30), <3>1, <3>2, <3>3, <3>4
  <2> QED
    BY <2>2, <2>3
<1> QED
    BY <1>1, Invariance, PTL

\* Both counters of free blocks agree with the bitmap until a restart.
THEOREM FreeCounted == ASSUME "bitmap" \notin Failing PROVE Spec => []CountsAgree
<1>1. IInv => CountsAgree
    BY ZenonT(30) DEF IInv, Counted
<1> QED
    BY <1>1, Invariance, PTL

\* Every marked block is listed by an inode with a name, but the ones a growth
\* had added when it failed or was cut short, the ones of a deleted file beyond
\* its size, the ones of a file whose inode was handed out again and one whose bit
\* could not be cleared: whatever writes fail, bitmaps included.
THEOREM NothingLost == Spec => []BlocksReclaimed
<1>1. IInv => BlocksReclaimed
  <2> SUFFICES ASSUME IInv, pc = "idle", NEW b \in bbm \ (Meta \cup leaked)
               PROVE  b \in BlocksOf(Named)
    BY DEF BlocksReclaimed
  <2>1. \A i \in Named : View(i) = itab[i].i_block
    BY ZenonT(30), Simple DEF View
  <2>2. PICK i \in Named, s \in Slot : View(i)[s] = b
    BY ZenonT(30) DEF IInv, Reclaimed
  <2>3. b # 0
    BY Simple DEF IInv, TypeOK
  <2> QED
    BY ZenonT(30), <2>1, <2>2, <2>3, ListedBlocks
<1> QED
    BY <1>1, Invariance, PTL

\* A file has the blocks its size asks for.
THEOREM SizesCovered == Spec => []SizeCovered
<1>1. IInv => SizeCovered
    BY NamedInodes DEF IInv, Covered, SizeCovered
<1> QED
    BY <1>1, Invariance, PTL

\* When no flush is required the disk has the superblock's counters.
THEOREM Flushed == ASSUME "flush" \notin Failing PROVE Spec => []SuperblockFlushed
<1>1. Init => SuperblockFlushed
    BY DEF Init, SuperblockFlushed
<1>2. SuperblockFlushed /\ [Next]_vars => SuperblockFlushed'
  <2> SUFFICES ASSUME SuperblockFlushed, [Next]_vars PROVE SuperblockFlushed'
    OBVIOUS
  <2>1. CASE ext2_allocate_inode \/ ext2_delete_inode
    BY ZenonT(30), <2>1 DEF ext2_allocate_inode, ext2_delete_inode, CountInode, SuperblockFlushed
  <2>2. CASE ext2_initialize_inode \/ ext2_create_directory_entry
    BY ZenonT(30), <2>2 DEF ext2_initialize_inode, ext2_create_directory_entry, memory, SuperblockFlushed
  <2>3. CASE \E n \in Name, end \in 1..2 * Direct : ext2_write_file(n, end)
    <3>1. PICK n \in Name, end \in 1..2 * Direct : ext2_write_file(n, end)
        BY Zenon, <2>3
    <3>2. pc = "idle" /\ UNCHANGED <<disk, memory>>
        BY Zenon, <3>1 DEF ext2_write_file
    <3> QED
        BY Zenon, <3>2 DEF disk, memory, SuperblockFlushed
  <2>4. CASE ext2_allocate_block
    BY ZenonT(30), <2>4 DEF ext2_allocate_block, CountBlock, memory, SuperblockFlushed
  <2>5. CASE ext2_write_inode \/ ext2_sync
    BY ZenonT(30), <2>5 DEF ext2_write_inode, ext2_sync, disk, memory, SuperblockFlushed
  <2>6. CASE ext2_flush_bg
    BY ZenonT(30), <2>6 DEF ext2_flush_bg, Goto, SuperblockFlushed
  <2>7. CASE ext2_flush_sb
    <3>1. PICK written \in BOOLEAN :
              Write("flush", written) /\ disk_sb' = IF written THEN sb ELSE disk_sb
        BY <2>7 DEF ext2_flush_sb
    <3>2. written
        BY <3>1 DEF Write
    <3>3. disk_sb' = sb /\ sb' = sb
        BY ZenonT(30), <2>7, <3>1, <3>2 DEF ext2_flush_sb
    <3> QED
        BY <3>3 DEF SuperblockFlushed
  <2>8. CASE \E n \in Name : ext2_delete_file(n)
    <3>1. PICK n \in Name : ext2_delete_file(n)
        BY Zenon, <2>8
    <3>2. pc = "idle" /\ UNCHANGED <<disk, memory>>
        BY Zenon, <3>1 DEF ext2_delete_file
    <3> QED
        BY Zenon, <3>2 DEF disk, memory, SuperblockFlushed
  <2>9. CASE ext2_deallocate_block
    BY ZenonT(30), <2>9 DEF ext2_deallocate_block, CountBlock, memory, SuperblockFlushed
  <2>10. CASE ext2_write_inode_bitmap
    BY ZenonT(30), <2>10 DEF ext2_write_inode_bitmap, CountInode, memory, SuperblockFlushed
  <2>11. CASE ext2_delete_dentry
    BY ZenonT(30), <2>11 DEF ext2_delete_dentry, memory, SuperblockFlushed
  <2>12. CASE Restart
    BY ZenonT(30), <2>12 DEF Restart, Leave, disk, SuperblockFlushed
  <2>13. CASE UNCHANGED vars
    BY ZenonT(30), <2>13 DEF vars, disk, memory, SuperblockFlushed
  <2> QED
    BY SMTT(30), <2>1, <2>2, <2>3, <2>4, <2>5, <2>6, <2>7, <2>8, <2>9, <2>10, <2>11, <2>12, <2>13 DEF Next
<1> QED
    BY <1>1, <1>2, PTL DEF Spec
=============================================================================
