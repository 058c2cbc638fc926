--------------------------- MODULE SpinLockProofs ---------------------------
(***************************************************************************)
(* The spinlocks exclude and restore the interrupt flag, for any tasks,    *)
(* any locks and any nesting of them.                                      *)
(*                                                                         *)
(* The word of a lock that is held names its holder; a lock that has its   *)
(* flags saved has them on exactly if it is the outermost lock of a task,  *)
(* because only there interrupts were on.                                  *)
(***************************************************************************)
EXTENDS SpinLock, TLAPS

\* An actor that takes no lock is at no depth, and the handler is idle between
\* two interrupts.
IdleOutside ==
    /\ \A a \in Actor : pc[a] \in {"idle", "lock"} => depth[a] = 0
    /\ ~inPit => pc[PIT] = "idle"

\* Actor a has set its lock number i and not cleared it.
Holds(a, i) ==
    pc[a] \notin {"idle", "lock"} /\ (i < depth[a] \/ pc[a] \in {"flags", "cli", "clear"})

\* The word of a lock names its holder.
HoldersNamed == \A a \in Actor : \A i \in 1..depth[a] : Holds(a, i) => mut[path[a][i]] = a

\* The flags saved say whether the lock is the outermost one of a task.
FlagsSaved ==
    \A a \in Actor : \A i \in 1..depth[a] :
        i < depth[a] \/ pc[a] \in {"cli", "clear", "sti"} =>
            (flags[path[a][i]] <=> a \in Task /\ i = 1)

\* Interrupts are on while a task takes its outermost lock, unless it spins on
\* a lock that it holds itself.
OpenOutside ==
    ~inPit /\ depth[running] = 1 /\ pc[running] \in {"tas", "flags", "cli"} =>
        IntFlag \/ (pc[running] = "tas" /\ mut[path[running][1]] = running)

IInv ==
    /\ TypeOK /\ IdleOutside /\ HoldersNamed /\ FlagsSaved
    /\ CriticalMasked /\ InterruptsBack /\ OpenOutside
-----------------------------------------------------------------------------
\* The locks of a path are locks, each there once.
LEMMA PathLocks ==
    ASSUME NEW p \in Paths
    PROVE  /\ Len(p) \in Nat /\ Len(p) > 0
           /\ \A i \in 1..Len(p) : p[i] \in Lock
           /\ \A i, j \in 1..Len(p) : p[i] = p[j] => i = j
  BY PathAssumption

\* What an actor that is taking or releasing a lock works on.
LEMMA Working ==
    ASSUME TypeOK, NEW a \in Actor, pc[a] \notin {"idle", "lock"}
    PROVE  /\ depth[a] \in Nat /\ depth[a] >= 1 /\ depth[a] <= Len(path[a])
           /\ path[a] \in Paths
           /\ Len(path[a]) \in Nat
           /\ \A i \in 1..depth[a] : path[a][i] \in Lock
           /\ \A i, j \in 1..depth[a] : path[a][i] = path[a][j] => i = j
           /\ Current(a) \in Lock
  <1>1. depth[a] \in 1..Len(path[a]) /\ depth[a] \in Nat /\ path[a] \in Paths \cup {<<>>}
    BY DEF TypeOK
  <1>2. path[a] # <<>>
    BY <1>1
  <1>3. path[a] \in Paths
    BY <1>1, <1>2
  <1> QED
    BY <1>1, <1>3, PathLocks DEF Current

LEMMA InitIInv == Init => IInv
  <1> SUFFICES ASSUME Init PROVE IInv
    OBVIOUS
  <1>1. /\ \A a \in Actor : pc[a] = "idle" /\ depth[a] = 0
        /\ PIT \in Actor /\ running \in Actor
    BY DEF Init, Actor
  <1>2. TypeOK
    BY ZenonT(30) DEF Init, TypeOK, Places
  <1>3. IdleOutside /\ HoldersNamed /\ FlagsSaved
    BY <1>1 DEF IdleOutside, HoldersNamed, Holds, FlagsSaved
  <1>4. CriticalMasked /\ InterruptsBack /\ OpenOutside
    BY <1>1 DEF Init, CriticalMasked, InterruptsBack, OpenOutside
  <1> QED
    BY <1>2, <1>3, <1>4 DEF IInv
-----------------------------------------------------------------------------
\* An actor that holds no lock starts an operation.
LEMMA StartIInv ==
    ASSUME IInv, NEW a \in Actor, NEW p \in Paths,
           pc[a] \in {"idle", "lock"}, Start(a, p),
           UNCHANGED <<mut, flags, running>>,
           \/ a = running /\ ~inPit /\ UNCHANGED <<inPit, IntFlag>>
           \/ a = PIT /\ IntFlag /\ ~inPit /\ inPit' = TRUE /\ IntFlag' = FALSE,
           word' \in Task \cup {None}, ksleep' \subseteq Task
    PROVE  IInv'
  <1>1. /\ pc' = [pc EXCEPT ![a] = "tas"] /\ depth' = [depth EXCEPT ![a] = 1]
        /\ path' = [path EXCEPT ![a] = p]
    BY DEF Start, Goto
  <1>2. /\ pc'[a] = "tas" /\ depth'[a] = 1 /\ path'[a] = p
        /\ \A b \in Actor : b # a =>
              pc'[b] = pc[b] /\ depth'[b] = depth[b] /\ path'[b] = path[b]
    BY <1>1 DEF IInv, TypeOK
  <1>3. Len(p) \in Nat /\ Len(p) >= 1
    BY PathLocks
  <1>4. TypeOK'
    <2>1. pc' \in [Actor -> Places] /\ depth' \in [Actor -> Nat]
          /\ path' \in [Actor -> Paths \cup {<<>>}]
      BY <1>1 DEF IInv, TypeOK, Places
    <2>2. \A b \in Actor : pc'[b] \notin {"idle", "lock"} => depth'[b] \in 1..Len(path'[b])
      BY SMTT(30), <1>2, <1>3 DEF IInv, TypeOK
    <2> QED
      BY ZenonT(30), <2>1, <2>2 DEF IInv, TypeOK
  <1>5. IdleOutside'
    <2>1. a # PIT \/ inPit'
      BY ActorAssumption DEF IInv, TypeOK
    <2> QED
      BY <1>2, <2>1 DEF IInv, IdleOutside, Actor
  <1>6. HoldersNamed'
    <2> SUFFICES ASSUME NEW b \in Actor, NEW i \in 1..depth'[b], Holds(b, i)'
                 PROVE  mut[path'[b][i]] = b
      BY DEF HoldersNamed
    <2>1. b # a
      BY <1>2 DEF Holds
    <2> QED
      BY <2>1, <1>2 DEF IInv, HoldersNamed, Holds
  <1>7. FlagsSaved'
    <2> SUFFICES ASSUME NEW b \in Actor, NEW i \in 1..depth'[b],
                        i < depth'[b] \/ pc'[b] \in {"cli", "clear", "sti"}
                 PROVE  flags[path'[b][i]] <=> b \in Task /\ i = 1
      BY DEF FlagsSaved
    <2>1. b # a
      BY <1>2
    <2> QED
      BY <2>1, <1>2 DEF IInv, FlagsSaved
  <1>8. CriticalMasked'
    BY <1>2, ActorAssumption DEF IInv, CriticalMasked, Actor
  <1>9. InterruptsBack'
    BY <1>2 DEF IInv, InterruptsBack
  <1>10. OpenOutside'
    BY <1>2 DEF IInv, OpenOutside, InterruptsBack, TypeOK
  <1> QED
    BY <1>4, <1>5, <1>6, <1>7, <1>8, <1>9, <1>10 DEF IInv
-----------------------------------------------------------------------------
\* A step of actor a to place q and depth d changes nobody else's place.
LEMMA GotoFacts ==
    ASSUME TypeOK, NEW a \in Actor, NEW q, NEW d, Goto(a, q, d)
    PROVE  /\ pc'[a] = q /\ depth'[a] = d
           /\ \A b \in Actor : b # a => pc'[b] = pc[b] /\ depth'[b] = depth[b]
  BY DEF Goto, TypeOK

\* Such a step along a path keeps the types.
LEMMA GotoType ==
    ASSUME TypeOK, NEW a \in Actor, NEW q \in Places, NEW d \in Nat, Goto(a, q, d),
           q \notin {"idle", "lock"} => d \in 1..Len(path[a]),
           path' = path, running' = running, inPit' = inPit,
           mut' \in [Lock -> Actor \cup {None}], flags' \in [Lock -> BOOLEAN],
           IntFlag' \in BOOLEAN, word' \in Task \cup {None}, ksleep' \subseteq Task
    PROVE  TypeOK'
  <1>1. pc' \in [Actor -> Places] /\ depth' \in [Actor -> Nat]
    BY DEF Goto, TypeOK
  <1>2. \A b \in Actor : pc'[b] \notin {"idle", "lock"} => depth'[b] \in 1..Len(path'[b])
    BY SMTT(30), GotoFacts DEF TypeOK
  <1> QED
    BY <1>1, <1>2 DEF TypeOK

\* Whoever does not have the CPU is in no critical section.
LEMMA OthersOutside ==
    ASSUME IInv, NEW a \in Actor, a = IF inPit THEN PIT ELSE running,
           NEW b \in Actor, b # a
    PROVE  pc[b] \notin {"clear", "sti"} /\ depth[b] \in Nat /\ depth[b] <= 1
  BY DEF IInv, CriticalMasked, TypeOK

LEMMA TestAndSetIInv ==
    ASSUME IInv, NEW a \in Actor, TestAndSet(a)
    PROVE  IInv'
  <1> DEFINE c == Current(a)
  <1>1. /\ a = (IF inPit THEN PIT ELSE running) /\ pc[a] = "tas"
        /\ mut[c] = None /\ mut' = [mut EXCEPT ![c] = a]
        /\ Goto(a, "flags", depth[a])
        /\ flags' = flags /\ IntFlag' = IntFlag /\ running' = running /\ inPit' = inPit
        /\ path' = path /\ word' = word /\ ksleep' = ksleep
    BY DEF TestAndSet, At
  <1>2. TypeOK
    BY DEF IInv
  <1>3. /\ depth[a] \in Nat /\ depth[a] >= 1 /\ depth[a] <= Len(path[a])
        /\ Len(path[a]) \in Nat /\ c \in Lock /\ c = path[a][depth[a]]
    BY <1>1, <1>2, Working DEF Current
  <1> HIDE DEF c
  <1>4. /\ pc'[a] = "flags" /\ depth'[a] = depth[a]
        /\ \A b \in Actor : b # a => pc'[b] = pc[b] /\ depth'[b] = depth[b]
    BY <1>1, <1>2, GotoFacts
  <1>5. mut' \in [Lock -> Actor \cup {None}] /\ mut'[c] = a
    BY <1>1, <1>2, <1>3 DEF TypeOK
  <1>6. TypeOK'
    <2>1. "flags" \in Places /\ depth[a] \in 1..Len(path[a])
      BY <1>3 DEF Places
    <2> QED
      BY ZenonT(30), <1>1, <1>2, <1>3, <1>5, <2>1, GotoType DEF TypeOK
  <1>7. IdleOutside'
    BY <1>1, <1>4 DEF IInv, IdleOutside, Actor
  <1>8. HoldersNamed'
    <2> SUFFICES ASSUME NEW b \in Actor, NEW i \in 1..depth'[b], Holds(b, i)'
                 PROVE  mut'[path[b][i]] = b
      BY <1>1 DEF HoldersNamed
    <2>1. CASE b = a /\ i = depth[a]
      BY <2>1, <1>3, <1>5
    <2>2. CASE ~(b = a /\ i = depth[a])
      <3>1. i \in 1..depth[b] /\ Holds(b, i)
        BY <2>2, <1>1, <1>3, <1>4 DEF Holds
      <3>2. pc[b] \notin {"idle", "lock"}
        BY <3>1 DEF Holds
      <3>3. path[b][i] \in Lock
        BY <3>1, <3>2, <1>2, Working
      <3>4. mut[path[b][i]] = b
        BY <3>1 DEF IInv, HoldersNamed
      <3>5. path[b][i] # c
        BY <3>4, <1>1, ActorAssumption DEF Actor
      <3> QED
        BY <3>3, <3>4, <3>5, <1>1, <1>2 DEF TypeOK
    <2> QED
      BY <2>1, <2>2
  <1>9. FlagsSaved'
    <2> SUFFICES ASSUME NEW b \in Actor, NEW i \in 1..depth'[b],
                        i < depth'[b] \/ pc'[b] \in {"cli", "clear", "sti"}
                 PROVE  flags[path[b][i]] <=> b \in Task /\ i = 1
      BY <1>1 DEF FlagsSaved
    <2>1. i \in 1..depth[b] /\ (i < depth[b] \/ pc[b] \in {"cli", "clear", "sti"})
      BY <1>4
    <2> QED
      BY <2>1 DEF IInv, FlagsSaved
  <1>10. CriticalMasked'
    BY <1>1, <1>4 DEF IInv, CriticalMasked
  <1>11. InterruptsBack'
    BY <1>1, <1>4 DEF IInv, InterruptsBack
  <1>12. OpenOutside'
    <2> SUFFICES ASSUME ~inPit, depth[a] = 1 PROVE IntFlag
      BY <1>1, <1>4 DEF OpenOutside
    <2>1. mut[path[a][1]] # a
      BY <1>1, <1>3, ActorAssumption DEF Actor
    <2> QED
      BY <2>1, <1>1 DEF IInv, OpenOutside
  <1> QED
    BY <1>6, <1>7, <1>8, <1>9, <1>10, <1>11, <1>12 DEF IInv

LEMMA SaveFlagsIInv ==
    ASSUME IInv, NEW a \in Actor, SaveFlags(a)
    PROVE  IInv'
  <1> DEFINE c == Current(a)
  <1>1. /\ a = (IF inPit THEN PIT ELSE running) /\ pc[a] = "flags"
        /\ flags' = [flags EXCEPT ![c] = IntFlag]
        /\ Goto(a, "cli", depth[a])
        /\ mut' = mut /\ IntFlag' = IntFlag /\ running' = running /\ inPit' = inPit
        /\ path' = path /\ word' = word /\ ksleep' = ksleep
    BY DEF SaveFlags, At
  <1>2. TypeOK
    BY DEF IInv
  <1>3. /\ depth[a] \in Nat /\ depth[a] >= 1 /\ depth[a] <= Len(path[a])
        /\ Len(path[a]) \in Nat /\ c \in Lock /\ c = path[a][depth[a]]
        /\ \A i, j \in 1..depth[a] : path[a][i] = path[a][j] => i = j
    BY <1>1, <1>2, Working DEF Current
  <1> HIDE DEF c
  <1>4. /\ pc'[a] = "cli" /\ depth'[a] = depth[a]
        /\ \A b \in Actor : b # a => pc'[b] = pc[b] /\ depth'[b] = depth[b]
    BY <1>1, <1>2, GotoFacts
  <1>5. flags' \in [Lock -> BOOLEAN] /\ (flags'[c] <=> IntFlag)
        /\ \A l \in Lock : l # c => flags'[l] = flags[l]
    BY <1>1, <1>2, <1>3 DEF TypeOK
  <1>6. TypeOK'
    <2>1. "cli" \in Places /\ depth[a] \in 1..Len(path[a])
      BY <1>3 DEF Places
    <2> QED
      BY ZenonT(30), <1>1, <1>2, <1>3, <1>5, <2>1, GotoType DEF TypeOK
  <1>7. IdleOutside'
    BY <1>1, <1>4 DEF IInv, IdleOutside, Actor
  <1>8. HoldersNamed'
    <2> SUFFICES ASSUME NEW b \in Actor, NEW i \in 1..depth'[b], Holds(b, i)'
                 PROVE  mut[path[b][i]] = b
      BY <1>1 DEF HoldersNamed
    <2>1. i \in 1..depth[b] /\ Holds(b, i)
      BY <1>1, <1>4 DEF Holds
    <2> QED
      BY <2>1 DEF IInv, HoldersNamed
  <1>9. IntFlag <=> a \in Task /\ depth[a] = 1
    BY <1>1, <1>3, ActorAssumption DEF IInv, OpenOutside, InterruptsBack, CriticalMasked, TypeOK
  <1>10. FlagsSaved'
    <2> SUFFICES ASSUME NEW b \in Actor, NEW i \in 1..depth'[b],
                        i < depth'[b] \/ pc'[b] \in {"cli", "clear", "sti"}
                 PROVE  flags'[path[b][i]] <=> b \in Task /\ i = 1
      BY <1>1 DEF FlagsSaved
    <2>1. CASE b = a /\ i = depth[a]
      BY <2>1, <1>3, <1>5, <1>9
    <2>2. CASE b = a /\ i # depth[a]
      <3>1. i \in 1..depth[a] /\ i < depth[a] /\ path[a][i] # c /\ path[a][i] \in Lock
        BY <2>2, <1>1, <1>2, <1>3, <1>4, Working
      <3>2. flags[path[a][i]] <=> a \in Task /\ i = 1
        BY <3>1 DEF IInv, FlagsSaved
      <3> QED
        BY <2>2, <3>1, <3>2, <1>5
    <2>3. CASE b # a
      <3>1. i = 1 /\ depth[b] = 1 /\ pc[b] = "cli"
        BY <2>3, <1>1, <1>4, OthersOutside
      <3>2. path[b][i] \in Lock
        BY <3>1, <1>2, Working
      <3>3. mut[path[b][i]] = b /\ mut[c] = a
        BY <3>1, <1>1, <1>3 DEF IInv, HoldersNamed, Holds
      <3>4. path[b][i] # c
        BY <3>3, <2>3
      <3>5. flags[path[b][i]] <=> b \in Task /\ i = 1
        BY <3>1 DEF IInv, FlagsSaved
      <3> QED
        BY <3>2, <3>4, <3>5, <1>5
    <2> QED
      BY <2>1, <2>2, <2>3
  <1>11. CriticalMasked'
    BY <1>1, <1>4 DEF IInv, CriticalMasked
  <1>12. InterruptsBack'
    BY <1>1, <1>4 DEF IInv, InterruptsBack
  <1>13. OpenOutside'
    BY <1>1, <1>4 DEF IInv, OpenOutside
  <1> QED
    BY <1>6, <1>7, <1>8, <1>10, <1>11, <1>12, <1>13 DEF IInv

LEMMA CliIInv ==
    ASSUME IInv, NEW a \in Actor, Cli(a)
    PROVE  IInv'
  <1> DEFINE last == ~(depth[a] < Len(path[a]))
             q == IF last THEN "clear" ELSE "tas"
             d == IF last THEN depth[a] ELSE depth[a] + 1
  <1>1. /\ a = (IF inPit THEN PIT ELSE running) /\ pc[a] = "cli"
        /\ IntFlag' = FALSE /\ Goto(a, q, d)
        /\ mut' = mut /\ flags' = flags /\ running' = running /\ inPit' = inPit
        /\ path' = path /\ word' = word /\ ksleep' = ksleep
    BY DEF Cli, At, locks
  <1>2. TypeOK
    BY DEF IInv
  <1>3. /\ depth[a] \in Nat /\ depth[a] >= 1 /\ depth[a] <= Len(path[a])
        /\ Len(path[a]) \in Nat
    BY <1>1, <1>2, Working
  <1>4. /\ q \in Places /\ d \in Nat /\ d \in 1..Len(path[a])
        /\ \/ q = "clear" /\ d = depth[a]
           \/ q = "tas" /\ d = depth[a] + 1
    BY <1>3 DEF Places
  <1> HIDE DEF q, d
  <1>5. /\ pc'[a] = q /\ depth'[a] = d
        /\ \A b \in Actor : b # a => pc'[b] = pc[b] /\ depth'[b] = depth[b]
    BY <1>1, <1>2, GotoFacts
  <1>6. TypeOK'
    BY ZenonT(30), <1>1, <1>2, <1>4, GotoType DEF TypeOK
  <1>7. IdleOutside'
    BY <1>1, <1>4, <1>5 DEF IInv, IdleOutside, Actor
  <1>8. HoldersNamed'
    <2> SUFFICES ASSUME NEW b \in Actor, NEW i \in 1..depth'[b], Holds(b, i)'
                 PROVE  mut[path[b][i]] = b
      BY <1>1 DEF HoldersNamed
    <2>1. i \in 1..depth[b] /\ Holds(b, i)
      BY <1>1, <1>3, <1>4, <1>5 DEF Holds
    <2> QED
      BY <2>1 DEF IInv, HoldersNamed
  <1>9. FlagsSaved'
    <2> SUFFICES ASSUME NEW b \in Actor, NEW i \in 1..depth'[b],
                        i < depth'[b] \/ pc'[b] \in {"cli", "clear", "sti"}
                 PROVE  flags[path[b][i]] <=> b \in Task /\ i = 1
      BY <1>1 DEF FlagsSaved
    <2>1. i \in 1..depth[b] /\ (i < depth[b] \/ pc[b] \in {"cli", "clear", "sti"})
      BY <1>1, <1>3, <1>4, <1>5
    <2> QED
      BY <2>1 DEF IInv, FlagsSaved
  <1>10. CriticalMasked'
    BY <1>1, <1>5 DEF IInv, CriticalMasked
  <1>11. InterruptsBack'
    BY <1>1, <1>4, <1>5 DEF IInv, InterruptsBack
  <1>12. OpenOutside'
    BY <1>1, <1>3, <1>4, <1>5 DEF OpenOutside
  <1> QED
    BY <1>6, <1>7, <1>8, <1>9, <1>10, <1>11, <1>12 DEF IInv

LEMMA ClearIInv ==
    ASSUME IInv, NEW a \in Actor, Clear(a)
    PROVE  IInv'
  <1> DEFINE c == Current(a)
  <1>1. /\ a = (IF inPit THEN PIT ELSE running) /\ pc[a] = "clear"
        /\ mut' = [mut EXCEPT ![c] = None] /\ Goto(a, "sti", depth[a])
        /\ IntFlag' = IntFlag /\ flags' = flags /\ running' = running /\ inPit' = inPit
        /\ path' = path /\ word' = word /\ ksleep' = ksleep
    BY DEF Clear, At
  <1>2. TypeOK
    BY DEF IInv
  <1>3. /\ depth[a] \in Nat /\ depth[a] >= 1 /\ depth[a] <= Len(path[a])
        /\ Len(path[a]) \in Nat /\ c \in Lock /\ c = path[a][depth[a]]
        /\ \A i, j \in 1..depth[a] : path[a][i] = path[a][j] => i = j
    BY ZenonT(30), <1>1, <1>2, Working DEF Current
  <1> HIDE DEF c
  <1>4. /\ pc'[a] = "sti" /\ depth'[a] = depth[a]
        /\ \A b \in Actor : b # a => pc'[b] = pc[b] /\ depth'[b] = depth[b]
    BY <1>1, <1>2, GotoFacts
  <1>5. mut' \in [Lock -> Actor \cup {None}] /\ \A l \in Lock : l # c => mut'[l] = mut[l]
    BY <1>1, <1>2, <1>3 DEF TypeOK
  <1>6. TypeOK'
    <2>1. "sti" \in Places /\ depth[a] \in 1..Len(path[a])
      BY <1>3 DEF Places
    <2> QED
      BY ZenonT(30), <1>1, <1>2, <1>3, <1>5, <2>1, GotoType DEF TypeOK
  <1>7. IdleOutside'
    BY <1>1, <1>4 DEF IInv, IdleOutside, Actor
  <1>8. HoldersNamed'
    <2> SUFFICES ASSUME NEW b \in Actor, NEW i \in 1..depth'[b], Holds(b, i)'
                 PROVE  mut'[path[b][i]] = b
      BY <1>1 DEF HoldersNamed
    <2>1. i \in 1..depth[b] /\ Holds(b, i) /\ (b = a => i < depth[a])
      BY ZenonT(30), <1>1, <1>3, <1>4 DEF Holds
    <2>2. path[b][i] \in Lock
      BY ZenonT(30), <2>1, <1>2, Working DEF Holds
    <2>3. mut[path[b][i]] = b /\ mut[c] = a
      BY <2>1, <1>1, <1>3 DEF IInv, HoldersNamed, Holds
    <2>4. path[b][i] # c
      BY SMTT(30), <2>1, <2>3, <1>3
    <2> QED
      BY <2>2, <2>3, <2>4, <1>5
  <1>9. FlagsSaved'
    <2> SUFFICES ASSUME NEW b \in Actor, NEW i \in 1..depth'[b],
                        i < depth'[b] \/ pc'[b] \in {"cli", "clear", "sti"}
                 PROVE  flags[path[b][i]] <=> b \in Task /\ i = 1
      BY <1>1 DEF FlagsSaved
    <2>1. i \in 1..depth[b] /\ (i < depth[b] \/ pc[b] \in {"cli", "clear", "sti"})
      BY <1>1, <1>4
    <2> QED
      BY <2>1 DEF IInv, FlagsSaved
  <1>10. CriticalMasked'
    BY <1>1, <1>4 DEF IInv, CriticalMasked
  <1>11. InterruptsBack'
    BY <1>1, <1>4 DEF IInv, InterruptsBack
  <1>12. OpenOutside'
    BY <1>1, <1>4 DEF OpenOutside
  <1> QED
    BY <1>6, <1>7, <1>8, <1>9, <1>10, <1>11, <1>12 DEF IInv

LEMMA StiIInv ==
    ASSUME IInv, NEW a \in Actor, Sti(a)
    PROVE  IInv'
  <1> DEFINE q == IF depth[a] > 1 THEN "clear" ELSE "idle"
             d == IF depth[a] > 1 THEN depth[a] - 1 ELSE 0
  <1>1. /\ a = (IF inPit THEN PIT ELSE running) /\ pc[a] = "sti"
        /\ IntFlag' = (IntFlag \/ flags[Current(a)]) /\ Goto(a, q, d)
        /\ mut' = mut /\ flags' = flags /\ running' = running /\ inPit' = inPit
        /\ path' = path /\ word' = word /\ ksleep' = ksleep
    BY DEF Sti, Returned, At, locks
  <1>2. TypeOK
    BY DEF IInv
  <1>3. /\ depth[a] \in Nat /\ depth[a] >= 1 /\ depth[a] <= Len(path[a])
        /\ Len(path[a]) \in Nat /\ Current(a) = path[a][depth[a]] /\ Current(a) \in Lock
    BY <1>1, <1>2, Working DEF Current
  <1>4. /\ q \in Places /\ d \in Nat /\ (q \notin {"idle", "lock"} => d \in 1..Len(path[a]))
        /\ \/ q = "clear" /\ d = depth[a] - 1 /\ d >= 1
           \/ q = "idle" /\ d = 0 /\ depth[a] = 1
    BY <1>3 DEF Places
  <1> HIDE DEF q, d
  <1>5. /\ pc'[a] = q /\ depth'[a] = d
        /\ \A b \in Actor : b # a => pc'[b] = pc[b] /\ depth'[b] = depth[b]
    BY <1>1, <1>2, GotoFacts
  <1>6. IntFlag' \in BOOLEAN /\ (IntFlag' <=> a \in Task /\ depth[a] = 1)
    <2>1. ~IntFlag
      BY <1>1 DEF IInv, CriticalMasked
    <2>2. flags[Current(a)] \in BOOLEAN
      BY <1>2, <1>3 DEF TypeOK
    <2>3. flags[Current(a)] <=> a \in Task /\ depth[a] = 1
      <3>1. depth[a] \in 1..depth[a]
        BY <1>3
      <3> QED
        BY <3>1, <1>1, <1>3 DEF IInv, FlagsSaved
    <2> QED
      BY <1>1, <2>1, <2>2, <2>3
  <1>7. TypeOK'
    BY ZenonT(30), <1>1, <1>2, <1>4, <1>6, GotoType DEF TypeOK
  <1>8. IdleOutside'
    BY ZenonT(30), <1>1, <1>4, <1>5 DEF IInv, IdleOutside, Actor
  <1>9. HoldersNamed'
    <2> SUFFICES ASSUME NEW b \in Actor, NEW i \in 1..depth'[b], Holds(b, i)'
                 PROVE  mut[path[b][i]] = b
      BY <1>1 DEF HoldersNamed
    <2>1. i \in 1..depth[b] /\ Holds(b, i)
      BY SMTT(30), <1>1, <1>3, <1>4, <1>5 DEF Holds
    <2> QED
      BY <2>1 DEF IInv, HoldersNamed
  <1>10. FlagsSaved'
    <2> SUFFICES ASSUME NEW b \in Actor, NEW i \in 1..depth'[b],
                        i < depth'[b] \/ pc'[b] \in {"cli", "clear", "sti"}
                 PROVE  flags[path[b][i]] <=> b \in Task /\ i = 1
      BY <1>1 DEF FlagsSaved
    <2>1. i \in 1..depth[b] /\ (i < depth[b] \/ pc[b] \in {"cli", "clear", "sti"})
      BY <1>1, <1>3, <1>4, <1>5
    <2> QED
      BY <2>1 DEF IInv, FlagsSaved
  <1>11. CriticalMasked'
    <2> SUFFICES ASSUME NEW b \in Actor, pc'[b] \in {"clear", "sti"} \/ depth'[b] > 1
                 PROVE  ~IntFlag' /\ b = a
      BY <1>1 DEF CriticalMasked
    <2>1. b = a
      BY <1>1, <1>5, OthersOutside
    <2> QED
      BY <2>1, <1>3, <1>4, <1>5, <1>6
  <1>12. InterruptsBack'
    <2>1. inPit => a \notin Task
      BY <1>1, ActorAssumption
    <2>2. ~inPit => a = running /\ a \in Task
      BY <1>1, <1>2 DEF TypeOK
    <2> QED
      BY <2>1, <2>2, <1>1, <1>4, <1>5, <1>6 DEF InterruptsBack
  <1>13. OpenOutside'
    BY <1>1, <1>4, <1>5 DEF OpenOutside
  <1> QED
    BY <1>7, <1>8, <1>9, <1>10, <1>11, <1>12, <1>13 DEF IInv
-----------------------------------------------------------------------------
\* A task without a spinlock moves between calls.
LEMMA IdleStepIInv ==
    ASSUME IInv, NEW a \in Task, NEW q \in {"idle", "lock"},
           pc[a] \in {"idle", "lock"}, Goto(a, q, 0),
           UNCHANGED <<mut, flags, IntFlag, running, inPit, path>>,
           word' \in Task \cup {None}, ksleep' \subseteq Task
    PROVE  IInv'
  <1>1. a \in Actor /\ a # PIT /\ q \in Places
    BY ActorAssumption DEF Actor, Places
  <1>2. /\ pc'[a] = q /\ depth'[a] = 0
        /\ \A b \in Actor : b # a => pc'[b] = pc[b] /\ depth'[b] = depth[b]
    BY <1>1, GotoFacts DEF IInv
  <1>3. TypeOK'
    BY ZenonT(30), <1>1, GotoType DEF IInv, TypeOK
  <1>4. IdleOutside'
    BY <1>1, <1>2 DEF IInv, IdleOutside, Actor
  <1>5. HoldersNamed'
    BY <1>1, <1>2 DEF IInv, HoldersNamed, Holds
  <1>6. FlagsSaved'
    <2> SUFFICES ASSUME NEW b \in Actor, NEW i \in 1..depth'[b],
                        i < depth'[b] \/ pc'[b] \in {"cli", "clear", "sti"}
                 PROVE  flags[path[b][i]] <=> b \in Task /\ i = 1
      BY DEF FlagsSaved
    <2>1. b # a
      BY <1>2
    <2> QED
      BY <2>1, <1>2 DEF IInv, FlagsSaved
  <1>7. CriticalMasked'
    BY <1>1, <1>2 DEF IInv, CriticalMasked
  <1>8. InterruptsBack'
    BY <1>1, <1>2 DEF IInv, InterruptsBack, TypeOK, Actor
  <1>9. OpenOutside'
    BY <1>1, <1>2 DEF IInv, OpenOutside, TypeOK, Actor
  <1> QED
    BY <1>3, <1>4, <1>5, <1>6, <1>7, <1>8, <1>9 DEF IInv

LEMMA KsleepEndIInv ==
    ASSUME IInv, NEW a \in Task, KsleepEnd(a)
    PROVE  IInv'
  <1>1. /\ a = (IF inPit THEN PIT ELSE running) /\ pc[a] = "clear" /\ depth[a] = 1
        /\ Goto(a, "tas", 1)
        /\ mut' = mut /\ IntFlag' = IntFlag /\ flags' = flags /\ running' = running
        /\ inPit' = inPit /\ path' = path /\ word' = word /\ ksleep' = ksleep
    BY DEF KsleepEnd, At, locks
  <1>2. TypeOK /\ a \in Actor /\ a # PIT /\ ~inPit /\ a = running
    BY <1>1, ActorAssumption DEF IInv, Actor
  <1>3. Len(path[a]) \in Nat /\ Len(path[a]) >= 1
    BY <1>1, <1>2, Working
  <1>4. /\ pc'[a] = "tas" /\ depth'[a] = 1
        /\ \A b \in Actor : b # a => pc'[b] = pc[b] /\ depth'[b] = depth[b]
    BY <1>1, <1>2, GotoFacts
  <1>5. TypeOK'
    <2>1. "tas" \in Places /\ 1 \in 1..Len(path[a]) /\ 1 \in Nat
      BY SMTT(30), <1>3 DEF Places
    <2> QED
      BY ZenonT(30), <1>1, <1>2, <2>1, GotoType DEF TypeOK
  <1>6. IdleOutside'
    BY <1>1, <1>2, <1>4 DEF IInv, IdleOutside, Actor
  <1>7. HoldersNamed'
    <2> SUFFICES ASSUME NEW b \in Actor, NEW i \in 1..depth'[b], Holds(b, i)'
                 PROVE  mut[path[b][i]] = b
      BY <1>1 DEF HoldersNamed
    <2>1. b # a
      BY <1>4 DEF Holds
    <2> QED
      BY <1>4, <2>1 DEF IInv, HoldersNamed, Holds
  <1>8. FlagsSaved'
    <2> SUFFICES ASSUME NEW b \in Actor, NEW i \in 1..depth'[b],
                        i < depth'[b] \/ pc'[b] \in {"cli", "clear", "sti"}
                 PROVE  flags[path[b][i]] <=> b \in Task /\ i = 1
      BY <1>1 DEF FlagsSaved
    <2>1. b # a
      BY <1>4
    <2> QED
      BY <2>1, <1>4 DEF IInv, FlagsSaved
  <1>9. CriticalMasked'
    BY <1>1, <1>4 DEF IInv, CriticalMasked
  <1>10. InterruptsBack'
    BY <1>1, <1>2, <1>4 DEF IInv, InterruptsBack
  <1>11. OpenOutside'
    <2>1. mut[path[a][1]] = a
      BY <1>1, <1>2 DEF IInv, HoldersNamed, Holds
    <2> QED
      BY ZenonT(30), <2>1, <1>1, <1>2, <1>4 DEF OpenOutside
  <1> QED
    BY <1>5, <1>6, <1>7, <1>8, <1>9, <1>10, <1>11 DEF IInv

\* The timer interrupt begins without a wakeup, or ends.
LEMMA PitIInv ==
    ASSUME IInv, pc[PIT] = "idle",
           UNCHANGED <<mut, flags, pc, path, depth, word, ksleep>>,
           \/ IntFlag /\ ~inPit /\ inPit' = TRUE /\ IntFlag' = FALSE /\ running' = running
           \/ inPit /\ inPit' = FALSE /\ IntFlag' = TRUE /\ running' \in Task
    PROVE  IInv'
  <1>1. TypeOK' /\ IdleOutside' /\ HoldersNamed' /\ FlagsSaved'
    <2>1. TypeOK'
      BY ZenonT(30) DEF IInv, TypeOK
    <2>2. IdleOutside'
      BY DEF IInv, IdleOutside
    <2>3. HoldersNamed'
      BY DEF IInv, HoldersNamed, Holds
    <2>4. FlagsSaved'
      BY DEF IInv, FlagsSaved
    <2> QED
      BY <2>1, <2>2, <2>3, <2>4
  <1>2. \A a \in Actor : ~(pc[a] \in {"clear", "sti"} \/ depth[a] > 1)
    <2>1. depth[PIT] = 0 /\ PIT \in Actor
      BY DEF IInv, IdleOutside, Actor
    <2> QED
      BY <2>1 DEF IInv, CriticalMasked
  <1>3. CriticalMasked'
    BY <1>2 DEF CriticalMasked
  <1>4. InterruptsBack' /\ OpenOutside'
    BY DEF InterruptsBack, OpenOutside
  <1> QED
    BY <1>1, <1>3, <1>4 DEF IInv

\* Every step keeps the invariant.
LEMMA NextIInv ==
    ASSUME IInv, [Next]_vars
    PROVE  IInv'
  <1>1. TypeOK /\ \A t \in Task : t \in Actor /\ t # PIT
    BY ActorAssumption DEF IInv, Actor
  <1>2. CASE \E t \in Task : Call(t)
    <2>1. PICK t \in Task : Call(t)
      BY <1>2
    <2>2. PICK p \in TaskPaths : Start(t, p)
      BY <2>1 DEF Call
    <2>3. p \in Paths
      BY DEF Paths
    <2> QED
      BY ZenonT(30), <2>1, <2>2, <2>3, <1>1, StartIInv DEF Call, At, locks, TypeOK
  <1>3. CASE \E t \in Task : TaskStep(t)
    <2>1. PICK t \in Task : TaskStep(t)
      BY <1>3
    <2>2. CASE acquire_lock(t)
      BY <2>2, <1>1, IdleStepIInv DEF acquire_lock, At, locks, TypeOK
    <2>3. CASE AcquireLoop(t)
      <3>1. CASE word = None
        BY <2>3, <3>1, <1>1, IdleStepIInv DEF AcquireLoop, At, locks, TypeOK
      <3>2. CASE word # None
        <4>1. PICK p \in KsleepPaths : Start(t, p)
          BY <2>3, <3>2 DEF AcquireLoop
        <4>2. p \in Paths
          BY DEF Paths
        <4> QED
          BY ZenonT(30), <2>3, <3>2, <4>1, <4>2, <1>1, StartIInv DEF AcquireLoop, At, locks, TypeOK
      <3> QED
        BY <3>1, <3>2
    <2>4. CASE KsleepEnd(t)
      BY <2>4, KsleepEndIInv
    <2>5. CASE release_lock(t)
      <3>1. PICK p \in KsleepPaths : Start(t, p)
        BY <2>5 DEF release_lock
      <3>2. p \in Paths
        BY DEF Paths
      <3> QED
        BY ZenonT(30), <2>5, <3>1, <3>2, <1>1, StartIInv DEF release_lock, At, locks, TypeOK
    <2> QED
      BY <2>1, <2>2, <2>3, <2>4, <2>5 DEF TaskStep
  <1>4. CASE \E a \in Actor : Step(a)
    BY <1>4, TestAndSetIInv, SaveFlagsIInv, CliIInv, ClearIInv, StiIInv DEF Step
  <1>5. CASE Tick
    <2>1. pc[PIT] = "idle" /\ PIT \in Actor
      BY <1>5 DEF Tick, IInv, IdleOutside, Actor
    <2>2. CASE \E p \in WakeupPaths : Start(PIT, p)
      <3>1. PICK p \in WakeupPaths : Start(PIT, p)
        BY <2>2
      <3>2. p \in Paths
        BY DEF Paths
      <3> QED
        BY ZenonT(30), <1>5, <3>1, <3>2, <2>1, <1>1, StartIInv DEF Tick, locks, TypeOK
    <2>3. CASE UNCHANGED <<pc, path, depth>>
      BY ZenonT(30), <1>5, <2>1, <2>3, PitIInv DEF Tick, locks
    <2> QED
      BY ZenonT(30), <1>5, <2>2, <2>3 DEF Tick
  <1>6. CASE Iret
    BY ZenonT(30), <1>6, PitIInv DEF Iret, locks
  <1>7. CASE UNCHANGED vars
    BY <1>7 DEF vars, locks, IInv, TypeOK, IdleOutside, HoldersNamed, Holds, FlagsSaved,
       CriticalMasked, InterruptsBack, OpenOutside
  <1> QED
    BY <1>2, <1>3, <1>4, <1>5, <1>6, <1>7 DEF Next
-----------------------------------------------------------------------------
\* The inductive invariant holds in every state.
THEOREM Invariance == Spec => []IInv
  BY InitIInv, NextIInv, PTL DEF Spec

\* Every variable keeps its type, and an actor that takes or releases a lock is
\* at a lock of its path.
THEOREM TypeCorrect == Spec => []TypeOK
  <1>1. IInv => TypeOK
    BY DEF IInv
  <1> QED
    BY <1>1, Invariance, PTL

\* acquire_spinlock excludes: no two actors are between setting and clearing the
\* same lock, for any number of tasks, locks and nested paths.
THEOREM Exclusion == Spec => []MutualExclusion
  <1>1. IInv => MutualExclusion
    <2> SUFFICES ASSUME IInv, NEW a \in Actor, NEW l \in Lock, Inside(a, l)
                 PROVE  mut[l] = a
      BY DEF MutualExclusion
    <2> QED
      BY DEF Inside, IInv, HoldersNamed, Holds
  <1> QED
    BY <1>1, Invariance, PTL

\* From the return of acquire_spinlock to the release of the outermost lock the
\* actor keeps the CPU with interrupts off.
THEOREM SectionsMasked == Spec => []CriticalMasked
  <1>1. IInv => CriticalMasked
    BY DEF IInv
  <1> QED
    BY <1>1, Invariance, PTL

\* release_spinlock gives back the interrupt flag that acquire_spinlock found.
THEOREM FlagRestored == Spec => []InterruptsBack
  <1>1. IInv => InterruptsBack
    BY DEF IInv
  <1> QED
    BY <1>1, Invariance, PTL
-----------------------------------------------------------------------------
(* Inner locks are free. *)

\* A task that calls acquire_spinlock again at the end of _ksleep.
Again(a) == pc[a] = "tas" /\ depth[a] = 1

\* Lock l is one that actor a has set on its path.
Owns(a, l) == \E i \in 1..depth[a] : path[a][i] = l /\ (Holds(a, i) \/ Again(a))

\* A word that is set was set by an actor that is still on its path behind it:
\* the converse of HoldersNamed.
WordsOwned == \A l \in Lock : \A a \in Actor : mut[l] = a => Owns(a, l)

\* A step of actor a alone.
LEMMA OwnersKept ==
    ASSUME TypeOK, TypeOK', WordsOwned, NEW a \in Actor,
           \A b \in Actor : b # a =>
              pc'[b] = pc[b] /\ depth'[b] = depth[b] /\ path'[b] = path[b],
           \A l \in Lock : mut'[l] \in {mut[l], a, None},
           \A l \in Lock : mut'[l] = a => Owns(a, l)'
    PROVE  WordsOwned'
  <1> SUFFICES ASSUME NEW l \in Lock, NEW b \in Actor, mut'[l] = b, b # a PROVE Owns(b, l)'
    BY DEF WordsOwned
  <1>1. mut[l] = b
    BY ActorAssumption DEF Actor
  <1>2. Owns(b, l)
    BY <1>1 DEF WordsOwned
  <1> QED
    BY <1>2 DEF Owns, Holds, Again

\* What the actor that takes a step owned before.
LEMMA OwnedBefore ==
    ASSUME WordsOwned, NEW a \in Actor, NEW l \in Lock, mut[l] = a
    PROVE  \E i \in 1..depth[a] : path[a][i] = l /\ (Holds(a, i) \/ Again(a))
  BY DEF WordsOwned, Owns

\* An actor without a lock starts an operation or moves between calls.
LEMMA OutsideOwned ==
    ASSUME IInv, IInv', WordsOwned, NEW a \in Actor, pc[a] \in {"idle", "lock"}, mut' = mut,
           \A b \in Actor : b # a =>
              pc'[b] = pc[b] /\ depth'[b] = depth[b] /\ path'[b] = path[b]
    PROVE  WordsOwned'
  <1>1. depth[a] = 0
    BY DEF IInv, IdleOutside
  <1>2. \A l \in Lock : mut[l] # a
    BY <1>1, OwnedBefore
  <1>3. TypeOK /\ TypeOK'
    BY DEF IInv
  <1> QED
    BY <1>2, <1>3, OwnersKept

\* A step along the path keeps what was owned.
LEMMA StepOwned ==
    ASSUME IInv, IInv', WordsOwned, NEW a \in Actor, Step(a)
    PROVE  WordsOwned'
  <1>1. TypeOK /\ TypeOK' /\ path' = path /\ pc[a] \notin {"idle", "lock"}
    BY DEF IInv, Step, TestAndSet, SaveFlags, Cli, Clear, Sti, At
  <1>2. /\ depth[a] \in Nat /\ depth[a] >= 1 /\ Current(a) \in Lock
        /\ Current(a) = path[a][depth[a]] /\ Len(path[a]) \in Nat
    BY ZenonT(30), <1>1, Working DEF Current
  <1>3. ASSUME NEW q, NEW d, Goto(a, q, d),
               \A l \in Lock : mut'[l] \in {mut[l], a, None},
               \A l \in Lock : mut'[l] = a => Owns(a, l)'
        PROVE  WordsOwned'
    BY ZenonT(30), <1>1, <1>3, GotoFacts, OwnersKept
  <1>4. ASSUME NEW q, NEW d, Goto(a, q, d) PROVE pc'[a] = q /\ depth'[a] = d
    BY <1>1, <1>4, GotoFacts
  <1>5. CASE TestAndSet(a)
    <2>1. /\ Goto(a, "flags", depth[a]) /\ pc[a] = "tas" /\ mut[Current(a)] = None
          /\ mut' = [mut EXCEPT ![Current(a)] = a]
      BY <1>5 DEF TestAndSet, At
    <2>2. pc'[a] = "flags" /\ depth'[a] = depth[a]
      BY <2>1, <1>4
    <2>3. ASSUME NEW l \in Lock, mut'[l] = a PROVE Owns(a, l)'
      <3>1. CASE l = Current(a)
        BY <3>1, <2>2, <1>1, <1>2 DEF Owns, Holds
      <3>2. CASE l # Current(a)
        <4>1. mut[l] = a
          BY <2>1, <2>3, <3>2, <1>1 DEF TypeOK
        <4>2. PICK i \in 1..depth[a] : path[a][i] = l /\ (Holds(a, i) \/ Again(a))
          BY <4>1, OwnedBefore
        <4>3. i < depth[a]
          BY <4>2, <3>2, <1>2
        <4> QED
          BY ZenonT(30), <4>2, <4>3, <2>2, <1>1 DEF Owns, Holds
      <3> QED
        BY <3>1, <3>2
    <2>4. \A l \in Lock : mut'[l] \in {mut[l], a, None}
      BY <2>1, <1>1 DEF TypeOK
    <2> QED
      BY <2>1, <2>3, <2>4, <1>3
  <1>6. CASE SaveFlags(a)
    <2>1. Goto(a, "cli", depth[a]) /\ pc[a] = "flags" /\ mut' = mut
      BY <1>6 DEF SaveFlags, At
    <2>2. pc'[a] = "cli" /\ depth'[a] = depth[a]
      BY <2>1, <1>4
    <2>3. ASSUME NEW l \in Lock, mut[l] = a PROVE Owns(a, l)'
      BY <2>1, <2>2, <2>3, <1>1, OwnedBefore DEF Owns, Holds, Again
    <2> QED
      BY <2>1, <2>3, <1>3
  <1>7. CASE Cli(a)
    <2>1. pc[a] = "cli" /\ mut' = mut
      BY <1>7 DEF Cli, At, locks
    <2>2. PICK q, d : Goto(a, q, d) /\ \/ q = "clear" /\ d = depth[a]
                                       \/ q = "tas" /\ d = depth[a] + 1
      BY <1>7 DEF Cli
    <2>3. pc'[a] = q /\ depth'[a] = d
      BY <2>2, <1>4
    <2>4. ASSUME NEW l \in Lock, mut[l] = a PROVE Owns(a, l)'
      <3>1. PICK i \in 1..depth[a] : path[a][i] = l
        BY <2>4, OwnedBefore
      <3>2. i \in 1..depth'[a] /\ Holds(a, i)'
        BY <2>2, <2>3, <3>1, <1>2 DEF Holds
      <3> QED
        BY <3>1, <3>2, <1>1 DEF Owns
    <2> QED
      BY <2>1, <2>2, <2>4, <1>3
  <1>8. CASE Clear(a)
    <2>1. /\ pc[a] = "clear" /\ Goto(a, "sti", depth[a])
          /\ mut' = [mut EXCEPT ![Current(a)] = None]
      BY <1>8 DEF Clear, At
    <2>2. pc'[a] = "sti" /\ depth'[a] = depth[a]
      BY ZenonT(30), <2>1, <1>4
    <2>3. ASSUME NEW l \in Lock, mut'[l] = a PROVE Owns(a, l)'
      <3>1. l # Current(a) /\ mut[l] = a
        BY ZenonT(30), <2>1, <2>3, <1>1, <1>2, ActorAssumption DEF TypeOK, Actor
      <3>2. PICK i \in 1..depth[a] : path[a][i] = l
        BY <3>1, OwnedBefore
      <3>3. i \in 1..depth'[a] /\ Holds(a, i)'
        BY <2>2, <3>1, <3>2, <1>2 DEF Holds
      <3> QED
        BY <3>2, <3>3, <1>1 DEF Owns
    <2>4. \A l \in Lock : mut'[l] \in {mut[l], a, None}
      BY ZenonT(30), <2>1, <1>1 DEF TypeOK
    <2> QED
      BY ZenonT(30), <2>1, <2>3, <2>4, <1>3
  <1>9. CASE Sti(a)
    <2>1. pc[a] = "sti" /\ mut' = mut
      BY <1>9 DEF Sti, At, locks
    <2>2. PICK q, d : Goto(a, q, d) /\ \/ q = "clear" /\ d = depth[a] - 1
                                       \/ q = "idle" /\ d = 0 /\ depth[a] = 1
      BY <1>9, <1>2 DEF Sti, Returned
    <2>3. pc'[a] = q /\ depth'[a] = d
      BY <2>2, <1>4
    <2>4. ASSUME NEW l \in Lock, mut[l] = a PROVE Owns(a, l)'
      <3>1. PICK i \in 1..depth[a] : path[a][i] = l /\ (Holds(a, i) \/ Again(a))
        BY <2>4, OwnedBefore
      <3>2. i < depth[a]
        BY ZenonT(30), <3>1, <2>1 DEF Holds, Again
      <3>3. i \in 1..depth'[a] /\ Holds(a, i)'
        BY <2>2, <2>3, <3>1, <3>2, <1>2 DEF Holds
      <3> QED
        BY <3>1, <3>3, <1>1 DEF Owns
    <2> QED
      BY <2>1, <2>2, <2>4, <1>3
  <1> QED
    BY ZenonT(30), <1>5, <1>6, <1>7, <1>8, <1>9 DEF Step

LEMMA NextOwned ==
    ASSUME IInv, IInv', WordsOwned, [Next]_vars
    PROVE  WordsOwned'
  <1>1. TypeOK /\ TypeOK' /\ PIT \in Actor /\ \A t \in Task : t \in Actor
    BY DEF IInv, Actor
  <1>2. ASSUME NEW a \in Actor, NEW q, NEW d, Goto(a, q, d), path' = path \/ \E p : path' = [path EXCEPT ![a] = p]
        PROVE  \A b \in Actor : b # a =>
                  pc'[b] = pc[b] /\ depth'[b] = depth[b] /\ path'[b] = path[b]
    BY SMTT(30), <1>1, <1>2, GotoFacts DEF TypeOK
  <1>3. ASSUME NEW a \in Actor, NEW p, Start(a, p)
        PROVE  \A b \in Actor : b # a =>
                  pc'[b] = pc[b] /\ depth'[b] = depth[b] /\ path'[b] = path[b]
    BY ZenonT(30), <1>2, <1>3 DEF Start
  <1>4. ASSUME NEW t \in Task, Call(t) \/ acquire_lock(t) \/ AcquireLoop(t) \/ release_lock(t)
        PROVE  WordsOwned'
    <2>1. pc[t] \in {"idle", "lock"} /\ mut' = mut
      BY <1>4 DEF Call, acquire_lock, AcquireLoop, release_lock, At, locks
    <2>2. \/ \E p : Start(t, p)
          \/ path' = path /\ \E q : Goto(t, q, 0)
      BY ZenonT(30), <1>4 DEF Call, acquire_lock, AcquireLoop, release_lock
    <2>3. \A b \in Actor : b # t =>
             pc'[b] = pc[b] /\ depth'[b] = depth[b] /\ path'[b] = path[b]
      BY <2>2, <1>1, <1>2, <1>3
    <2> QED
      BY <2>1, <2>3, <1>1, OutsideOwned
  <1>5. ASSUME NEW t \in Task, KsleepEnd(t) PROVE WordsOwned'
    <2>1. /\ pc[t] = "clear" /\ depth[t] = 1 /\ Goto(t, "tas", 1)
          /\ mut' = mut /\ path' = path
      BY <1>5 DEF KsleepEnd, At, locks
    <2>2. pc'[t] = "tas" /\ depth'[t] = 1
      BY <2>1, <1>1, GotoFacts
    <2>3. ASSUME NEW l \in Lock, mut[l] = t PROVE Owns(t, l)'
      BY <2>1, <2>2, <2>3, <1>1, OwnedBefore DEF Owns, Again
    <2>4. \A b \in Actor : b # t =>
             pc'[b] = pc[b] /\ depth'[b] = depth[b] /\ path'[b] = path[b]
      BY ZenonT(30), <2>1, <1>1, <1>2
    <2> QED
      BY <2>1, <2>3, <2>4, <1>1, OwnersKept
  <1>6. CASE Tick
    <2>1. mut' = mut /\ pc[PIT] = "idle"
      BY <1>6 DEF Tick, locks, IInv, IdleOutside
    <2>2. (\E p : Start(PIT, p)) \/ UNCHANGED <<pc, path, depth>>
      BY <1>6 DEF Tick
    <2> QED
      BY <2>1, <2>2, <1>1, <1>3, OutsideOwned
  <1>7. CASE UNCHANGED <<mut, pc, path, depth>>
    BY <1>7 DEF WordsOwned, Owns, Holds, Again
  <1>8. Iret \/ UNCHANGED vars => UNCHANGED <<mut, pc, path, depth>>
    BY DEF Iret, vars, locks
  <1> QED
    BY <1>4, <1>5, <1>6, <1>7, <1>8, StepOwned DEF Next, TaskStep

\* An inner lock of sched/sline.c is free whenever somebody gets to it, for any
\* tasks and any locks nested that way: its holder would also hold the outermost
\* lock, which is the one that the newcomer holds.
THEOREM InnerLocksFree ==
    ASSUME InnerUnderOuter
    PROVE  Spec => []InnerLockFree
  <1>1. Init => WordsOwned
    BY ActorAssumption DEF Init, WordsOwned, Actor
  <1>2. ASSUME IInv, WordsOwned PROVE InnerLockFree
    <2> SUFFICES ASSUME NEW a \in Actor, pc[a] = "tas", depth[a] > 1, mut[Current(a)] # None
                 PROVE  FALSE
      BY DEF InnerLockFree
    <2>1. /\ depth[a] \in 2..Len(path[a]) /\ path[a] \in Paths /\ Current(a) \in Lock
          /\ Current(a) = path[a][depth[a]]
          /\ \A i, j \in 1..depth[a] : path[a][i] = path[a][j] => i = j
      BY <1>2, Working DEF IInv, Current
    <2>2. PICK b \in Actor : mut[Current(a)] = b
      BY <1>2, <2>1 DEF IInv, TypeOK
    <2>3. PICK j \in 1..depth[b] : path[b][j] = Current(a) /\ (Holds(b, j) \/ Again(b))
      BY <1>2, <2>1, <2>2, OwnedBefore
    <2>4. pc[b] \notin {"idle", "lock"}
      BY <2>3 DEF Holds, Again
    <2>5. path[b] \in Paths /\ j \in 1..Len(path[b])
      BY SMTT(30), <1>2, <2>3, <2>4, Working DEF IInv
    <2>6. j > 1 /\ path[b][1] = path[a][1]
      BY <2>1, <2>3, <2>5 DEF InnerUnderOuter
    <2>7. Holds(b, 1) /\ Holds(a, 1) /\ 1 \in 1..depth[a] /\ 1 \in 1..depth[b]
      BY SMTT(30), <1>2, <2>3, <2>4, <2>6 DEF Holds, IInv, TypeOK
    <2>8. a = b
      BY <1>2, <2>6, <2>7 DEF IInv, HoldersNamed
    <2>9. j = depth[a]
      BY <2>1, <2>3, <2>8
    <2> QED
      BY <2>3, <2>6, <2>8, <2>9 DEF Holds, Again
  <1> QED
    BY <1>1, <1>2, NextOwned, Invariance, PTL DEF Spec
=============================================================================
