-------------------------- MODULE DurableFSProofs --------------------------
(***************************************************************************)
(* Facts about the tree of DurableFS and about what each system call and   *)
(* each crash leaves of the entries that had reached the disk.             *)
(***************************************************************************)
EXTENDS DurableFS, TLAPS

LEMMA UpMember ==
    ASSUME NEW d \in Dirs
    PROVE  d \in Up[d] /\ Up[d] \subseteq Dirs
  BY DEF Up

LEMMA UpRoot == Up[Root] = {Root}
  <1>1. Root \in Dirs
    BY TreeAssumption
  <1>2. ASSUME NEW a \in Up[Root] PROVE a = Root
    <2>1. a \in Dirs /\ \A S \in SUBSET Dirs :
             (Root \in S /\ \A x \in S \ {Root} : Parent[x] \in S) => a \in S
      BY <1>1 DEF Up
    <2>2. {Root} \in SUBSET Dirs
      BY <1>1
    <2>3. QED
      BY <2>1, <2>2
  <1>3. QED
    BY <1>1, <1>2, UpMember

\* Up[d] is closed under Parent.
LEMMA UpParent ==
    ASSUME NEW d \in Dirs, NEW a \in Up[d] \ {Root}
    PROVE  Parent[a] \in Up[d]
  <1>1. a \in Dirs \ {Root} /\ Parent[a] \in Dirs
    BY UpMember, TreeAssumption DEF Nodes
  <1>2. ASSUME NEW S \in SUBSET Dirs,
               d \in S /\ \A x \in S \ {Root} : Parent[x] \in S
        PROVE  Parent[a] \in S
    <2>1. a \in S
      BY <1>2 DEF Up
    <2>2. QED
      BY <1>1, <1>2, <2>1
  <1>3. QED
    BY <1>1, <1>2 DEF Up

\* ... and is the least such set.
LEMMA UpLeast ==
    ASSUME NEW d \in Dirs, NEW S \in SUBSET Dirs, d \in S,
           \A x \in S \ {Root} : Parent[x] \in S
    PROVE  Up[d] \subseteq S
  BY DEF Up

LEMMA UpMonotone ==
    ASSUME NEW d \in Dirs, NEW a \in Up[d]
    PROVE  Up[a] \subseteq Up[d]
  <1>1. a \in Dirs /\ Up[d] \in SUBSET Dirs
    BY UpMember
  <1>2. \A x \in Up[d] \ {Root} : Parent[x] \in Up[d]
    BY UpParent
  <1>3. QED
    BY <1>1, <1>2, UpLeast

LEMMA UpStep ==
    ASSUME NEW d \in Dirs \ {Root}
    PROVE  Parent[d] \in Dirs /\ Up[d] = {d} \cup Up[Parent[d]]
  <1>1. Parent[d] \in Dirs
    BY TreeAssumption DEF Nodes
  <1>2. {d} \cup Up[Parent[d]] \subseteq Up[d]
    BY <1>1, UpMember, UpParent, UpMonotone
  <1>3. Up[d] \subseteq {d} \cup Up[Parent[d]]
    <2> DEFINE S == {d} \cup Up[Parent[d]]
    <2>1. S \in SUBSET Dirs /\ d \in S
      BY <1>1, UpMember
    <2>2. ASSUME NEW x \in S \ {Root} PROVE Parent[x] \in S
      BY <1>1, UpMember, UpParent
    <2>3. d \in Dirs
      OBVIOUS
    <2> HIDE DEF S
    <2>4. Up[d] \subseteq S
      BY <2>1, <2>2, <2>3, UpLeast
    <2>5. QED
      BY <2>4 DEF S
  <1>4. QED
    BY <1>1, <1>2, <1>3

-----------------------------------------------------------------------------
(* Paths *)

LEMMA PathMember ==
    ASSUME NEW n \in Nodes
    PROVE  n \in Path(n) /\ Path(n) \subseteq {n} \cup Dirs
  <1>1. CASE n \in Dirs
    BY <1>1, UpMember DEF Path
  <1>2. CASE n \notin Dirs
    BY <1>2, UpMember, TreeAssumption DEF Path, Nodes
  <1>3. QED
    BY <1>1, <1>2

LEMMA PathParent ==
    ASSUME NEW n \in Nodes \ {Root}
    PROVE  Parent[n] \in Dirs /\ Path(n) = {n} \cup Up[Parent[n]]
  <1>1. Parent[n] \in Dirs
    BY TreeAssumption
  <1>2. CASE n \in Dirs
    BY <1>2, UpStep DEF Path
  <1>3. CASE n \notin Dirs
    BY <1>1, <1>3 DEF Path
  <1>4. QED
    BY <1>1, <1>2, <1>3

LEMMA PathClosed ==
    ASSUME NEW n \in Nodes, NEW a \in Path(n)
    PROVE  Path(a) \subseteq Path(n)
  <1>1. CASE n \in Dirs
    BY <1>1, UpMember, UpMonotone DEF Path
  <1>2. CASE n \notin Dirs
    <2>1. Parent[n] \in Dirs /\ Path(n) = {n} \cup Up[Parent[n]]
      BY <1>2, PathParent, TreeAssumption
    <2>2. CASE a = n
      BY <2>2
    <2>3. CASE a \in Up[Parent[n]]
      BY <2>1, <2>3, UpMember, UpMonotone DEF Path
    <2>4. QED
      BY <2>1, <2>2, <2>3
  <1>3. QED
    BY <1>1, <1>2

-----------------------------------------------------------------------------
(* The shape of the tree, which every operation keeps *)

\* Processes see whole paths; whatever is on disk and is no mkstemp file is
\* visible, since nothing but mkstemp files is ever unlinked.
TreeVisible == \A n \in visible : Path(n) \subseteq visible
DiskBehind == durable \ Temps \subseteq visible
RootDurable == Root \in durable

FSInv == FSTypeOK /\ TreeVisible /\ DiskBehind /\ RootDurable

\* What a step must not do to the files of the store.
KeepsIntact == \A o \in Objects : Intact(o) => Intact(o)'
NoNewObject == visible' \cap Objects \subseteq visible \cap Objects
SameObjects == \A o \in Objects : data'[o] = data[o] /\ (o \in flushed' <=> o \in flushed)

LEMMA NodeFacts ==
    /\ Dirs \cap Files = {} /\ Objects \cap Temps = {} /\ Root \in Dirs
    /\ Objects \subseteq Files /\ Temps \subseteq Files
    /\ Files \subseteq Nodes /\ Dirs \subseteq Nodes
  BY TreeAssumption DEF Nodes, Files

LEMMA ObjectPath ==
    ASSUME NEW o \in Objects
    PROVE  o \in Path(o) /\ Path(o) \cap Temps = {} /\ Path(o) \subseteq Nodes
  BY PathMember, NodeFacts

\* A step that only takes mkstemp files off the disk keeps what is settled.
LEMMA KeepsSettled ==
    ASSUME FSInv, durable \ Temps \subseteq durable', NEW o \in Objects
    PROVE  Settled(o) => Settled(o)'
  BY ObjectPath DEF Settled

LEMMA KeepsIntactWhenSame ==
    ASSUME FSInv, durable \ Temps \subseteq durable', SameObjects
    PROVE  KeepsIntact
  <1> SUFFICES ASSUME NEW o \in Objects, Intact(o) PROVE Intact(o)'
    BY DEF KeepsIntact
  <1>1. Settled(o)'
    BY KeepsSettled DEF Intact
  <1>2. QED
    BY <1>1 DEF Intact, SameObjects

-----------------------------------------------------------------------------
(* One lemma per system call and crash *)

\* No step but a loss of power loses anything but mkstemp files.
Gentle ==
    /\ visible \ Temps \subseteq visible'
    /\ durable \ Temps \subseteq durable'
    /\ KeepsIntact
    /\ \A o \in Objects \cap visible : data'[o] = data[o]

Quiet == Gentle /\ NoNewObject /\ SameObjects

LEMMA TreeVisibleNew ==
    ASSUME FSInv, NEW n \in Nodes, n # Root => Parent[n] \in visible,
           visible' = visible \cup {n}
    PROVE  TreeVisible'
  <1>1. Path(n) \subseteq visible \cup {n}
    <2>1. CASE n = Root
      BY <2>1, UpRoot, NodeFacts DEF Path
    <2>2. CASE n # Root
      <3>1. Path(n) = {n} \cup Up[Parent[n]] /\ Parent[n] \in Dirs
        BY <2>2, PathParent
      <3>2. Up[Parent[n]] \subseteq visible
        BY <3>1, <2>2 DEF FSInv, TreeVisible, Path
      <3>3. QED
        BY <3>1, <3>2
    <2>3. QED
      BY <2>1, <2>2
  <1>2. QED
    BY <1>1 DEF FSInv, TreeVisible

LEMMA MakeDirectoryKeeps ==
    ASSUME FSInv, NEW d \in Dirs, MakeDirectory(d)
    PROVE  FSInv' /\ Quiet
  <1>1. TreeVisible'
    BY TreeVisibleNew, NodeFacts DEF MakeDirectory
  <1>2. SameObjects /\ NoNewObject
    BY NodeFacts DEF MakeDirectory, SameObjects, NoNewObject
  <1>3. KeepsIntact
    BY <1>2, KeepsIntactWhenSame DEF MakeDirectory
  <1>4. FSTypeOK' /\ DiskBehind' /\ RootDurable'
    BY NodeFacts DEF FSInv, FSTypeOK, DiskBehind, RootDurable, MakeDirectory
  <1>5. QED
    BY <1>1, <1>2, <1>3, <1>4, NodeFacts
       DEF FSInv, Quiet, Gentle, SameObjects, MakeDirectory

LEMMA CreateFileKeeps ==
    ASSUME FSInv, NEW t \in Temps, CreateFile(t)
    PROVE  FSInv' /\ Quiet
  <1>1. TreeVisible'
    BY TreeVisibleNew, NodeFacts DEF CreateFile
  <1>2. SameObjects /\ NoNewObject
    BY NodeFacts DEF CreateFile, SameObjects, NoNewObject, FSInv, FSTypeOK
  <1>3. KeepsIntact
    BY <1>2, KeepsIntactWhenSame DEF CreateFile
  <1>4. FSTypeOK' /\ DiskBehind' /\ RootDurable'
    BY NodeFacts DEF FSInv, FSTypeOK, DiskBehind, RootDurable, CreateFile, Bytes
  <1>5. QED
    BY <1>1, <1>2, <1>3, <1>4, NodeFacts
       DEF FSInv, Quiet, Gentle, SameObjects, CreateFile

LEMMA WriteAndSyncKeeps ==
    ASSUME FSInv, NEW t \in Temps, WriteAndSync(t)
    PROVE  FSInv' /\ Quiet /\ data'[t] = "whole" /\ t \in flushed'
  <1>1. TreeVisible'
    BY DEF WriteAndSync, FSInv, TreeVisible
  <1>2. SameObjects /\ NoNewObject
    BY NodeFacts DEF WriteAndSync, SameObjects, NoNewObject, FSInv, FSTypeOK
  <1>3. KeepsIntact
    BY <1>2, KeepsIntactWhenSame DEF WriteAndSync
  <1>4. FSTypeOK' /\ DiskBehind' /\ RootDurable'
    BY NodeFacts DEF FSInv, FSTypeOK, DiskBehind, RootDurable, WriteAndSync, Bytes
  <1>5. data'[t] = "whole" /\ t \in flushed'
    BY NodeFacts DEF FSInv, FSTypeOK, WriteAndSync
  <1>6. QED
    BY <1>1, <1>2, <1>3, <1>4, <1>5, NodeFacts
       DEF FSInv, Quiet, Gentle, SameObjects, WriteAndSync

LEMMA RemoveKeeps ==
    ASSUME FSInv, NEW t \in Temps, Remove(t)
    PROVE  FSInv' /\ Quiet
  <1>1. TreeVisible'
    <2>1. \A n \in visible' : n \in visible /\ t \notin Path(n)
      <3>1. SUFFICES ASSUME NEW n \in visible, n # t PROVE t \notin Path(n)
        BY DEF Remove
      <3>2. QED
        BY <3>1, PathMember, NodeFacts DEF FSInv, FSTypeOK
    <2>2. QED
      BY <2>1 DEF Remove, FSInv, TreeVisible
  <1>2. SameObjects /\ NoNewObject
    BY NodeFacts DEF Remove, SameObjects, NoNewObject, FSInv, FSTypeOK
  <1>3. KeepsIntact
    BY <1>2, KeepsIntactWhenSame DEF Remove
  <1>4. FSTypeOK' /\ DiskBehind' /\ RootDurable'
    BY NodeFacts DEF FSInv, FSTypeOK, DiskBehind, RootDurable, Remove, Bytes
  <1>5. QED
    BY <1>1, <1>2, <1>3, <1>4, NodeFacts
       DEF FSInv, Quiet, Gentle, SameObjects, Remove

LEMMA SyncDirectoryKeeps ==
    ASSUME FSInv, NEW d \in Dirs, SyncDirectory(d)
    PROVE  FSInv' /\ Quiet
  <1>1. TreeVisible'
    BY DEF SyncDirectory, FSInv, TreeVisible
  <1>2. SameObjects /\ NoNewObject
    BY DEF SyncDirectory, SameObjects, NoNewObject
  <1>3. durable \ Temps \subseteq durable'
    BY DEF SyncDirectory, FSInv, DiskBehind
  <1>4. KeepsIntact
    BY <1>2, <1>3, KeepsIntactWhenSame
  <1>5. FSTypeOK' /\ DiskBehind' /\ RootDurable'
    BY NodeFacts DEF FSInv, FSTypeOK, DiskBehind, RootDurable, SyncDirectory,
                     Children
  <1>6. QED
    BY <1>1, <1>2, <1>3, <1>4, <1>5, NodeFacts
       DEF FSInv, Quiet, Gentle, SameObjects, SyncDirectory

LEMMA WritebackKeeps ==
    ASSUME FSInv, NEW n \in Nodes, Writeback(n)
    PROVE  FSInv' /\ Quiet
  <1>1. TreeVisible'
    BY DEF Writeback, FSInv, TreeVisible
  <1>2. SameObjects /\ NoNewObject
    BY DEF Writeback, SameObjects, NoNewObject
  <1>3. durable \ Temps \subseteq durable'
    BY DEF Writeback, FSInv, DiskBehind
  <1>4. KeepsIntact
    BY <1>2, <1>3, KeepsIntactWhenSame
  <1>5. FSTypeOK' /\ DiskBehind' /\ RootDurable'
    BY <1>3, NodeFacts DEF FSInv, FSTypeOK, DiskBehind, RootDurable, Writeback
  <1>6. QED
    BY <1>1, <1>2, <1>3, <1>4, <1>5, NodeFacts
       DEF FSInv, Quiet, Gentle, SameObjects, Writeback

LEMMA LinkKeeps ==
    ASSUME FSInv, NEW t \in Temps, NEW o \in Objects, Parent[o] \in visible,
           data[t] = "whole", t \in flushed, Link(t, o)
    PROVE  /\ FSInv' /\ Gentle
           /\ visible' = visible \cup {o}
           /\ data'[o] = "whole" /\ o \in flushed'
           /\ \A x \in Objects \ {o} : data'[x] = data[x]
           /\ \A x \in Objects \ {o} : x \in flushed' <=> x \in flushed
  <1>1. TreeVisible'
    BY TreeVisibleNew, NodeFacts DEF Link
  <1>2. FSTypeOK' /\ DiskBehind' /\ RootDurable'
    BY NodeFacts DEF FSInv, FSTypeOK, DiskBehind, RootDurable, Link, Bytes
  <1>3. /\ visible' = visible \cup {o}
        /\ data'[o] = "whole" /\ o \in flushed'
        /\ \A x \in Objects \ {o} : data'[x] = data[x]
        /\ \A x \in Objects \ {o} : x \in flushed' <=> x \in flushed
    BY NodeFacts DEF FSInv, FSTypeOK, Link
  <1>4. KeepsIntact
    <2> SUFFICES ASSUME NEW x \in Objects, Intact(x) PROVE Intact(x)'
      BY DEF KeepsIntact
    <2>1. x # o
      BY ObjectPath, NodeFacts DEF Intact, Settled, FSInv, DiskBehind, Link
    <2>2. Settled(x)'
      BY KeepsSettled DEF Intact, Link
    <2>3. QED
      BY <1>3, <2>1, <2>2 DEF Intact
  <1>5. QED
    BY <1>1, <1>2, <1>3, <1>4 DEF FSInv, Gentle, Link

LEMMA LosePowerKeeps ==
    ASSUME FSInv, LosePower
    PROVE  /\ FSInv' /\ KeepsIntact /\ NoNewObject
           /\ \A o \in Objects \cap visible' : Settled(o) /\ Settled(o)'
           /\ \A o \in Objects \cap visible' :
                o \in flushed => data'[o] = data[o] /\ o \in flushed'
           /\ \A o \in Objects : Settled(o) => o \in visible' /\ Settled(o)'
  <1> DEFINE kept == {n \in durable : Path(n) \subseteq durable}
  <1>1. PICK torn \in SUBSET ((kept \cap Files) \ flushed) :
          /\ visible' = kept /\ durable' = kept /\ flushed' = kept \cap Files
          /\ data' = [f \in Files |->
                        IF f \in kept \ torn THEN data[f] ELSE "partial"]
    BY DEF LosePower
  <1>2. kept \subseteq Nodes /\ kept \subseteq durable
    BY DEF FSInv, FSTypeOK
  <1>3. \A n \in kept : Path(n) \subseteq kept
    BY <1>2, PathClosed
  <1>4. Root \in kept
    BY UpRoot, NodeFacts DEF Path, FSInv, RootDurable
  <1>5. FSInv'
    <2>1. FSTypeOK'
      BY <1>1, <1>2 DEF FSInv, FSTypeOK, Bytes
    <2>2. TreeVisible' /\ DiskBehind' /\ RootDurable'
      BY <1>1, <1>3, <1>4 DEF TreeVisible, DiskBehind, RootDurable
    <2>3. QED
      BY <2>1, <2>2 DEF FSInv
  <1>6. \A o \in Objects : Settled(o) => o \in visible' /\ Settled(o)'
    <2> SUFFICES ASSUME NEW o \in Objects, Settled(o)
                 PROVE  o \in visible' /\ Settled(o)'
      OBVIOUS
    <2>1. o \in kept
      BY ObjectPath DEF Settled
    <2>2. QED
      BY <1>1, <1>3, <2>1 DEF Settled
  <1>7. \A o \in Objects \cap visible' : Settled(o) /\ Settled(o)'
    BY <1>1, <1>3 DEF Settled
  <1>8. \A o \in Objects \cap visible' :
          o \in flushed => data'[o] = data[o] /\ o \in flushed'
    BY <1>1, NodeFacts
  <1>9. NoNewObject
    BY <1>1, <1>2, NodeFacts DEF NoNewObject, FSInv, DiskBehind
  <1>10. KeepsIntact
    BY <1>6, <1>8 DEF KeepsIntact, Intact
  <1>11. QED
    BY <1>5, <1>6, <1>7, <1>8, <1>9, <1>10
=============================================================================
