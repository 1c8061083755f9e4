----------------------------- MODULE DurableFS -----------------------------
(***************************************************************************)
(* What the stores of QuantVerify use of a POSIX file system: a tree of    *)
(* directories, canonical objects and mkstemp files, each a directory      *)
(* entry that processes see at once and that reaches the disk later.  No   *)
(* code of the repository is modelled here; the operations are the calls   *)
(* that data/store.py, artifacts/store.py and data/snapshots.py make       *)
(* (mkdir, mkstemp, write, fsync, link, unlink), with what POSIX says they *)
(* do and nothing more:                                                    *)
(*  - fsync of a directory puts that directory's entries on disk, not the  *)
(*    entry of the directory itself in its own parent;                     *)
(*  - any entry may also reach the disk unasked, in any order;             *)
(*  - losing power leaves the entries whose whole path is on disk, and     *)
(*    leaves bytes that were never fsynced in an unknown state.            *)
(***************************************************************************)
CONSTANTS
    Root,     \* the directory the store was opened on (CaptureStore._root)
    Dirs,     \* directories, Root included
    Objects,  \* canonical object files
    Temps,    \* the names mkstemp can choose, each in one directory
    Parent    \* the directory that holds an entry; Root's parent is outside

Files == Objects \cup Temps
Nodes == Dirs \cup Files

ASSUME TreeAssumption ==
    /\ Root \in Dirs
    /\ Dirs \cap Files = {}
    /\ Objects \cap Temps = {}
    /\ Parent \in [Nodes \ {Root} -> Dirs]

VARIABLES
    visible,  \* entries that processes see
    durable,  \* entries that are on disk
    data,     \* bytes of each file: "partial", "whole" or "foreign"
    flushed   \* files whose bytes are on disk

fsVars == <<visible, durable, data, flushed>>

Bytes == {"partial", "whole", "foreign"}

\* The directories met on the way from d up to Root, d included: the least
\* set that holds d and the parent of each of its members.
Up == [d \in Dirs |->
         {a \in Dirs : \A S \in SUBSET Dirs :
             (d \in S /\ \A x \in S \ {Root} : Parent[x] \in S) => a \in S}]

\* Every entry that must exist for n to be found by its name, n included.
Path(n) == IF n \in Dirs THEN Up[n] ELSE {n} \cup Up[Parent[n]]

Children(d) == {n \in Nodes \ {Root} : Parent[n] = d}

\* n is found by its name again after a power loss ...
Settled(n) == Path(n) \subseteq durable

\* ... and so are its complete bytes.
Intact(o) == Settled(o) /\ data[o] = "whole" /\ o \in flushed

FSTypeOK ==
    /\ visible \subseteq Nodes
    /\ durable \subseteq Nodes
    /\ data \in [Files -> Bytes]
    /\ flushed \subseteq Files

\* A store that holds the given entries since long ago: all on disk.
FSInit(entries, foreign) ==
    /\ visible = entries
    /\ durable = entries
    /\ data = [f \in Files |-> IF f \in foreign THEN "foreign" ELSE "partial"]
    /\ flushed = foreign

-----------------------------------------------------------------------------
(* System calls *)

MakeDirectory(d) ==
    /\ d \in Dirs \ visible
    /\ d # Root => Parent[d] \in visible
    /\ visible' = visible \cup {d}
    /\ UNCHANGED <<durable, data, flushed>>

\* An exclusive creation: mkstemp, or open(path, "xb").
CreateFile(f) ==
    /\ f \notin visible
    /\ Parent[f] \in visible
    /\ visible' = visible \cup {f}
    /\ data' = [data EXCEPT ![f] = "partial"]
    /\ flushed' = flushed \ {f}
    /\ UNCHANGED durable

\* write() of the complete bytes; they stay in the page cache.
WriteBytes(f) ==
    /\ data' = [data EXCEPT ![f] = "whole"]
    /\ UNCHANGED <<visible, durable, flushed>>

\* write(), flush() and os.fsync() of the complete bytes.
WriteAndSync(f) ==
    /\ data' = [data EXCEPT ![f] = "whole"]
    /\ flushed' = flushed \cup {f}
    /\ UNCHANGED <<visible, durable>>

\* os.link(): a second name for the same bytes, refused if the name is taken.
Link(t, o) ==
    /\ o \notin visible
    /\ visible' = visible \cup {o}
    /\ data' = [data EXCEPT ![o] = data[t]]
    /\ flushed' = IF t \in flushed THEN flushed \cup {o} ELSE flushed \ {o}
    /\ UNCHANGED durable

SyncDirectory(d) ==
    /\ durable' = (durable \ Children(d)) \cup (visible \cap Children(d))
    /\ UNCHANGED <<visible, data, flushed>>

\* unlink(missing_ok=True).
Remove(t) ==
    /\ visible' = visible \ {t}
    /\ data' = [data EXCEPT ![t] = "partial"]
    /\ flushed' = flushed \ {t}
    /\ UNCHANGED durable

-----------------------------------------------------------------------------
(* What the kernel and the machine do on their own *)

\* The entry n, or its removal, reaches the disk without anyone asking.
Writeback(n) ==
    /\ n \in visible <=> n \notin durable
    /\ durable' = IF n \in visible THEN durable \cup {n} ELSE durable \ {n}
    /\ UNCHANGED <<visible, data, flushed>>

LosePower ==
    LET kept == {n \in durable : Path(n) \subseteq durable}
    IN  /\ visible' = kept
        /\ durable' = kept
        /\ \E torn \in SUBSET ((kept \cap Files) \ flushed) :
             data' = [f \in Files |->
                        IF f \in kept \ torn THEN data[f] ELSE "partial"]
        /\ flushed' = kept \cap Files
=============================================================================
