----------------------------- MODULE RollingWriter -----------------------------
(***************************************************************************)
(* RollingWriter (src/pcds/pack.py:62-166): sorted row groups go into      *)
(* part-00000.parquet, part-00001.parquet, ...  A file that has reached    *)
(* the target is closed and the next one opened; `close` folds a last file *)
(* below the floor into the one before it, through a third object.         *)
(*                                                                         *)
(* Row groups are numbered as they are written, so a file is the interval  *)
(* of the groups it holds and their size.  The process can die anywhere.   *)
(***************************************************************************)
EXTENDS Integers

CONSTANTS
    Target,    \* target_file_bytes
    Floor,     \* min_file_bytes
    Ceiling,   \* max_file_bytes
    MaxGroup,  \* the largest row group in bytes
    MaxGroups, \* bound: row groups written
    NoFile     \* no object under this name

(* The constructor's check, and a target no smaller than the floor: with a  *)
(* smaller one every rolled file may be below it.                           *)
ASSUME WriterAssumption ==
    /\ Target \in Nat \ {0}
    /\ Floor \in Nat
    /\ Ceiling \in Nat
    /\ Target + Floor <= Ceiling
    /\ Floor <= Target
    /\ MaxGroup \in Nat \ {0}
    /\ MaxGroups \in Nat

Indexes == 0 .. MaxGroups
File == [after : Indexes, upto : Indexes, size : Nat]

ASSUME NoFileAssumption == NoFile \notin File

VARIABLES
    parts,    \* parts[i]: the object part-<i>.parquet
    merging,  \* the object <keep>.merging
    index,    \* RollingWriter.index
    open,     \* what is in the stream of part-<index>, if one is open
    written,  \* row groups written
    pc

vars == <<parts, merging, index, open, written, pc>>

TypeOK ==
    /\ parts \in [Indexes -> File \cup {NoFile}]
    /\ merging \in File \cup {NoFile}
    /\ index \in Indexes
    /\ open \in File \cup {NoFile}
    /\ written \in 0 .. MaxGroups
    /\ pc \in {"write", "tail", "keep", "move", "closed", "dead"}

-------------------------------------------------------------------------------
Init ==
    /\ parts = [i \in Indexes |-> NoFile]
    /\ merging = NoFile
    /\ index = 0
    /\ open = NoFile
    /\ written = 0
    /\ pc = "write"

EmptyFile == [after |-> written, upto |-> written, size |-> 0]

(* The open file after one more row group of b bytes.                       *)
Extended(b) ==
    LET file == IF open = NoFile THEN EmptyFile ELSE open
    IN  [file EXCEPT !.upto = written + 1, !.size = @ + b]

(* write: the file is below the target and stays open, ...                  *)
WriteGroup(b) ==
    /\ pc = "write"
    /\ written < MaxGroups
    /\ Extended(b).size < Target
    /\ open' = Extended(b)
    /\ written' = written + 1
    /\ UNCHANGED <<parts, merging, index, pc>>

(* Mutant of WriteAndRoll: the next file is opened under the same name.     *)
WriteAndRollSameName(b) ==
    /\ pc = "write"
    /\ written < MaxGroups
    /\ Extended(b).size >= Target
    /\ parts' = [parts EXCEPT ![index] = Extended(b)]
    /\ open' = [after |-> written + 1, upto |-> written + 1, size |-> 0]
    /\ written' = written + 1
    /\ UNCHANGED <<merging, index, pc>>

(* ... or has reached it: it is closed and the next is opened at once.      *)
WriteAndRoll(b) ==
    /\ pc = "write"
    /\ written < MaxGroups
    /\ Extended(b).size >= Target
    /\ parts' = [parts EXCEPT ![index] = Extended(b)]
    /\ index' = index + 1
    /\ open' = [after |-> written + 1, upto |-> written + 1, size |-> 0]
    /\ written' = written + 1
    /\ UNCHANGED <<merging, pc>>

(* Mutant of MustMerge: a tail of half the floor may stay.                  *)
MustMergeHalf == index > 0 /\ open.size < Floor \div 2

(* close: a tail below the floor is merged, if there is a file before it.   *)
MustMerge == index > 0 /\ open.size < Floor

Close ==
    /\ pc = "write"
    /\ open # NoFile
    /\ parts' = [parts EXCEPT ![index] = open]
    /\ open' = NoFile
    /\ pc' = IF MustMerge THEN "tail" ELSE "closed"
    /\ UNCHANGED <<merging, index, written>>

(* close of a writer nothing was written to: there is no file.              *)
CloseUnused ==
    /\ pc = "write"
    /\ open = NoFile
    /\ pc' = "closed"
    /\ UNCHANGED <<parts, merging, index, open, written>>

Keep == parts[index - 1]
Tail == parts[index]

(* _merge_tail: both files, row group by row group, into a third object, ...*)
WriteMerged ==
    /\ pc = "tail"
    /\ merging = NoFile
    /\ merging' = [after |-> Keep.after, upto |-> Tail.upto,
                   size |-> Keep.size + Tail.size]
    /\ UNCHANGED <<parts, index, open, written, pc>>

(* Mutant of DeleteKeep: the old file goes before the merged one is there.  *)
DeleteKeepEarly ==
    /\ pc = "tail"
    /\ parts' = [parts EXCEPT ![index - 1] = NoFile]
    /\ pc' = "keep"
    /\ UNCHANGED <<merging, index, open, written>>

(* ... then the two are deleted ...                                         *)
DeleteKeep ==
    /\ pc = "tail"
    /\ merging # NoFile
    /\ parts' = [parts EXCEPT ![index - 1] = NoFile]
    /\ pc' = "keep"
    /\ UNCHANGED <<merging, index, open, written>>

DeleteTail ==
    /\ pc = "keep"
    /\ parts' = [parts EXCEPT ![index] = NoFile]
    /\ pc' = "move"
    /\ UNCHANGED <<merging, index, open, written>>

(* ... and the third takes the first one's name.                            *)
MoveMerged ==
    /\ pc = "move"
    /\ parts' = [parts EXCEPT ![index - 1] = merging]
    /\ merging' = NoFile
    /\ pc' = "closed"
    /\ UNCHANGED <<index, open, written>>

(* The process dies: the object of an open stream never appears.            *)
Die ==
    /\ pc \notin {"closed", "dead"}
    /\ open' = NoFile
    /\ pc' = "dead"
    /\ UNCHANGED <<parts, merging, index, written>>

Next ==
    \/ \E b \in 1 .. MaxGroup : WriteGroup(b) \/ WriteAndRoll(b)
    \/ Close
    \/ CloseUnused
    \/ WriteMerged
    \/ DeleteKeep
    \/ DeleteTail
    \/ MoveMerged
    \/ Die

Spec == Init /\ [][Next]_vars

-------------------------------------------------------------------------------
Present == {i \in Indexes : parts[i] # NoFile}

(* Every file `close` leaves lies in the size band, unless it is the only   *)
(* one.  pack.py:71-76 and 81-82 promise it whenever target and floor       *)
(* together stay under the ceiling: "A merged tail is at most one target    *)
(* plus one floor, so that sum is the real worst case".  It holds with a    *)
(* row group of slack, and not without: a file passes the target by up to   *)
(* a row group before it is closed, and its tail is merged on top.          *)
SizeBand ==
    pc = "closed" =>
        \A i \in Present :
            /\ parts[i].size <= Ceiling
            /\ parts[i].size >= Floor \/ Present = {i}

(* A closed writer's files, read in the order of their names, are the row   *)
(* groups in the order they were written: none is lost, repeated or out of  *)
(* order, although the tail went through another object (pack.py:130-160).  *)
GroupsInOrder ==
    pc = "closed" =>
        /\ \A g \in 1 .. written :
              \E i \in Present : parts[i].after < g /\ g <= parts[i].upto
        /\ \A i, j \in Present : i < j => parts[i].upto <= parts[j].after

(* At no point of the merge, whenever the process dies, is a row group of a *)
(* closed file in no object at all.                                         *)
Stored(g) ==
    \E file \in {parts[i] : i \in Present} \cup ({merging} \ {NoFile}) :
        file.after < g /\ g <= file.upto

NothingVanishes ==
    [][\A g \in 1 .. written : Stored(g) => Stored(g)']_vars
===============================================================================
