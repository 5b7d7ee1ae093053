------------------------- MODULE RollingWriterProofs -------------------------
(* What a RollingWriter's files hold, for any target, floor and ceiling and *)
(* any sequence of row groups, wherever it dies; and the band their sizes   *)
(* lie in when a row group of slack is left under the ceiling.              *)
EXTENDS RollingWriter, TLAPS

(* A file closed by a roll: past the target, by less than a row group.      *)
IsRolled(file) ==
    /\ file \in File
    /\ Target <= file.size
    /\ file.size < Target + MaxGroup

IsMerged(file) ==
    /\ file \in File
    /\ Target <= file.size
    /\ file.size < Target + MaxGroup + Floor

InBand(file) == Floor <= file.size /\ file.size <= Ceiling

(* Before the last file's name every name is a rolled file, after it none   *)
(* is taken; during the merge the last two are gone one by one, and the     *)
(* third object is as large as both.                                        *)
Writing ==
    pc = "write" =>
        /\ \A i \in Indexes : i < index => IsRolled(parts[i])
        /\ \A i \in Indexes : i >= index => parts[i] = NoFile
        /\ merging = NoFile
        /\ open # NoFile => open.size < Target
        /\ index > 0 => open # NoFile

Merging ==
    pc \in {"tail", "keep", "move"} =>
        /\ index > 0
        /\ \A i \in Indexes : i < index - 1 => IsRolled(parts[i])
        /\ \A i \in Indexes : i > index => parts[i] = NoFile
        /\ merging # NoFile => IsMerged(merging)

InTail ==
    pc = "tail" =>
        /\ IsRolled(parts[index - 1])
        /\ parts[index] \in File
        /\ parts[index].size < Floor

InKeep == pc = "keep" => merging # NoFile /\ parts[index - 1] = NoFile

InMove ==
    pc = "move" =>
        /\ merging # NoFile
        /\ parts[index - 1] = NoFile
        /\ parts[index] = NoFile

Closed ==
    pc = "closed" =>
        \/ Present = {}
        \/ \E i \in Indexes : Present = {i} /\ parts[i].size <= Ceiling
        \/ \A i \in Present : InBand(parts[i])

(* Every roll has written a row group, so the names never run out.          *)
NamesLeft == index <= written

BandInv ==
    /\ TypeOK
    /\ NamesLeft
    /\ Writing
    /\ Merging
    /\ InTail
    /\ InKeep
    /\ InMove
    /\ Closed

LEMMA FileFacts ==
    ASSUME NEW file \in File
    PROVE  /\ file.after \in Indexes /\ file.upto \in Indexes
           /\ file.size \in Nat
           /\ file # NoFile
  BY NoFileAssumption DEF File

(* What one more row group makes of the open file.                          *)
LEMMA ExtendedFacts ==
    ASSUME TypeOK, written < MaxGroups, NEW b \in 1 .. MaxGroup,
           open # NoFile => open.size < Target
    PROVE  /\ Extended(b) \in File
           /\ Extended(b) # NoFile
           /\ Extended(b).size < Target + MaxGroup
<1>1. PICK file \in File :
         /\ file.size < Target
         /\ Extended(b) = [file EXCEPT !.upto = written + 1, !.size = @ + b]
  <2>1. EmptyFile \in File /\ EmptyFile.size = 0
    BY WriterAssumption DEF EmptyFile, File, TypeOK, Indexes
  <2>2. CASE open = NoFile
    <3>1. Extended(b)
            = [EmptyFile EXCEPT !.upto = written + 1, !.size = @ + b]
      BY <2>2 DEF Extended
    <3>2. EmptyFile.size < Target
      BY <2>1, WriterAssumption
    <3> QED BY <2>1, <3>1, <3>2
  <2>3. CASE open # NoFile
    <3>1. open \in File /\ open.size < Target
      BY <2>3 DEF TypeOK
    <3> QED BY <2>3, <3>1 DEF Extended
  <2> QED BY <2>2, <2>3
<1>2. written + 1 \in Indexes
  BY WriterAssumption DEF TypeOK, Indexes
<1>3. file.size + b \in Nat /\ b <= MaxGroup
  BY FileFacts, WriterAssumption
<1>4. /\ Extended(b) \in File
      /\ Extended(b).size = file.size + b
  BY <1>1, <1>2, <1>3 DEF File
<1> QED BY <1>1, <1>3, <1>4, FileFacts, WriterAssumption

LEMMA BandInvariant == Spec /\ Ceiling >= Target + Floor + MaxGroup => []BandInv
<1> SUFFICES ASSUME Ceiling >= Target + Floor + MaxGroup
             PROVE  Spec => []BandInv
  OBVIOUS
<1>1. Init => BandInv
  BY WriterAssumption
  DEF Init, BandInv, TypeOK, NamesLeft, Writing, Merging, InTail, InKeep,
      InMove, Closed, Indexes
<1>2. BandInv /\ [Next]_vars => BandInv'
  <2> SUFFICES ASSUME BandInv, [Next]_vars PROVE BandInv'
    OBVIOUS
  <2>0. /\ MaxGroups \in Nat
        /\ index \in Int /\ 0 <= index /\ index <= MaxGroups
        /\ written \in Int /\ index <= written /\ written <= MaxGroups
        /\ parts \in [Indexes -> File \cup {NoFile}]
    BY WriterAssumption DEF BandInv, TypeOK, NamesLeft, Indexes
  <2>1. CASE UNCHANGED vars
    BY <2>1
    DEF vars, BandInv, TypeOK, NamesLeft, Writing, Merging, InTail, InKeep,
        InMove, Closed, Present
  <2>2. ASSUME NEW b \in 1 .. MaxGroup, WriteGroup(b) PROVE BandInv'
    <3>1. Extended(b) \in File /\ Extended(b) # NoFile
      BY <2>2, ExtendedFacts DEF WriteGroup, BandInv, Writing
    <3>2. TypeOK' /\ NamesLeft'
      BY <2>0, <2>2, <3>1, WriterAssumption
      DEF WriteGroup, BandInv, TypeOK, NamesLeft
    <3>3. Writing'
      BY <2>2, <3>1 DEF WriteGroup, BandInv, Writing
    <3> QED
      BY <2>2, <3>2, <3>3
      DEF WriteGroup, BandInv, Merging, InTail, InKeep, InMove, Closed
  <2>3. ASSUME NEW b \in 1 .. MaxGroup, WriteAndRoll(b) PROVE BandInv'
    <3>1. /\ Extended(b) \in File
          /\ IsRolled(Extended(b))
      BY <2>3, ExtendedFacts DEF WriteAndRoll, BandInv, Writing, IsRolled
    <3>2. /\ index \in Indexes /\ index + 1 \in Indexes
          /\ written + 1 \in Indexes
      BY <2>0, <2>3 DEF WriteAndRoll, Indexes
    <3>3. open' \in File /\ open' # NoFile /\ open'.size = 0
      BY <2>3, <3>2, NoFileAssumption DEF WriteAndRoll, File
    <3>4. TypeOK' /\ NamesLeft'
      BY <2>0, <2>3, <3>1, <3>2, <3>3 DEF WriteAndRoll, BandInv, TypeOK, NamesLeft, Indexes
    <3>5. parts'[index] = Extended(b) /\ \A i \in Indexes \ {index} : parts'[i] = parts[i]
      BY <2>0, <2>3, <3>2 DEF WriteAndRoll
    <3>6. Writing'
      <4>1. \A i \in Indexes : i < index + 1 => IsRolled(parts'[i])
        BY <2>0, <2>3, <3>1, <3>5 DEF WriteAndRoll, BandInv, Writing, Indexes
      <4>2. \A i \in Indexes : i >= index + 1 => parts'[i] = NoFile
        BY <2>0, <2>3, <3>5 DEF WriteAndRoll, BandInv, Writing, Indexes
      <4>3. open'.size < Target
        BY <3>3, WriterAssumption
      <4> QED
        BY <2>3, <3>3, <4>1, <4>2, <4>3
        DEF WriteAndRoll, BandInv, Writing, IsRolled
    <3> QED
      BY <2>3, <3>4, <3>6
      DEF WriteAndRoll, BandInv, Merging, InTail, InKeep, InMove, Closed
  <2>4. CASE Close
    <3>1. open \in File /\ open # NoFile /\ open.size \in Nat /\ open.size < Target
      BY <2>4, FileFacts DEF Close, BandInv, TypeOK, Writing
    <3>2. index \in Indexes
      BY <2>0 DEF Indexes
    <3>3. parts'[index] = open /\ \A i \in Indexes \ {index} : parts'[i] = parts[i]
      BY <2>0, <2>4, <3>2 DEF Close
    <3>4. TypeOK' /\ NamesLeft'
      BY <2>0, <2>4, <3>1, <3>2 DEF Close, BandInv, TypeOK, NamesLeft
    <3>5. /\ \A i \in Indexes : i < index => IsRolled(parts[i])
          /\ \A i \in Indexes : i >= index => parts[i] = NoFile
          /\ merging = NoFile
      BY <2>4 DEF Close, BandInv, Writing
    <3>6. CASE MustMerge
      <4>1. pc' = "tail" /\ index' = index /\ merging' = NoFile /\ index > 0
        BY <2>4, <3>5, <3>6 DEF Close, MustMerge
      <4>2. index - 1 \in Indexes /\ index - 1 # index /\ index - 1 < index
        BY <2>0, <4>1 DEF Indexes
      <4>3. IsRolled(parts'[index - 1])
        BY <3>3, <3>5, <4>2
      <4>4. parts'[index] \in File /\ parts'[index].size < Floor
        BY <3>1, <3>3, <3>6 DEF MustMerge
      <4>5. \A i \in Indexes : i < index - 1 => IsRolled(parts'[i])
        BY <2>0, <3>3, <3>5 DEF Indexes
      <4>6. \A i \in Indexes : i > index => parts'[i] = NoFile
        BY <2>0, <3>3, <3>5 DEF Indexes
      <4>7. InTail' /\ Merging'
        BY <4>1, <4>3, <4>4, <4>5, <4>6 DEF InTail, Merging, IsRolled
      <4> QED
        BY <3>4, <4>1, <4>7 DEF BandInv, Writing, InKeep, InMove, Closed
    <3>7. CASE ~ MustMerge
      <4>1. pc' = "closed"
        BY <2>4, <3>7 DEF Close
      <4>2. Closed'
        <5>1. CASE index = 0
          <6>1. Present' = {index}
            BY <2>0, <3>1, <3>2, <3>3, <3>5, <5>1 DEF Present, Indexes
          <6>2. parts'[index].size <= Ceiling
            BY <3>1, <3>3, WriterAssumption
          <6> QED BY <3>2, <6>1, <6>2 DEF Closed
        <5>2. CASE index > 0
          <6>1. open.size >= Floor
            BY <3>1, <3>7, <5>2, WriterAssumption DEF MustMerge
          <6>2. ASSUME NEW i \in Indexes, parts'[i] # NoFile
                PROVE  InBand(parts'[i])
            <7>1. CASE i = index
              BY <3>1, <3>3, <6>1, <7>1, WriterAssumption DEF InBand
            <7>2. CASE i # index
              <8>1. i < index /\ parts'[i] = parts[i]
                BY <2>0, <3>3, <3>5, <6>2, <7>2 DEF Indexes
              <8>2. IsRolled(parts'[i]) /\ parts'[i].size \in Nat
                BY <3>5, <8>1, FileFacts DEF IsRolled
              <8> QED BY <8>2, WriterAssumption DEF IsRolled, InBand
            <7> QED BY <7>1, <7>2
          <6> QED BY <6>2 DEF Closed, Present, InBand
        <5> QED BY <2>0, <5>1, <5>2
      <4> QED
        BY <3>4, <4>1, <4>2 DEF BandInv, Writing, Merging, InTail, InKeep, InMove
    <3> QED BY <3>6, <3>7
  <2>5. CASE CloseUnused
    <3>1. index = 0 /\ \A i \in Indexes : parts[i] = NoFile
      BY <2>0, <2>5 DEF CloseUnused, BandInv, Writing, Indexes
    <3> QED
      BY <2>5, <3>1
      DEF CloseUnused, BandInv, TypeOK, NamesLeft, Writing, Merging, InTail,
          InKeep, InMove, Closed, Present
  <2>6. CASE WriteMerged
    <3>1. /\ Keep \in File /\ Tail \in File
          /\ Target <= Keep.size /\ Keep.size < Target + MaxGroup
          /\ Tail.size < Floor
      BY <2>6 DEF WriteMerged, BandInv, InTail, IsRolled, Keep, Tail
    <3>2. /\ Keep.size \in Nat /\ Tail.size \in Nat
          /\ Keep.after \in Indexes /\ Tail.upto \in Indexes
      BY <3>1, FileFacts
    <3>3. /\ merging' \in File
          /\ merging'.size = Keep.size + Tail.size
      BY <2>6, <3>2 DEF WriteMerged, File
    <3>4. IsMerged(merging')
      BY <3>1, <3>2, <3>3, WriterAssumption DEF IsMerged
    <3> QED
      BY <2>6, <3>3, <3>4
      DEF WriteMerged, BandInv, TypeOK, NamesLeft, Writing, Merging, InTail,
          InKeep, InMove, Closed, IsMerged, IsRolled
  <2>7. CASE DeleteKeep
    <3>1. index > 0 /\ index - 1 \in Indexes
      BY <2>0, <2>7 DEF DeleteKeep, BandInv, Merging, Indexes
    <3>2. parts'[index - 1] = NoFile /\ \A i \in Indexes \ {index - 1} : parts'[i] = parts[i]
      BY <2>0, <2>7, <3>1 DEF DeleteKeep
    <3>3. TypeOK' /\ NamesLeft'
      BY <2>0, <2>7 DEF DeleteKeep, BandInv, TypeOK, NamesLeft
    <3>4. /\ \A i \in Indexes : i < index - 1 => IsRolled(parts'[i])
          /\ \A i \in Indexes : i > index => parts'[i] = NoFile
      BY <2>0, <2>7, <3>2 DEF DeleteKeep, BandInv, Merging, Indexes
    <3>5. Merging'
      BY <2>7, <3>1, <3>4 DEF DeleteKeep, BandInv, Merging, IsRolled, IsMerged
    <3> QED
      BY <2>7, <3>2, <3>3, <3>5
      DEF DeleteKeep, BandInv, Writing, InTail, InKeep, InMove, Closed
  <2>8. CASE DeleteTail
    <3>1. index > 0 /\ index \in Indexes /\ index - 1 \in Indexes
      BY <2>0, <2>8 DEF DeleteTail, BandInv, Merging, Indexes
    <3>2. parts'[index] = NoFile /\ \A i \in Indexes \ {index} : parts'[i] = parts[i]
      BY <2>0, <2>8, <3>1 DEF DeleteTail
    <3>3. TypeOK' /\ NamesLeft'
      BY <2>0, <2>8 DEF DeleteTail, BandInv, TypeOK, NamesLeft
    <3>4. /\ \A i \in Indexes : i < index - 1 => IsRolled(parts'[i])
          /\ \A i \in Indexes : i > index => parts'[i] = NoFile
          /\ parts'[index - 1] = NoFile
      BY <2>0, <2>8, <3>1, <3>2 DEF DeleteTail, BandInv, Merging, InKeep, Indexes
    <3>5. Merging' /\ InMove'
      BY <2>8, <3>1, <3>2, <3>4
      DEF DeleteTail, BandInv, Merging, InKeep, InMove, IsRolled, IsMerged
    <3> QED
      BY <2>8, <3>3, <3>5 DEF DeleteTail, BandInv, Writing, InTail, InKeep, Closed
  <2>9. CASE MoveMerged
    <3>1. index > 0 /\ index \in Indexes /\ index - 1 \in Indexes
      BY <2>0, <2>9 DEF MoveMerged, BandInv, Merging, Indexes
    <3>2. /\ parts'[index - 1] = merging
          /\ \A i \in Indexes \ {index - 1} : parts'[i] = parts[i]
      BY <2>0, <2>9, <3>1 DEF MoveMerged
    <3>3. merging \in File /\ IsMerged(merging) /\ merging.size \in Nat
      BY <2>9, FileFacts DEF MoveMerged, BandInv, InMove, Merging, IsMerged
    <3>4. TypeOK' /\ NamesLeft'
      BY <2>0, <2>9, <3>3 DEF MoveMerged, BandInv, TypeOK, NamesLeft
    <3>5. ASSUME NEW i \in Indexes, parts'[i] # NoFile
          PROVE  InBand(parts'[i])
      <4>1. CASE i = index - 1
        BY <3>2, <3>3, <4>1, WriterAssumption DEF IsMerged, InBand
      <4>2. CASE i # index - 1
        <5>1. i < index - 1 /\ parts'[i] = parts[i]
          BY <2>0, <2>9, <3>2, <3>5, <4>2
          DEF MoveMerged, BandInv, Merging, InMove, Indexes
        <5>2. IsRolled(parts'[i]) /\ parts'[i].size \in Nat
          BY <2>9, <5>1, FileFacts DEF MoveMerged, BandInv, Merging, IsRolled
        <5> QED BY <5>2, WriterAssumption DEF IsRolled, InBand
      <4> QED BY <4>1, <4>2
    <3>6. Closed'
      BY <3>5 DEF Closed, Present, InBand
    <3> QED
      BY <2>9, <3>4, <3>6
      DEF MoveMerged, BandInv, Writing, Merging, InTail, InKeep, InMove
  <2>10. CASE Die
    BY <2>0, <2>10
    DEF Die, BandInv, TypeOK, NamesLeft, Writing, Merging, InTail, InKeep,
        InMove, Closed
  <2> QED
    BY <2>1, <2>2, <2>3, <2>4, <2>5, <2>6, <2>7, <2>8, <2>9, <2>10 DEF Next
<1> QED BY <1>1, <1>2, PTL DEF Spec

(* With a row group of slack under the ceiling every file a writer leaves   *)
(* lies in the size band, whatever is written (pack.py:71-76).              *)
THEOREM FilesInBand ==
    Ceiling >= Target + Floor + MaxGroup => (Spec => []SizeBand)
<1> SUFFICES ASSUME Ceiling >= Target + Floor + MaxGroup
             PROVE  Spec => []SizeBand
  OBVIOUS
<1>1. BandInv => SizeBand
  <2> SUFFICES ASSUME BandInv, pc = "closed", NEW i \in Present
               PROVE  /\ parts[i].size <= Ceiling
                      /\ parts[i].size >= Floor \/ Present = {i}
    BY DEF SizeBand
  <2>1. parts[i].size \in Nat
    BY FileFacts DEF BandInv, TypeOK, Present
  <2>2. CASE \E j \in Indexes : Present = {j} /\ parts[j].size <= Ceiling
    BY <2>2
  <2>3. CASE \A j \in Present : InBand(parts[j])
    BY <2>1, <2>3, WriterAssumption DEF InBand
  <2> QED BY <2>2, <2>3 DEF BandInv, Closed
<1> QED BY <1>1, BandInvariant, PTL

-------------------------------------------------------------------------------
(* Where the row groups are, at each point of a writer's life.              *)
Holds(file, g) == file.after < g /\ g <= file.upto

(* The closed files are intervals of groups in the order of their names.    *)
InOrder ==
    /\ \A i \in Present : parts[i].after <= parts[i].upto
    /\ \A i, j \in Present : i < j => parts[i].upto <= parts[j].after

(* While groups are written, the open file ends with the last one and       *)
(* begins where the closed files end.                                       *)
Growing ==
    pc = "write" =>
        /\ \A i \in Indexes : i < index <=> parts[i] # NoFile
        /\ merging = NoFile
        /\ open = NoFile => index = 0 /\ written = 0
        /\ open # NoFile =>
              /\ open.after <= open.upto
              /\ open.upto = written
              /\ \A i \in Present : parts[i].upto <= open.after
        /\ \A g \in 1 .. written : Stored(g) \/ Holds(open, g)

(* Afterwards every group is in an object, however far the merge has come.  *)
AllStored == pc \notin {"write", "dead"} => \A g \in 1 .. written : Stored(g)

(* The merged object spans what is left of the two files it replaces, and   *)
(* begins where the ones before them end.                                   *)
Spanning ==
    pc \in {"tail", "keep", "move"} =>
        /\ index > 0
        /\ \A i \in Present : i <= index
        /\ merging # NoFile =>
              /\ merging.after <= merging.upto
              /\ \A i \in Present :
                    IF i < index - 1
                    THEN parts[i].upto <= merging.after
                    ELSE merging.after <= parts[i].after /\ parts[i].upto <= merging.upto

Replacing ==
    /\ pc = "tail" => parts[index - 1] # NoFile /\ parts[index] # NoFile
    /\ pc = "keep" => merging # NoFile /\ parts[index - 1] = NoFile
    /\ pc = "move" => /\ merging # NoFile
                      /\ parts[index - 1] = NoFile /\ parts[index] = NoFile
    /\ pc = "closed" => merging = NoFile

OrderInv ==
    /\ TypeOK
    /\ NamesLeft
    /\ InOrder
    /\ Growing
    /\ AllStored
    /\ Spanning
    /\ Replacing

LEMMA StoredMeans ==
    ASSUME NEW g \in Int
    PROVE  Stored(g) <=> \/ \E i \in Indexes : parts[i] # NoFile /\ Holds(parts[i], g)
                         \/ merging # NoFile /\ Holds(merging, g)
BY DEF Stored, Present, Holds

LEMMA StoredMeansNext == \A g \in Int :
    Stored(g)' <=> \/ \E i \in Indexes : parts'[i] # NoFile /\ Holds(parts'[i], g)
                   \/ merging' # NoFile /\ Holds(merging', g)
BY DEF Stored, Present, Holds

(* The bounds of the files there are, as integers.                          *)
LEMMA OrderFacts ==
    ASSUME TypeOK, NamesLeft
    PROVE  /\ MaxGroups \in Nat /\ Indexes \subseteq Int
           /\ index \in Indexes /\ written \in Indexes /\ index <= written
           /\ parts \in [Indexes -> File \cup {NoFile}]
           /\ \A i \in Indexes : parts[i] # NoFile =>
                 parts[i].after \in Int /\ parts[i].upto \in Int
           /\ merging # NoFile => merging.after \in Int /\ merging.upto \in Int
           /\ open # NoFile => open.after \in Int /\ open.upto \in Int
<1>1. MaxGroups \in Nat /\ Indexes \subseteq Int
  BY WriterAssumption DEF Indexes
<1>2. \A i \in Indexes : parts[i] # NoFile => parts[i] \in File
  BY DEF TypeOK
<1> QED
  BY <1>1, <1>2, FileFacts DEF TypeOK, NamesLeft, Indexes

(* One more row group extends the open file by that group.                  *)
LEMMA ExtendedSpan ==
    ASSUME TypeOK, written < MaxGroups, NEW b \in 1 .. MaxGroup
    PROVE  /\ Extended(b) \in File
           /\ Extended(b).after = IF open = NoFile THEN written ELSE open.after
           /\ Extended(b).upto = written + 1
<1> DEFINE file == IF open = NoFile THEN EmptyFile ELSE open
<1>1. file \in File
  BY WriterAssumption DEF EmptyFile, File, TypeOK, Indexes
<1>2. file.after = IF open = NoFile THEN written ELSE open.after
  BY DEF EmptyFile
<1>3. Extended(b) = [file EXCEPT !.upto = written + 1, !.size = @ + b]
  BY DEF Extended
<1> HIDE DEF file
<1>4. written + 1 \in Indexes /\ file.size + b \in Nat
  BY <1>1, FileFacts, WriterAssumption DEF TypeOK, Indexes
<1> QED
  BY <1>1, <1>2, <1>3, <1>4 DEF File

(* Whatever step is taken, a group that is in an object stays in one.       *)
LEMMA StoredStays ==
    ASSUME OrderInv, [Next]_vars, NEW g \in 1 .. written, Stored(g)
    PROVE  Stored(g)'
<1> USE OrderFacts DEF OrderInv
<1>1. g \in Int
  OBVIOUS
<1>2. CASE \E b \in 1 .. MaxGroup : WriteAndRoll(b)
  <2>1. parts[index] = NoFile
    BY <1>2 DEF WriteAndRoll, Growing
  <2>2. merging' = merging /\ \A i \in Indexes \ {index} : parts'[i] = parts[i]
    BY <1>2 DEF WriteAndRoll
  <2> QED
    BY <1>1, <2>1, <2>2, StoredMeans, StoredMeansNext
<1>3. CASE Close
  <2>1. parts[index] = NoFile
    BY <1>3 DEF Close, Growing
  <2>2. merging' = merging /\ \A i \in Indexes \ {index} : parts'[i] = parts[i]
    BY <1>3 DEF Close
  <2> QED
    BY <1>1, <2>1, <2>2, StoredMeans, StoredMeansNext
<1>4. CASE WriteMerged
  <2>1. merging = NoFile /\ parts' = parts
    BY <1>4 DEF WriteMerged
  <2> QED
    BY <1>1, <2>1, StoredMeans, StoredMeansNext
<1>5. ASSUME NEW j \in Indexes, index - 1 <= j, merging # NoFile, merging' = merging,
             pc \in {"tail", "keep"},
             \A i \in Indexes \ {j} : parts'[i] = parts[i]
      PROVE  Stored(g)'
  <2>1. parts[j] # NoFile /\ Holds(parts[j], g) => Holds(merging, g)
    BY <1>1, <1>5 DEF Spanning, Present, Holds
  <2> QED
    BY <1>1, <1>5, <2>1, StoredMeans, StoredMeansNext
<1>6. CASE DeleteKeep
  <2>1. index - 1 \in Indexes
    BY <1>6 DEF DeleteKeep, Spanning, Indexes
  <2> QED
    BY <1>5, <1>6, <2>1 DEF DeleteKeep
<1>7. CASE DeleteTail
  BY <1>5, <1>7 DEF DeleteTail, Replacing
<1>8. CASE MoveMerged
  <2>1. index - 1 \in Indexes
    BY <1>8 DEF MoveMerged, Spanning, Indexes
  <2>2. /\ parts[index - 1] = NoFile /\ parts'[index - 1] = merging
        /\ \A i \in Indexes \ {index - 1} : parts'[i] = parts[i]
    BY <1>8, <2>1 DEF MoveMerged, Replacing
  <2> QED
    BY <1>1, <2>1, <2>2, StoredMeans, StoredMeansNext
<1>9. CASE UNCHANGED <<parts, merging>>
  BY <1>9 DEF Stored, Present
<1> QED
  BY <1>2, <1>3, <1>4, <1>6, <1>7, <1>8, <1>9
  DEF Next, WriteGroup, CloseUnused, Die, vars

LEMMA OrderInductive == OrderInv /\ [Next]_vars => OrderInv'
<1> SUFFICES ASSUME OrderInv, [Next]_vars PROVE OrderInv'
  OBVIOUS
<1> USE OrderFacts DEF OrderInv
<1>0. \A g \in 1 .. written : Stored(g) => Stored(g)'
  BY StoredStays
<1>1. ASSUME NEW b \in 1 .. MaxGroup, WriteGroup(b) PROVE OrderInv'
  <2>1. /\ Extended(b) \in File /\ open' = Extended(b) /\ open' # NoFile
        /\ open'.after = IF open = NoFile THEN written ELSE open.after
        /\ open'.upto = written + 1 /\ written' = written + 1
        /\ pc = "write"
        /\ UNCHANGED <<parts, merging, index, pc>>
    BY <1>1, ExtendedSpan, FileFacts DEF WriteGroup
  <2>2. TypeOK' /\ NamesLeft'
    BY <1>1, <2>1, WriterAssumption DEF TypeOK, NamesLeft, WriteGroup
  <2>3. InOrder' /\ AllStored' /\ Spanning' /\ Replacing'
    BY <2>1 DEF InOrder, Present, AllStored, Spanning, Replacing
  <2>4. \A i \in Present : parts[i].upto <= open'.after
    <3>1. CASE open = NoFile
      <4>1. \A i \in Indexes : parts[i] = NoFile
        BY <2>1, <3>1 DEF Growing, Indexes
      <4> QED
        BY <4>1 DEF Present
    <3>2. CASE open # NoFile
      BY <2>1, <3>2 DEF Growing
    <3> QED
      BY <3>1, <3>2
  <2>5. \A g \in 1 .. written' : Stored(g)' \/ Holds(open', g)
    BY <1>0, <2>1 DEF Growing, Holds
  <2>6. Growing'
    BY <2>1, <2>4, <2>5 DEF Growing, Present
  <2> QED
    BY <2>2, <2>3, <2>6
<1>2. ASSUME NEW b \in 1 .. MaxGroup, WriteAndRoll(b) PROVE OrderInv'
  <2>1. /\ Extended(b) \in File
        /\ Extended(b).after = IF open = NoFile THEN written ELSE open.after
        /\ Extended(b).upto = written + 1
        /\ written' = written + 1 /\ index' = index + 1 /\ pc = "write"
        /\ UNCHANGED <<merging, pc>>
    BY <1>2, ExtendedSpan DEF WriteAndRoll
  <2>2. index + 1 \in Indexes /\ written + 1 \in Indexes
    BY <1>2 DEF WriteAndRoll, Indexes
  <2>3. open' \in File /\ open'.after = written + 1 /\ open'.upto = written + 1
    BY <1>2, <2>2 DEF WriteAndRoll, File
  <2>4. /\ parts'[index] = Extended(b)
        /\ \A i \in Indexes \ {index} : parts'[i] = parts[i]
    BY <1>2 DEF WriteAndRoll
  <2>5. TypeOK' /\ NamesLeft'
    BY <1>2, <2>1, <2>2, <2>3 DEF WriteAndRoll, TypeOK, NamesLeft, Indexes
  <2>6. \A i \in Indexes : i < index + 1 <=> parts'[i] # NoFile
    BY <2>1, <2>4, FileFacts DEF Growing
  <2>7. /\ \A i \in Indexes : i < index => /\ parts[i] # NoFile
                                           /\ parts[i].after <= parts[i].upto
                                           /\ parts[i].upto <= Extended(b).after
        /\ Extended(b).after <= written + 1
        /\ \A i \in Indexes : parts[i] # NoFile => parts[i].upto <= written
    <3>1. CASE open = NoFile
      <4>1. index = 0 /\ \A i \in Indexes : parts[i] = NoFile /\ ~ (i < index)
        BY <2>1, <3>1 DEF Growing, Indexes
      <4> QED
        BY <2>1, <3>1, <4>1
    <3>2. CASE open # NoFile
      <4>1. \A i \in Indexes : parts[i] # NoFile =>
                parts[i].after <= parts[i].upto /\ parts[i].upto <= open.after
        BY <2>1, <3>2 DEF Growing, InOrder, Present
      <4>2. open.after <= written
        BY <2>1, <3>2 DEF Growing
      <4> QED
        BY <2>1, <3>2, <4>1, <4>2 DEF Growing
    <3> QED
      BY <3>1, <3>2
  <2>8. InOrder'
    <3>1. \A i \in Present' : parts'[i].after <= parts'[i].upto
      BY <2>1, <2>4, <2>6, <2>7 DEF Present
    <3>2. ASSUME NEW i \in Present', NEW j \in Present', i < j
          PROVE  parts'[i].upto <= parts'[j].after
      <4>1. i \in Indexes /\ j \in Indexes /\ i < index /\ j <= index
        BY <2>6, <3>2 DEF Present
      <4>2. parts'[i] = parts[i]
        BY <2>4, <4>1
      <4>3. CASE j = index
        BY <2>4, <2>7, <4>1, <4>2, <4>3
      <4>4. CASE j < index
        BY <2>4, <2>7, <3>2, <4>1, <4>2, <4>4 DEF InOrder, Present
      <4> QED
        BY <4>1, <4>3, <4>4
    <3> QED
      BY <3>1, <3>2 DEF InOrder
  <2>9. Growing'
    <3>1. merging' = NoFile /\ open' # NoFile
      BY <2>1, <2>3, FileFacts DEF Growing
    <3>2. \A i \in Present' : parts'[i].upto <= open'.after
      BY <2>1, <2>3, <2>4, <2>7 DEF Present
    <3>3. ASSUME NEW g \in 1 .. written' PROVE Stored(g)' \/ Holds(open', g)
      <4>1. CASE g \in 1 .. written /\ Stored(g)
        BY <1>0, <4>1
      <4>2. CASE ~ (g \in 1 .. written /\ Stored(g))
        <5>1. Holds(Extended(b), g)
          <6>1. CASE g = written + 1
            BY <2>1, <2>7, <6>1 DEF Growing, Holds
          <6>2. CASE g \in 1 .. written
            BY <2>1, <4>2, <6>2 DEF Growing, Holds
          <6> QED
            BY <2>1, <6>1, <6>2
        <5> QED
          BY <2>1, <2>4, <5>1, StoredMeansNext, FileFacts
      <4> QED
        BY <4>1, <4>2
    <3> QED
      BY <2>1, <2>3, <2>6, <3>1, <3>2, <3>3 DEF Growing
  <2>10. AllStored' /\ Spanning' /\ Replacing'
    BY <2>1 DEF AllStored, Spanning, Replacing
  <2> QED
    BY <2>5, <2>8, <2>9, <2>10
<1>3. CASE Close
  <2>1. /\ open # NoFile /\ open \in File /\ pc = "write" /\ open' = NoFile
        /\ pc' \in {"tail", "closed"} /\ (pc' = "tail" => index > 0)
        /\ UNCHANGED <<merging, index, written>> /\ merging = NoFile
    BY <1>3 DEF Close, MustMerge, TypeOK, Growing
  <2>2. /\ parts'[index] = open
        /\ \A i \in Indexes \ {index} : parts'[i] = parts[i]
    BY <1>3 DEF Close
  <2>3. TypeOK' /\ NamesLeft'
    BY <1>3, <2>1 DEF Close, TypeOK, NamesLeft
  <2>4. \A i \in Indexes : i <= index <=> parts'[i] # NoFile
    BY <2>1, <2>2 DEF Growing
  <2>5. InOrder'
    <3>1. \A i \in Present' : parts'[i].after <= parts'[i].upto
      BY <2>1, <2>2 DEF Growing, InOrder, Present
    <3>2. ASSUME NEW i \in Present', NEW j \in Present', i < j
          PROVE  parts'[i].upto <= parts'[j].after
      <4>1. i \in Indexes /\ j \in Indexes /\ i < index /\ j <= index
        BY <2>4, <3>2 DEF Present
      <4>2. parts'[i] = parts[i] /\ i \in Present
        BY <2>1, <2>2, <4>1 DEF Growing, Present
      <4>3. CASE j = index
        BY <2>1, <2>2, <4>2, <4>3 DEF Growing
      <4>4. CASE j < index
        BY <2>1, <2>2, <3>2, <4>1, <4>2, <4>4 DEF InOrder, Growing, Present
      <4> QED
        BY <4>1, <4>3, <4>4
    <3> QED
      BY <3>1, <3>2 DEF InOrder
  <2>6. AllStored'
    <3> SUFFICES ASSUME NEW g \in 1 .. written PROVE Stored(g)'
      BY <2>1 DEF AllStored
    <3>1. CASE Stored(g)
      BY <1>0, <3>1
    <3>2. CASE Holds(open, g)
      BY <2>1, <2>2, <3>2, StoredMeansNext
    <3> QED
      BY <2>1, <3>1, <3>2 DEF Growing
  <2>7. Replacing'
    <3>1. pc' = "tail" => index - 1 \in Indexes
      BY <2>1 DEF Indexes
    <3> QED
      BY <2>1, <2>4, <3>1 DEF Replacing
  <2>8. Growing' /\ Spanning'
    BY <2>1, <2>4 DEF Growing, Spanning, Present
  <2> QED
    BY <2>3, <2>5, <2>6, <2>7, <2>8
<1>4. CASE CloseUnused
  <2>1. TypeOK' /\ NamesLeft'
    BY <1>4 DEF CloseUnused, TypeOK, NamesLeft
  <2>2. InOrder' /\ Growing' /\ Spanning' /\ Replacing'
    BY <1>4 DEF CloseUnused, InOrder, Growing, Spanning, Replacing, Present
  <2>3. AllStored'
    BY <1>4 DEF CloseUnused, AllStored, Growing
  <2> QED
    BY <2>1, <2>2, <2>3
<1>5. CASE WriteMerged
  <2>1. /\ pc = "tail" /\ index > 0 /\ index - 1 \in Indexes /\ index - 1 < index
        /\ index - 1 \in Present /\ index \in Present
        /\ UNCHANGED <<parts, index, open, written, pc>>
    BY <1>5 DEF WriteMerged, Spanning, Replacing, Present, Indexes
  <2>2. Keep \in File /\ Tail \in File
    BY <2>1 DEF Keep, Tail, TypeOK, Present
  <2>3. /\ merging' \in File /\ merging' # NoFile
        /\ merging'.after = parts[index - 1].after
        /\ merging'.upto = parts[index].upto
    BY <1>5, <2>2, FileFacts DEF WriteMerged, File, Keep, Tail
  <2>4. TypeOK' /\ NamesLeft'
    BY <2>1, <2>3 DEF TypeOK, NamesLeft
  <2>5. InOrder' /\ Growing' /\ Replacing'
    BY <2>1 DEF InOrder, Growing, Replacing, Present
  <2>6. AllStored'
    BY <1>0, <2>1 DEF AllStored
  <2>7. Spanning'
    <3>1. merging'.after <= merging'.upto
      BY <2>1, <2>3 DEF InOrder, Present
    <3>2. ASSUME NEW i \in Present
          PROVE  IF i < index - 1
                 THEN parts[i].upto <= merging'.after
                 ELSE merging'.after <= parts[i].after /\ parts[i].upto <= merging'.upto
      <4>1. CASE i < index - 1
        BY <2>1, <2>3, <4>1 DEF InOrder
      <4>2. CASE i = index - 1
        BY <2>1, <2>3, <4>2 DEF InOrder, Present
      <4>3. CASE i = index
        BY <2>1, <2>3, <4>3 DEF InOrder, Present
      <4> QED
        BY <2>1, <4>1, <4>2, <4>3 DEF Spanning, Present
    <3> QED
      BY <2>1, <3>1, <3>2 DEF Spanning, Present
  <2> QED
    BY <2>4, <2>5, <2>6, <2>7
<1>6. CASE DeleteKeep \/ DeleteTail
  <2>1. PICK j \in Indexes :
           /\ parts' = [parts EXCEPT ![j] = NoFile]
           /\ \/ pc = "tail" /\ pc' = "keep" /\ merging # NoFile /\ j = index - 1
              \/ pc = "keep" /\ pc' = "move" /\ j = index
    <3>1. CASE DeleteKeep
      <4>1. index - 1 \in Indexes
        BY <3>1 DEF DeleteKeep, Spanning, Indexes
      <4> QED
        BY <3>1, <4>1 DEF DeleteKeep
    <3>2. CASE DeleteTail
      BY <3>2 DEF DeleteTail
    <3> QED
      BY <1>6, <3>1, <3>2
  <2>2. /\ parts'[j] = NoFile
        /\ \A i \in Indexes \ {j} : parts'[i] = parts[i]
        /\ UNCHANGED <<merging, index, open, written>>
        /\ Present' \subseteq Present /\ index - 1 \in Indexes /\ index - 1 # index
    BY <1>6, <2>1 DEF DeleteKeep, DeleteTail, Present, Spanning, Indexes
  <2>3. TypeOK' /\ NamesLeft'
    BY <2>1, <2>2 DEF TypeOK, NamesLeft
  <2>4. InOrder' /\ Growing'
    BY <2>1, <2>2 DEF InOrder, Growing, Present
  <2>5. AllStored'
    BY <1>0, <2>1, <2>2 DEF AllStored
  <2>6. Spanning'
    BY <2>1, <2>2 DEF Spanning, Present
  <2>7. Replacing'
    BY <2>1, <2>2 DEF Replacing
  <2> QED
    BY <2>3, <2>4, <2>5, <2>6, <2>7
<1>7. CASE MoveMerged
  <2>1. /\ index - 1 \in Indexes /\ pc = "move" /\ pc' = "closed"
        /\ merging # NoFile /\ merging \in File /\ merging' = NoFile
        /\ parts[index] = NoFile /\ parts[index - 1] = NoFile
        /\ UNCHANGED <<index, open, written>>
    BY <1>7 DEF MoveMerged, Spanning, Replacing, TypeOK, Indexes
  <2>2. /\ parts'[index - 1] = merging
        /\ \A i \in Indexes \ {index - 1} : parts'[i] = parts[i]
    BY <1>7, <2>1 DEF MoveMerged
  <2>3. TypeOK' /\ NamesLeft'
    BY <1>7, <2>1 DEF MoveMerged, TypeOK, NamesLeft
  <2>4. /\ merging.after <= merging.upto
        /\ \A i \in Present : i < index - 1 /\ parts[i].upto <= merging.after
    <3>1. \A i \in Present : i <= index /\ i # index /\ i # index - 1
      BY <2>1 DEF Spanning, Present
    <3>2. \A i \in Present : i < index - 1
      BY <3>1 DEF Present
    <3> QED
      BY <2>1, <3>2 DEF Spanning
  <2>5. InOrder'
    <3>1. \A i \in Present' : parts'[i].after <= parts'[i].upto
      BY <2>2, <2>4 DEF InOrder, Present
    <3>2. \A i \in Present' : i # index - 1 => i \in Present /\ parts'[i] = parts[i]
      BY <2>2 DEF Present
    <3>3. ASSUME NEW i \in Present', NEW j \in Present', i < j
          PROVE  parts'[i].upto <= parts'[j].after
      <4>1. i \in Int /\ j \in Int
        BY DEF Present
      <4>2. i # index - 1
        BY <2>4, <3>2, <3>3, <4>1
      <4> QED
        BY <2>2, <2>4, <3>2, <3>3, <4>2 DEF InOrder
    <3> QED
      BY <3>1, <3>3 DEF InOrder
  <2>6. AllStored'
    BY <1>0, <2>1 DEF AllStored
  <2>7. Growing' /\ Spanning' /\ Replacing'
    BY <2>1 DEF Growing, Spanning, Replacing
  <2> QED
    BY <2>3, <2>5, <2>6, <2>7
<1>8. CASE Die
  <2>1. TypeOK' /\ NamesLeft'
    BY <1>8 DEF Die, TypeOK, NamesLeft
  <2> QED
    BY <1>8, <2>1
    DEF Die, InOrder, Present, Growing, AllStored, Spanning, Replacing
<1>9. CASE UNCHANGED vars
  <2>1. TypeOK' /\ NamesLeft'
    BY <1>9 DEF vars, TypeOK, NamesLeft
  <2> QED
    BY <1>9, <2>1
    DEF vars, InOrder, Present, Growing, AllStored, Spanning, Replacing, Stored
<1> QED
  BY <1>1, <1>2, <1>3, <1>4, <1>5, <1>6, <1>7, <1>8, <1>9 DEF Next

LEMMA OrderInvariant == Spec => []OrderInv
<1>1. Init => OrderInv
  <2> SUFFICES ASSUME Init PROVE OrderInv
    OBVIOUS
  <2>1. 0 \in Indexes /\ 0 \in 0 .. MaxGroups /\ \A i \in Indexes : ~ (i < 0)
    BY WriterAssumption DEF Indexes
  <2>2. TypeOK /\ NamesLeft
    BY <2>1 DEF Init, TypeOK, NamesLeft
  <2>3. Present = {}
    BY DEF Init, Present
  <2> QED
    BY <2>1, <2>2, <2>3
    DEF Init, OrderInv, InOrder, Growing, AllStored, Spanning, Replacing
<1> QED
  BY <1>1, OrderInductive, PTL DEF Spec

(* A closed writer's files, read in the order of their names, are the row   *)
(* groups in the order they were written, for any target, floor and ceiling *)
(* and whether or not the tail was merged (pack.py:130-160).                *)
THEOREM FilesHoldTheGroups == Spec => []GroupsInOrder
<1>1. OrderInv => GroupsInOrder
  <2> SUFFICES ASSUME OrderInv, pc = "closed" PROVE GroupsInOrder
    BY DEF GroupsInOrder
  <2>1. ASSUME NEW g \in 1 .. written
        PROVE  \E i \in Present : parts[i].after < g /\ g <= parts[i].upto
    <3>1. Stored(g) /\ merging = NoFile
      BY DEF OrderInv, AllStored, Replacing
    <3> QED
      BY <3>1, StoredMeans DEF Present, Holds
  <2> QED
    BY <2>1 DEF GroupsInOrder, OrderInv, InOrder
<1> QED
  BY <1>1, OrderInvariant, PTL

(* No step of a writer, a merge's deletes among them and wherever it dies,  *)
(* leaves a row group of a closed file in no object (pack.py:148-160).      *)
THEOREM NoGroupVanishes == Spec => NothingVanishes
<1>1. OrderInv /\ [Next]_vars =>
          [\A g \in 1 .. written : Stored(g) => Stored(g)']_vars
  BY StoredStays
<1> QED
  BY <1>1, OrderInvariant, PTL DEF Spec, NothingVanishes
===============================================================================
