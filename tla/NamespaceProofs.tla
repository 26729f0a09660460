--------------------------- MODULE NamespaceProofs ---------------------------
(***************************************************************************)
(* Proofs about Namespace.tla: inodes stand for files (InodesAgree,        *)
(* InodeKeepsFile) and new files get the name the user wants               *)
(* (CreatedAsNamed), also across crashes, with any listings, polls, moves  *)
(* and lost answers.  Two disturbances are ruled out: the rename of a new  *)
(* file while it is uploaded, when rename_pending writes back a row that   *)
(* finalize_new_file has moved away, and the use of one placeholder id for *)
(* two files, when the second gets a row with the inode of the first.      *)
(***************************************************************************)
EXTENDS WellFoundedInduction, Namespace, TLAPS

-----------------------------------------------------------------------------
(* The inductive invariant.                                                 *)

UploaderStates ==
    [phase : {"idle", "settle", "send", "finalize", "replace", "abandon",
              "forget"},
     pid : PendingIds \cup {NoId}, to : Places \cup {NoRow},
     newId : SpareIds \cup {NoId}]
RenameStates ==
    [pid : PendingIds \cup {NoId}, row : Rows \cup {NoRow},
     to : Places \cup {NoRow}]

\* The types of all but the listings and the names that are shown.
Typed ==
    /\ drive \in [DriveIds -> Places \cup {NoRow}]
    /\ inoOf \in [Ids -> 0..MaxIno]
    /\ idAt \in [Inodes -> Ids \cup {NoId}]
    /\ nextIno \in 1..MaxIno + 1
    /\ named \in [PendingIds -> RawNames \cup {NoName}]
    /\ home \in [PendingIds -> Folders \cup {NoFolder}]
    /\ row \in [Ids -> Rows \cup {NoRow}]
    /\ opened \subseteq PendingIds
    /\ rename \in RenameStates
    /\ uploader \in UploaderStates
    /\ wanted \in [PendingIds -> Places \cup {NoRow}]
    /\ copies \in [PendingIds -> SUBSET DriveIds]

Stored(id) == row[id] # NoRow
Made(id) == \E pid \in PendingIds : id \in copies[pid]

\* The two maps in memory agree, and numbers not given out stand for nothing.
Maps ==
    /\ \A id \in Ids : inoOf[id] # 0 => inoOf[id] < nextIno /\ idAt[inoOf[id]] = id
    /\ \A ino \in Inodes : nextIno <= ino => idAt[ino] = NoId

\* A restart finds in the rows numbers that were given out, each of them once.
RowsNumbered == \A id \in Ids : Stored(id) => row[id].ino < nextIno
OneRowEach ==
    \A a, b \in Ids : Stored(a) /\ Stored(b) /\ a # b => row[a].ino # row[b].ino

\* A placeholder that is on its way out of the maps.
Leaving(id) == uploader.phase \in {"replace", "forget"} /\ id = uploader.pid

\* Drive had the file and will never have it again.
Gone(id) ==
    /\ id \in DriveIds /\ drive[id] = NoRow
    /\ id \in OldFiles \/ Made(id)

\* A file that may yet get a row has no number that is in the row of another.
Apart ==
    \A a, b \in Ids :
        Stored(a) /\ ~Stored(b) /\ inoOf[b] # 0 /\ row[a].ino = inoOf[b]
            => Leaving(b) \/ Gone(b)

CreatedOnes ==
    \A id \in SpareIds : drive[id] # NoRow \/ Stored(id) => Made(id)

\* What the uploader may rely on at each stage.
UploaderStage ==
    /\ uploader.phase = "idle" => uploader = Resting
    /\ uploader.phase # "idle" => uploader.pid \in PendingIds
    /\ uploader.phase \in {"settle", "send", "finalize", "abandon"} =>
          Stored(uploader.pid)
    /\ uploader.phase \in {"finalize", "replace"} =>
          uploader.newId \in copies[uploader.pid] /\ uploader.newId \in SpareIds
    /\ uploader.phase = "replace" =>
          Stored(uploader.newId) \/ drive[uploader.newId] = NoRow
    /\ uploader.phase = "forget" => ~Stored(uploader.pid)
    /\ uploader.phase = "send" => uploader.to = wanted[uploader.pid]

\* A file that is still being written has no row, and nobody uploads it.
OpenedUnsaved ==
    \A pid \in opened :
        /\ ~Stored(pid) /\ uploader.pid # pid
        /\ Place(named[pid], home[pid]) = wanted[pid]

\* The callback that stores a renamed placeholder finds the row it has read.
RenameStage ==
    rename # NoRename =>
        /\ rename.pid \in PendingIds /\ Stored(rename.pid)
        /\ uploader.pid # rename.pid
        /\ rename.row \in Rows /\ rename.row.dirty
        /\ rename.to \in Places /\ rename.to = wanted[rename.pid]

\* The row of a placeholder is dirty and says what the user wants.
RowsWanted ==
    \A pid \in PendingIds : Stored(pid) =>
        /\ row[pid].dirty
        /\ Place(row[pid].name, row[pid].parent) \in Places \cup {NoRow}
        /\ \/ rename.pid = pid
           \/ Place(row[pid].name, row[pid].parent) = wanted[pid]

\* What concerns numbers, and what concerns the way of a new file to Drive.
Numbers == Maps /\ RowsNumbered /\ OneRowEach /\ Apart
Arrivals ==
    /\ CreatedOnes /\ UploaderStage /\ OpenedUnsaved /\ RenameStage
    /\ RowsWanted

IndInv == Typed /\ Numbers /\ Arrivals

\* A placeholder that is worked on is one whose handle was given out.
HandedOut ==
    \A pid \in PendingIds :
        Stored(pid) \/ pid \in opened \/ uploader.pid = pid => pid \in mounted

\* What every proof about the number of a file needs.
LEMMA Kinds ==
    /\ NoId \notin Ids /\ NoRow \notin Places /\ NoRow \notin Rows
    /\ PendingIds \subseteq Ids /\ DriveIds \subseteq Ids
    /\ OldFiles \subseteq DriveIds /\ SpareIds \subseteq DriveIds
    /\ DriveIds \cap PendingIds = {} /\ Ids = DriveIds \cup PendingIds
    /\ MaxIno \in Nat /\ MaxIno >= 1 /\ 0 \notin Inodes
    /\ \A name, parent : Place(name, parent) = [name |-> name, parent |-> parent]
BY NamesAssumption, BoundsAssumption, RowsAssumption
   DEF Ids, DriveIds, Inodes, Place

-----------------------------------------------------------------------------
(* Numbers are given out once (get_or_alloc_ino).                           *)

\* get_or_alloc_ino keeps the number of every file that has one, gives the
\* next number to a file that has none, and lets the maps agree.
LEMMA NumberStep ==
    ASSUME Typed, Maps, NEW id \in Ids, Number(id)
    PROVE  /\ inoOf' \in [Ids -> 0..MaxIno]
           /\ idAt' \in [Inodes -> Ids \cup {NoId}]
           /\ nextIno' \in 1..MaxIno + 1 /\ nextIno <= nextIno'
           /\ \A a \in Ids \ {id} : inoOf'[a] = inoOf[a]
           /\ inoOf'[id] = IF inoOf[id] # 0 THEN inoOf[id] ELSE nextIno
           /\ inoOf'[id] \in Inodes /\ inoOf'[id] < nextIno'
           /\ Maps'
           /\ \A ino \in Inodes : idAt[ino] # NoId => idAt'[ino] = idAt[ino]
<1>1. CASE inoOf[id] # 0
    <2>1. UNCHANGED <<inoOf, idAt, nextIno>>
        BY <1>1 DEF Number, inodes
    <2>2. Maps'
        BY <2>1 DEF Maps
    <2>3. inoOf[id] \in Inodes /\ inoOf[id] < nextIno
        BY <1>1, Kinds DEF Typed, Maps, Inodes
    <2> QED
        BY <1>1, <2>1, <2>2, <2>3 DEF Typed
<1>2. CASE inoOf[id] = 0
    <2>1. /\ nextIno <= MaxIno
          /\ inoOf' = [inoOf EXCEPT ![id] = nextIno]
          /\ idAt' = [idAt EXCEPT ![nextIno] = id]
          /\ nextIno' = nextIno + 1
        BY <1>2 DEF Number
    <2>2. nextIno \in Inodes /\ nextIno \in Nat /\ nextIno # 0
        BY <2>1, Kinds DEF Typed, Inodes
    <2>3. /\ \A a \in Ids : inoOf[a] \in Nat
          /\ \A ino \in Inodes : ino \in Nat
        BY Kinds DEF Typed, Inodes
    <2>4. /\ inoOf' \in [Ids -> 0..MaxIno]
          /\ idAt' \in [Inodes -> Ids \cup {NoId}]
          /\ nextIno' \in 1..MaxIno + 1 /\ nextIno <= nextIno'
        BY <2>1, <2>2, Kinds DEF Typed, Inodes
    <2>5. /\ \A a \in Ids \ {id} : inoOf'[a] = inoOf[a]
          /\ inoOf'[id] = nextIno
          /\ idAt'[nextIno] = id
          /\ \A ino \in Inodes \ {nextIno} : idAt'[ino] = idAt[ino]
        BY <2>1, <2>2 DEF Typed
    <2>6. idAt[nextIno] = NoId
        BY <2>2 DEF Maps
    <2>7. ASSUME NEW a \in Ids, inoOf'[a] # 0
          PROVE  inoOf'[a] < nextIno' /\ idAt'[inoOf'[a]] = a
        <3>1. CASE a = id
            BY <3>1, <2>1, <2>2, <2>5
        <3>2. CASE a # id
            <4>1. inoOf[a] # 0 /\ inoOf'[a] = inoOf[a]
                BY <3>2, <2>5, <2>7
            <4>2. inoOf[a] < nextIno /\ idAt[inoOf[a]] = a /\ inoOf[a] \in Inodes
                BY <4>1, Kinds DEF Maps, Typed, Inodes
            <4> QED
                BY <4>1, <4>2, <2>1, <2>2, <2>3, <2>5
        <3> QED
            BY <3>1, <3>2
    <2>8. ASSUME NEW ino \in Inodes, nextIno' <= ino
          PROVE  idAt'[ino] = NoId
        BY <2>8, <2>1, <2>2, <2>3, <2>5 DEF Maps
    <2>9. Maps'
        BY <2>7, <2>8 DEF Maps
    <2> QED
        BY <1>2, <2>1, <2>2, <2>4, <2>5, <2>6, <2>9
<1> QED
    BY <1>1, <1>2

\* A number given out without a change of the rows, or of Drive, disturbs none
\* of what is said of numbers.
LEMMA NumberOnly ==
    ASSUME Typed, Numbers, NEW id \in Ids, Number(id), UNCHANGED row,
           \A b \in Ids : Leaving(b) => Leaving(b)',
           \A b \in Ids : Gone(b) => Gone(b)'
    PROVE  Numbers'
<1>1. Maps
    BY DEF Numbers
<1>2. /\ Maps' /\ nextIno <= nextIno' /\ nextIno \in Nat /\ nextIno' \in Nat
      /\ \A a \in Ids \ {id} : inoOf'[a] = inoOf[a]
      /\ inoOf'[id] = IF inoOf[id] # 0 THEN inoOf[id] ELSE nextIno
    BY <1>1, NumberStep DEF Typed
<1>3. \A a \in Ids : Stored(a) => row[a].ino < nextIno /\ row[a].ino \in Nat
    BY DEF Numbers, RowsNumbered, Stored, Typed, Rows, Inodes
<1>4. RowsNumbered'
    BY <1>2, <1>3 DEF RowsNumbered, Stored
<1>5. OneRowEach'
    BY DEF Numbers, OneRowEach, Stored
<1>6. ASSUME NEW a \in Ids, NEW b \in Ids, Stored(a)', ~Stored(b)', inoOf'[b] # 0,
             row'[a].ino = inoOf'[b]
      PROVE  Leaving(b)' \/ Gone(b)'
    <2>1. inoOf'[b] = inoOf[b]
        BY <1>2, <1>3, <1>6 DEF Stored
    <2> QED
        BY <2>1, <1>6 DEF Numbers, Apart, Stored
<1>7. Apart'
    BY <1>6 DEF Apart
<1> QED
    BY <1>2, <1>4, <1>5, <1>7 DEF Numbers

\* The same when nothing at all is given out.
LEMMA NumbersKept ==
    ASSUME Typed, Numbers, UNCHANGED <<inodes, row>>,
           \A b \in Ids : Leaving(b) => Leaving(b)',
           \A b \in Ids : Gone(b) => Gone(b)'
    PROVE  Numbers'
<1>1. UNCHANGED <<inoOf, idAt, nextIno, row>>
    BY DEF inodes
<1>2. Maps' /\ RowsNumbered' /\ OneRowEach'
    BY <1>1 DEF Numbers, Maps, RowsNumbered, OneRowEach, Stored
<1>3. Apart'
    BY <1>1 DEF Numbers, Apart, Stored
<1> QED
    BY <1>2, <1>3 DEF Numbers

\* The upsert of a row: a new row gets the number of its file, an old one keeps
\* its own.
LEMMA Upserted ==
    ASSUME Typed, Numbers, NEW id \in Ids, Number(id), NEW r, r # NoRow,
           row' = [row EXCEPT ![id] = r],
           r.ino = IF Stored(id) THEN row[id].ino ELSE inoOf'[id],
           ~Stored(id) => ~Leaving(id) /\ ~Gone(id),
           \A b \in Ids : Leaving(b) => Leaving(b)',
           \A b \in Ids : Gone(b) => Gone(b)'
    PROVE  Numbers'
<1>1. Maps
    BY DEF Numbers
<1>2. /\ Maps' /\ nextIno <= nextIno' /\ nextIno \in Nat /\ nextIno' \in Nat
      /\ \A a \in Ids \ {id} : inoOf'[a] = inoOf[a]
      /\ inoOf'[id] = IF inoOf[id] # 0 THEN inoOf[id] ELSE nextIno
      /\ inoOf'[id] \in Inodes /\ inoOf'[id] < nextIno'
    BY <1>1, NumberStep DEF Typed
<1>3. \A a \in Ids : Stored(a) => row[a].ino < nextIno /\ row[a].ino \in Nat
    BY DEF Numbers, RowsNumbered, Stored, Typed, Rows, Inodes
<1>4. /\ \A a \in Ids \ {id} : row'[a] = row[a]
      /\ row'[id] = r /\ Stored(id)'
      /\ \A a \in Ids \ {id} : Stored(a)' <=> Stored(a)
    BY DEF Typed, Stored
<1>5. RowsNumbered'
    BY <1>2, <1>3, <1>4 DEF RowsNumbered, Inodes
<1>6. \A a \in Ids \ {id} : Stored(a) => row[a].ino # r.ino
    <2> SUFFICES ASSUME NEW a \in Ids \ {id}, Stored(a)
                 PROVE  row[a].ino # r.ino
        OBVIOUS
    <2>1. CASE Stored(id)
        BY <2>1 DEF Numbers, OneRowEach
    <2>2. CASE ~Stored(id) /\ inoOf[id] # 0
        BY <2>2, <1>2 DEF Numbers, Apart
    <2>3. CASE ~Stored(id) /\ inoOf[id] = 0
        BY <2>3, <1>2, <1>3
    <2> QED
        BY <2>1, <2>2, <2>3
<1>7. OneRowEach'
    BY <1>4, <1>6 DEF Numbers, OneRowEach
<1>8. ASSUME NEW a \in Ids, NEW b \in Ids, Stored(a)', ~Stored(b)', inoOf'[b] # 0,
             row'[a].ino = inoOf'[b]
      PROVE  Leaving(b)' \/ Gone(b)'
    <2>1. b # id /\ inoOf'[b] = inoOf[b] /\ ~Stored(b)
        BY <1>2, <1>4, <1>8
    <2>2. CASE a # id
        BY <2>1, <2>2, <1>4, <1>8 DEF Numbers, Apart
    <2>3. CASE a = id /\ Stored(id)
        BY <2>1, <2>3, <1>4, <1>8 DEF Numbers, Apart
    <2>4. CASE a = id /\ ~Stored(id)
        <3>1. inoOf'[id] = inoOf'[b] /\ inoOf'[b] # 0
            BY <2>4, <1>4, <1>8
        <3> QED
            BY <3>1, <2>1, <1>2 DEF Maps
    <2> QED
        BY <2>2, <2>3, <2>4
<1>9. Apart'
    BY <1>8 DEF Apart
<1> QED
    BY <1>2, <1>5, <1>7, <1>9 DEF Numbers

\* A row that goes away, of a file that will never have one again, or is on its
\* way out of the maps.
LEMMA RowDropped ==
    ASSUME Typed, Numbers, NEW id \in Ids, UNCHANGED inodes,
           row' = [row EXCEPT ![id] = NoRow],
           Leaving(id)' \/ Gone(id)',
           \A b \in Ids : Leaving(b) => Leaving(b)',
           \A b \in Ids : Gone(b) => Gone(b)'
    PROVE  Numbers'
<1>1. UNCHANGED <<inoOf, idAt, nextIno>>
    BY DEF inodes
<1>2. /\ \A a \in Ids \ {id} : row'[a] = row[a]
      /\ ~Stored(id)'
      /\ \A a \in Ids \ {id} : Stored(a)' <=> Stored(a)
    BY DEF Typed, Stored
<1>3. Maps'
    BY <1>1 DEF Numbers, Maps
<1>4. RowsNumbered' /\ OneRowEach'
    BY <1>1, <1>2 DEF Numbers, RowsNumbered, OneRowEach
<1>5. Apart'
    BY <1>1, <1>2 DEF Numbers, Apart
<1> QED
    BY <1>3, <1>4, <1>5 DEF Numbers

\* The row of a placeholder moves to the real id with its number.
LEMMA RowMoved ==
    ASSUME Typed, Numbers, NEW old \in Ids, NEW new \in Ids, UNCHANGED inodes,
           Stored(old), ~Stored(new), NEW r, r # NoRow, r.ino = row[old].ino,
           row' = [row EXCEPT ![old] = NoRow, ![new] = r],
           Leaving(old)',
           \A b \in Ids : Leaving(b) => Leaving(b)',
           \A b \in Ids : Gone(b) => Gone(b)'
    PROVE  Numbers'
<1>1. UNCHANGED <<inoOf, idAt, nextIno>>
    BY DEF inodes
<1>2. /\ old # new
      /\ \A a \in Ids \ {old, new} : row'[a] = row[a]
      /\ row'[new] = r /\ Stored(new)' /\ ~Stored(old)'
      /\ \A a \in Ids \ {old, new} : Stored(a)' <=> Stored(a)
    BY DEF Typed, Stored
<1>3. Maps'
    BY <1>1 DEF Numbers, Maps
<1>4. RowsNumbered'
    BY <1>1, <1>2 DEF Numbers, RowsNumbered
<1>5. OneRowEach'
    <2>1. /\ \A a \in Ids \ {new} : Stored(a)' => Stored(a) /\ row'[a] = row[a]
          /\ \A a \in Ids \ {old} : Stored(a) => row[a].ino # row[old].ino
        BY <1>2 DEF Numbers, OneRowEach, Stored
    <2>2. \A a \in Ids \ {new} : Stored(a)' => row'[a].ino # row'[new].ino
        BY <1>2, <2>1
    <2>3. \A a, b \in Ids \ {new} :
             Stored(a)' /\ Stored(b)' /\ a # b => row'[a].ino # row'[b].ino
        BY <2>1 DEF Numbers, OneRowEach
    <2> QED
        BY <2>2, <2>3 DEF OneRowEach
<1>6. ASSUME NEW a \in Ids, NEW b \in Ids, Stored(a)', ~Stored(b)', inoOf'[b] # 0,
             row'[a].ino = inoOf'[b]
      PROVE  Leaving(b)' \/ Gone(b)'
    <2>1. CASE b = old
        BY <2>1
    <2>2. CASE b # old
        <3>1. ~Stored(b) /\ inoOf[b] # 0 /\ b # new
            BY <2>2, <1>1, <1>2, <1>6
        <3>2. CASE a = new
            BY <3>1, <3>2, <1>1, <1>2, <1>6 DEF Numbers, Apart
        <3>3. CASE a # new
            BY <3>1, <3>3, <1>1, <1>2, <1>6 DEF Numbers, Apart
        <3> QED
            BY <3>2, <3>3
    <2> QED
        BY <2>1, <2>2
<1>7. Apart'
    BY <1>6 DEF Apart
<1> QED
    BY <1>3, <1>4, <1>5, <1>7 DEF Numbers

\* A set of numbers has a least one.
LEMMA LeastNumber ==
    ASSUME NEW T \in SUBSET Nat, NEW n \in T
    PROVE  \E m \in T : \A k \in T : m <= k
<1> DEFINE Less == {ss \in Nat \X Nat : ss[1] < ss[2]}
<1>1. IsWellFoundedOn(Less, Nat)
    BY NatLessThanWellFounded DEF OpToRel
<1> HIDE DEF Less
<1>2. PICK m \in T : \A k \in T : <<k, m>> \notin Less
    BY <1>1, WFMin
<1>3. ASSUME NEW k \in T
      PROVE  m <= k
    <2>1. ~(k < m)
        BY <1>2 DEF Less
    <2> QED
        BY <2>1
<1> QED
    BY <1>3

\* Numbering goes on after the largest number in the rows, which exists.
LEMMA NextNumber ==
    ASSUME NEW inos \in SUBSET Inodes
    PROVE  \E n \in 1..MaxIno + 1 :
              /\ \A ino \in inos \cup {FirstIno - 1} : ino < n
              /\ n - 1 \in inos \cup {FirstIno - 1}
<1> DEFINE Taken == inos \cup {FirstIno - 1}
           Above == {n \in 1..MaxIno + 1 : \A ino \in Taken : ino < n}
<1>1. Taken \subseteq 1..MaxIno /\ 1 \in Taken
    BY Kinds DEF Inodes, FirstIno
<1>2. MaxIno + 1 \in Above /\ Above \in SUBSET Nat
    BY <1>1, Kinds
<1>3. PICK n \in Above : \A k \in Above : n <= k
    BY <1>2, LeastNumber
<1>4. n \in 1..MaxIno + 1 /\ \A ino \in Taken : ino < n
    OBVIOUS
<1>5. n - 1 \in Taken
    <2> SUFFICES ASSUME n - 1 \notin Taken
                 PROVE  FALSE
        OBVIOUS
    <2>1. n > 1
        BY <1>1, <1>4
    <2>2. n - 1 \in 1..MaxIno + 1
        BY <1>4, <2>1, Kinds
    <2>3. \A ino \in Taken : ino < n - 1
        BY <1>1, <1>4, Kinds
    <2>4. n - 1 \in Above
        BY <2>2, <2>3
    <2> QED
        BY <2>4, <1>3, <1>4, Kinds
<1> QED
    BY <1>4, <1>5

\* load_inode_map gives out the numbers of the rows and goes on after them.
LEMMA RestoredTyped ==
    ASSUME Typed, Restored
    PROVE  /\ inoOf' \in [Ids -> 0..MaxIno]
           /\ idAt' \in [Inodes -> Ids \cup {NoId}]
           /\ nextIno' \in 1..MaxIno + 1
           /\ \A id \in Ids : Stored(id) =>
                 row[id].ino \in Inodes /\ row[id].ino < nextIno'
<1> DEFINE kept == {id \in Ids : row[id] # NoRow}
           inos == {row[id].ino : id \in kept}
<1>1. \A id \in kept : row[id].ino \in Inodes
    BY DEF Typed, Rows
<1>2. inos \in SUBSET Inodes
    BY <1>1
<1>3. /\ inoOf' = [id \in Ids |-> IF id \in kept THEN row[id].ino ELSE 0]
      /\ idAt' = [ino \in Inodes |->
            IF ino \in inos THEN CHOOSE id \in kept : row[id].ino = ino ELSE NoId]
      /\ nextIno' = CHOOSE n \in 1..MaxIno + 1 :
            /\ \A ino \in inos \cup {FirstIno - 1} : ino < n
            /\ n - 1 \in inos \cup {FirstIno - 1}
    BY DEF Restored
<1>4. /\ nextIno' \in 1..MaxIno + 1
      /\ \A ino \in inos \cup {FirstIno - 1} : ino < nextIno'
    <2> HIDE DEF inos
    <2> QED
        BY <1>2, <1>3, NextNumber
<1>5. inoOf' \in [Ids -> 0..MaxIno]
    BY <1>1, <1>3, Kinds DEF Inodes
<1>6. idAt' \in [Inodes -> Ids \cup {NoId}]
    <2>1. \A ino \in inos : (CHOOSE id \in kept : row[id].ino = ino) \in Ids
        OBVIOUS
    <2> QED
        BY <2>1, <1>3
<1> QED
    BY <1>1, <1>4, <1>5, <1>6 DEF Stored

\* It puts the two maps together from rows of different numbers.
LEMMA RestoredMaps ==
    ASSUME Typed, OneRowEach, Restored
    PROVE  /\ inoOf' \in [Ids -> 0..MaxIno]
           /\ idAt' \in [Inodes -> Ids \cup {NoId}]
           /\ nextIno' \in 1..MaxIno + 1
           /\ Maps'
           /\ \A id \in Ids : Stored(id) => row[id].ino < nextIno'
           /\ \A id \in Ids : inoOf'[id] = IF Stored(id) THEN row[id].ino ELSE 0
<1> DEFINE kept == {id \in Ids : row[id] # NoRow}
           inos == {row[id].ino : id \in kept}
<1>1. /\ inoOf' \in [Ids -> 0..MaxIno]
      /\ idAt' \in [Inodes -> Ids \cup {NoId}]
      /\ nextIno' \in 1..MaxIno + 1
      /\ \A id \in Ids : Stored(id) =>
            row[id].ino \in Inodes /\ row[id].ino < nextIno'
    BY RestoredTyped
<1>2. inos \in SUBSET Inodes
    BY <1>1 DEF Stored
<1>3. /\ inoOf' = [id \in Ids |-> IF id \in kept THEN row[id].ino ELSE 0]
      /\ idAt' = [ino \in Inodes |->
            IF ino \in inos THEN CHOOSE id \in kept : row[id].ino = ino ELSE NoId]
    BY DEF Restored
<1>4. nextIno' \in 1..MaxIno + 1 /\ \A ino \in inos : ino < nextIno'
    BY <1>1 DEF Stored
<1>5. inoOf' \in [Ids -> 0..MaxIno]
    BY <1>1
<1>6. idAt' \in [Inodes -> Ids \cup {NoId}]
    BY <1>1
<1>7. ASSUME NEW id \in Ids, inoOf'[id] # 0
      PROVE  inoOf'[id] < nextIno' /\ idAt'[inoOf'[id]] = id
    <2>1. id \in kept /\ inoOf'[id] = row[id].ino /\ row[id].ino \in inos
        BY <1>3, <1>7
    <2>2. \A a \in kept : row[a].ino = row[id].ino => a = id
        BY <2>1 DEF OneRowEach, Stored
    <2>3. (CHOOSE a \in kept : row[a].ino = row[id].ino) = id
        BY <2>1, <2>2
    <2>4. idAt'[row[id].ino] = id
        BY <1>2, <1>3, <2>1, <2>3
    <2> QED
        BY <2>1, <2>4, <1>4
<1>8. ASSUME NEW ino \in Inodes, nextIno' <= ino
      PROVE  idAt'[ino] = NoId
    <2>1. ino \in Nat /\ nextIno' \in Nat
        BY <1>4, Kinds DEF Inodes
    <2>2. ino \notin inos
        BY <1>4, <1>8, <2>1
    <2> QED
        BY <2>2, <1>3
<1>9. \A id \in Ids : Stored(id) => row[id].ino < nextIno'
    BY <1>4 DEF Stored
<1>10. \A id \in Ids : inoOf'[id] = IF Stored(id) THEN row[id].ino ELSE 0
    BY <1>3 DEF Stored
<1> QED
    BY <1>4, <1>5, <1>6, <1>7, <1>8, <1>9, <1>10 DEF Maps

\* So all that is said of numbers holds of what a restart finds.
LEMMA NumbersRestored ==
    ASSUME Typed, Numbers, Restored, UNCHANGED row
    PROVE  Numbers'
<1>1. /\ Maps'
      /\ \A id \in Ids : Stored(id) => row[id].ino < nextIno'
      /\ \A id \in Ids : inoOf'[id] = IF Stored(id) THEN row[id].ino ELSE 0
    BY RestoredMaps DEF Numbers
<1>2. RowsNumbered' /\ OneRowEach' /\ Apart'
    BY <1>1 DEF Numbers, RowsNumbered, OneRowEach, Apart, Stored
<1> QED
    BY <1>1, <1>2 DEF Numbers

-----------------------------------------------------------------------------
(* The invariant is kept: FUSE callbacks.                                   *)

\* A new file is not renamed while it is uploaded.
RenamesWait == "rename" \notin Disturbances
\* No placeholder id is given out a second time.
IdsFresh == "reuse" \notin Disturbances

\* What is said of the way of a new file to Drive is of these variables only.
LEMMA ArrivalsKept ==
    ASSUME Arrivals,
           UNCHANGED <<drive, row, named, home, opened, rename, uploader, wanted,
                       copies>>
    PROVE  Arrivals'
BY DEF Arrivals, CreatedOnes, UploaderStage, OpenedUnsaved, RenameStage, RowsWanted,
       Stored, Made

\* Steps of the fetch, and of those who look at a listing.
LEMMA ListingStep ==
    ASSUME IndInv,
           \/ \E d \in Folders : Ask(d)
           \/ Merge \/ Install \/ UNCHANGED vars
    PROVE  IndInv'
<1>1. UNCHANGED <<drive, inodes, named, home, row, opened, rename, uploader, wanted,
                  copies>>
    BY DEF Ask, Merge, Install, vars, memory
<1>2. UNCHANGED <<drive, inoOf, idAt, nextIno, named, home, row, opened, rename,
                  uploader, wanted, copies>>
    BY <1>1 DEF inodes
<1>3. Typed'
    BY <1>2 DEF IndInv, Typed
<1>4. Numbers'
    BY <1>2, NumbersKept DEF IndInv, Leaving, Gone, Made, inodes
<1>5. Arrivals'
    BY <1>2, ArrivalsKept DEF IndInv
<1> QED
    BY <1>3, <1>4, <1>5 DEF IndInv

LEMMA NumberListedStep ==
    ASSUME IndInv, NEW id \in Ids, Number(id),
           UNCHANGED <<drive, named, home, row, opened, rename, uploader, wanted,
                       copies>>
    PROVE  IndInv'
<1>1. Maps
    BY DEF IndInv, Numbers
<1>2. Typed'
    BY <1>1, NumberStep DEF IndInv, Typed
<1>3. Numbers'
    BY NumberOnly DEF IndInv, Leaving, Gone, Made
<1>4. Arrivals'
    BY ArrivalsKept DEF IndInv
<1> QED
    BY <1>2, <1>3, <1>4 DEF IndInv

LEMMA CreateStep ==
    ASSUME IndInv, HandedOut, NEW pid \in PendingIds, NEW d \in Folders,
           NEW name \in RawNames, Create(pid, d, name)
    PROVE  IndInv'
<1>1. /\ ~Stored(pid) /\ uploader.pid # pid /\ Number(pid)
      /\ opened' = opened \cup {pid}
      /\ named' = [named EXCEPT ![pid] = name]
      /\ home' = [home EXCEPT ![pid] = d]
      /\ wanted' = [wanted EXCEPT ![pid] = Place(name, d)]
      /\ UNCHANGED <<drive, row, rename, uploader, copies>>
    BY DEF Create, HandedOut
<1>2. Maps /\ pid \in Ids
    BY Kinds DEF IndInv, Numbers
<1>3. Typed'
    <2>1. Place(name, d) \in Places
        BY DEF Place, Places
    <2>2. inoOf' \in [Ids -> 0..MaxIno] /\ idAt' \in [Inodes -> Ids \cup {NoId}]
          /\ nextIno' \in 1..MaxIno + 1
        BY <1>1, <1>2, NumberStep DEF IndInv
    <2> QED
        BY <1>1, <2>1, <2>2 DEF IndInv, Typed
<1>4. Numbers'
    BY <1>1, <1>2, NumberOnly DEF IndInv, Leaving, Gone, Made
<1>5. rename # NoRename => rename.pid # pid
    BY <1>1 DEF IndInv, Arrivals, RenameStage
<1>6. /\ \A p \in PendingIds \ {pid} : named'[p] = named[p] /\ home'[p] = home[p]
                                        /\ wanted'[p] = wanted[p]
      /\ named'[pid] = name /\ home'[pid] = d /\ wanted'[pid] = Place(name, d)
    BY <1>1 DEF IndInv, Typed
<1>7. CreatedOnes'
    BY <1>1 DEF IndInv, Arrivals, CreatedOnes, Stored, Made
<1>8. UploaderStage'
    BY <1>1, <1>6 DEF IndInv, Arrivals, UploaderStage, Stored
<1>9. OpenedUnsaved'
    BY <1>1, <1>6 DEF IndInv, Arrivals, OpenedUnsaved, Stored, Typed
<1>10. RenameStage'
    BY <1>1, <1>5, <1>6 DEF IndInv, Arrivals, RenameStage, Stored
<1>11. RowsWanted'
    BY <1>1, <1>6 DEF IndInv, Arrivals, RowsWanted, Stored
<1> QED
    BY <1>3, <1>4, <1>7, <1>8, <1>9, <1>10, <1>11 DEF IndInv, Arrivals

LEMMA ReleaseStep ==
    ASSUME IndInv, NEW pid \in PendingIds, Release(pid)
    PROVE  IndInv'
<1> DEFINE live == Live(pid)
           r == [name |-> live.name, parent |-> live.parent, dirty |-> TRUE,
                 ino |-> IF row[pid] = NoRow THEN inoOf'[pid] ELSE row[pid].ino]
<1>1. /\ pid \in opened /\ rename = NoRename /\ Number(pid)
      /\ opened' = opened \ {pid}
      /\ row' = [row EXCEPT ![pid] = r]
      /\ UNCHANGED <<drive, named, home, rename, uploader, wanted, copies>>
    BY DEF Release, memory, EventLoopFree
<1>2. Maps /\ pid \in Ids /\ Typed
    BY Kinds DEF IndInv, Numbers
<1>3. /\ ~Stored(pid) /\ uploader.pid # pid
      /\ live = Place(named[pid], home[pid]) /\ live = wanted[pid]
    BY <1>1 DEF IndInv, Arrivals, OpenedUnsaved, Live
<1> HIDE DEF live
<1>4. /\ inoOf' \in [Ids -> 0..MaxIno] /\ idAt' \in [Inodes -> Ids \cup {NoId}]
      /\ nextIno' \in 1..MaxIno + 1 /\ inoOf'[pid] \in Inodes
    BY <1>1, <1>2, NumberStep
<1>5. r \in Rows /\ r # NoRow /\ r.ino = inoOf'[pid] /\ r.dirty
      /\ r.name = named[pid] /\ r.parent = home[pid]
    <2>1. row[pid] = NoRow
        BY <1>3 DEF Stored
    <2>2. /\ live.name = named[pid] /\ live.parent = home[pid]
          /\ live.name \in RawNames \cup {NoName}
          /\ live.parent \in Folders \cup {NoFolder}
        BY <1>2, <1>3 DEF Typed, Place
    <2>3. r \in Rows
        BY <2>1, <2>2, <1>4 DEF Rows
    <2> QED
        BY <2>1, <2>2, <2>3, Kinds
<1> HIDE DEF r
<1>6. Typed'
    BY <1>1, <1>2, <1>4, <1>5 DEF Typed
<1>7. pid \notin DriveIds
    BY Kinds
<1>8. Numbers'
    BY <1>1, <1>2, <1>3, <1>5, <1>7, Upserted DEF IndInv, Leaving, Gone, Made
<1>9. /\ \A a \in Ids \ {pid} : row'[a] = row[a]
      /\ row'[pid] = r
    BY <1>1, <1>2 DEF Typed
<1>10. \A a \in Ids : Stored(a)' <=> Stored(a) \/ a = pid
    BY <1>5, <1>9 DEF Stored
<1>11. CreatedOnes'
    BY <1>1, <1>7, <1>10, Kinds DEF IndInv, Arrivals, CreatedOnes, Made
<1>12. UploaderStage'
    BY <1>1, <1>2, <1>3, <1>10, Kinds DEF IndInv, Arrivals, UploaderStage
<1>13. OpenedUnsaved'
    BY <1>1, <1>2, <1>10, Kinds DEF Typed, IndInv, Arrivals, OpenedUnsaved
<1>14. RenameStage'
    BY <1>1 DEF RenameStage
<1>15. RowsWanted'
    <2>1. Place(r.name, r.parent) = wanted[pid] /\ wanted[pid] \in Places \cup {NoRow}
        BY <1>2, <1>3, <1>5 DEF Typed, Place
    <2>2. \A q \in PendingIds \ {pid} : q \in Ids /\ row'[q] = row[q]
        BY <1>9, Kinds
    <2> QED
        BY <2>1, <2>2, <1>1, <1>2, <1>5, <1>9, <1>10
           DEF IndInv, Arrivals, RowsWanted
<1> QED
    BY <1>6, <1>8, <1>11, <1>12, <1>13, <1>14, <1>15 DEF IndInv, Arrivals

LEMMA RenamePendingStep ==
    ASSUME IndInv, RenamesWait, NEW pid \in PendingIds, NEW d \in Folders,
           NEW name \in RawNames, RenamePending(pid, d, name)
    PROVE  IndInv'
<1> DEFINE p == Place(name, d)
<1>1. /\ rename = NoRename /\ ~Uploading(pid)
      /\ named' = [named EXCEPT ![pid] = name]
      /\ home' = [home EXCEPT ![pid] = d]
      /\ rename' = IF row[pid] = NoRow THEN NoRename
                   ELSE [pid |-> pid, row |-> row[pid], to |-> p]
      /\ wanted' = [wanted EXCEPT ![pid] = p]
      /\ UNCHANGED <<drive, inodes, row, opened, uploader, copies>>
    BY DEF RenamePending, RenamesWait, EventLoopFree
<1>2. UNCHANGED <<inoOf, idAt, nextIno>>
    BY <1>1 DEF inodes
<1>3. p \in Places /\ p = Place(name, d)
    BY DEF Place, Places
<1> HIDE DEF p
<1>4. Typed /\ pid \in Ids /\ (row[pid] = NoRow \/ row[pid] \in Rows)
    BY Kinds DEF IndInv, Typed
<1>5. Typed'
    BY <1>1, <1>2, <1>3, <1>4 DEF Typed, RenameStates, NoRename
<1>6. Numbers'
    BY <1>1, <1>4, NumbersKept DEF IndInv, Leaving, Gone, Made
<1>7. uploader.pid # pid
    BY <1>1, Kinds DEF IndInv, Arrivals, UploaderStage, Uploading, Resting
<1>8. /\ \A q \in PendingIds \ {pid} : named'[q] = named[q] /\ home'[q] = home[q]
                                        /\ wanted'[q] = wanted[q]
      /\ named'[pid] = name /\ home'[pid] = d /\ wanted'[pid] = p
    BY <1>1, <1>4 DEF Typed
<1>9. CreatedOnes'
    BY <1>1 DEF IndInv, Arrivals, CreatedOnes, Stored, Made
<1>10. UploaderStage'
    BY <1>1, <1>7, <1>8 DEF IndInv, Arrivals, UploaderStage, Stored
<1>11. OpenedUnsaved'
    BY <1>1, <1>3, <1>4, <1>8 DEF IndInv, Arrivals, OpenedUnsaved, Stored, Typed
<1>12. Stored(pid) => row[pid].dirty
    BY DEF IndInv, Arrivals, RowsWanted
<1>13. RenameStage'
    BY <1>1, <1>3, <1>4, <1>7, <1>8, <1>12, Kinds DEF RenameStage, Stored, NoRename
<1>14. RowsWanted'
    <2>1. \A q \in PendingIds : rename.pid # q
        BY <1>1, Kinds DEF NoRename
    <2>2. \A q \in PendingIds \ {pid} : Stored(q) =>
             row[q].dirty /\ Place(row[q].name, row[q].parent) = wanted[q]
        BY <2>1 DEF IndInv, Arrivals, RowsWanted
    <2>3. Stored(pid) => rename'.pid = pid
        BY <1>1 DEF Stored
    <2>4. \A q \in PendingIds : Stored(q) =>
             Place(row[q].name, row[q].parent) \in Places \cup {NoRow}
        BY DEF IndInv, Arrivals, RowsWanted
    <2> QED
        BY <1>1, <1>8, <1>12, <2>2, <2>3, <2>4 DEF RowsWanted, Stored
<1> QED
    BY <1>5, <1>6, <1>9, <1>10, <1>11, <1>13, <1>14 DEF IndInv, Arrivals

LEMMA StoreRenamedStep ==
    ASSUME IndInv, StoreRenamed
    PROVE  IndInv'
<1> DEFINE pid == rename.pid
           r == [name |-> rename.to.name, parent |-> rename.to.parent,
                 dirty |-> rename.row.dirty,
                 ino |-> IF row[pid] = NoRow THEN rename.row.ino ELSE row[pid].ino]
<1>1. /\ rename # NoRename /\ rename' = NoRename
      /\ row' = [row EXCEPT ![pid] = r]
      /\ UNCHANGED <<drive, inodes, named, home, opened, uploader, wanted, copies>>
    BY DEF StoreRenamed, memory
<1>2. UNCHANGED <<inoOf, idAt, nextIno>>
    BY <1>1 DEF inodes
<1>3. /\ pid \in PendingIds /\ pid \in Ids /\ Stored(pid) /\ uploader.pid # pid
      /\ rename.row.dirty = TRUE
      /\ rename.to \in Places /\ rename.to = wanted[pid]
    BY <1>1, Kinds DEF IndInv, Arrivals, RenameStage, Rows
<1>4. row[pid] \in Rows
    BY <1>3 DEF IndInv, Typed, Stored
<1>5. /\ r \in Rows /\ r # NoRow /\ r.ino = row[pid].ino /\ r.dirty
      /\ Place(r.name, r.parent) = wanted[pid]
    <2>1. /\ rename.to.name \in RawNames /\ rename.to.parent \in Folders
          /\ rename.to = [name |-> rename.to.name, parent |-> rename.to.parent]
          /\ row[pid].ino \in Inodes /\ row[pid] # NoRow
        BY <1>3, <1>4 DEF Rows, Places, Stored
    <2>2. r \in Rows
        BY <2>1, <1>3 DEF Rows
    <2> QED
        BY <2>1, <2>2, <1>3, Kinds DEF Place
<1> HIDE DEF r
<1>6. Typed'
    BY <1>1, <1>2, <1>5, Kinds DEF IndInv, Typed, RenameStates, NoRename
<1>7. /\ \A a \in Ids \ {pid} : row'[a] = row[a]
      /\ row'[pid] = r
    BY <1>1, <1>3 DEF IndInv, Typed
<1>8. \A a \in Ids : Stored(a)' <=> Stored(a)
    BY <1>3, <1>5, <1>7 DEF Stored
<1>9. \A a \in Ids : Stored(a) => row'[a].ino = row[a].ino
    BY <1>5, <1>7
<1>10. Numbers'
    <2>1. Maps' /\ RowsNumbered' /\ OneRowEach'
        BY <1>2, <1>8, <1>9 DEF IndInv, Numbers, Maps, RowsNumbered, OneRowEach
    <2>2. Apart'
        BY <1>1, <1>2, <1>8, <1>9
           DEF IndInv, Numbers, Apart, Leaving, Gone, Made
    <2> QED
        BY <2>1, <2>2 DEF Numbers
<1>11. CreatedOnes'
    BY <1>1, <1>8, Kinds DEF IndInv, Arrivals, CreatedOnes, Made
<1>12. UploaderStage'
    BY <1>1, <1>8, Kinds DEF IndInv, Typed, UploaderStates, Arrivals, UploaderStage
<1>13. OpenedUnsaved'
    BY <1>1, <1>8, Kinds DEF IndInv, Typed, Arrivals, OpenedUnsaved
<1>14. RenameStage'
    BY <1>1 DEF RenameStage
<1>15. RowsWanted'
    <2>1. wanted[pid] \in Places
        BY <1>3
    <2>2. \A q \in PendingIds \ {pid} : q \in Ids /\ row'[q] = row[q]
        BY <1>7, Kinds
    <2> QED
        BY <2>1, <2>2, <1>1, <1>3, <1>5, <1>7, <1>8
           DEF IndInv, Arrivals, RowsWanted
<1> QED
    BY <1>6, <1>10, <1>11, <1>12, <1>13, <1>14, <1>15 DEF IndInv, Arrivals

\* A file of Drive gets another name or folder, or goes.
LEMMA DriveMoved ==
    ASSUME IndInv, NEW id \in DriveIds, drive[id] # NoRow,
           NEW p \in Places \cup {NoRow}, drive' = [drive EXCEPT ![id] = p],
           UNCHANGED <<row, named, home, opened, rename, uploader, wanted, copies>>
    PROVE  /\ drive' \in [DriveIds -> Places \cup {NoRow}]
           /\ Arrivals'
           /\ \A b \in Ids : Gone(b) => Gone(b)'
<1>1. /\ drive' \in [DriveIds -> Places \cup {NoRow}]
      /\ \A a \in DriveIds : drive[a] = NoRow => drive'[a] = NoRow
    BY DEF IndInv, Typed
<1>2. CreatedOnes'
    BY <1>1, Kinds DEF IndInv, Arrivals, CreatedOnes, Stored, Made
<1>3. UploaderStage'
    BY <1>1, Kinds DEF IndInv, Arrivals, UploaderStage, Stored
<1>4. OpenedUnsaved' /\ RenameStage' /\ RowsWanted'
    BY DEF IndInv, Arrivals, OpenedUnsaved, RenameStage, RowsWanted, Stored
<1>5. \A b \in Ids : Gone(b) => Gone(b)'
    BY <1>1 DEF Gone, Made
<1> QED
    BY <1>1, <1>2, <1>3, <1>4, <1>5 DEF Arrivals

LEMMA RenameFileStep ==
    ASSUME IndInv, NEW id \in DriveIds, NEW d \in Folders, NEW name \in RawNames,
           RenameFile(id, d, name)
    PROVE  IndInv'
<1>1. /\ drive[id] # NoRow /\ drive' = [drive EXCEPT ![id] = Place(name, d)]
      /\ Number(id)
      /\ UNCHANGED <<named, home, row, opened, rename, uploader, wanted, copies>>
    BY DEF RenameFile
<1>2. Place(name, d) \in Places /\ id \in Ids /\ Maps
    BY Kinds DEF Place, Places, IndInv, Numbers
<1>3. /\ drive' \in [DriveIds -> Places \cup {NoRow}] /\ Arrivals'
      /\ \A b \in Ids : Gone(b) => Gone(b)'
    BY <1>1, <1>2, DriveMoved
<1>4. Typed'
    BY <1>1, <1>2, <1>3, NumberStep DEF IndInv, Typed
<1>5. Numbers'
    BY <1>1, <1>2, <1>3, NumberOnly DEF IndInv, Leaving
<1> QED
    BY <1>3, <1>4, <1>5 DEF IndInv

LEMMA DriveStep ==
    ASSUME IndInv, NEW id \in DriveIds,
           \/ Unlink(id)
           \/ \E d \in Folders, name \in RawNames : MoveElsewhere(id, d, name)
    PROVE  IndInv'
<1>1. \A d \in Folders, name \in RawNames : Place(name, d) \in Places
    BY DEF Place, Places
<1>2. PICK p \in Places \cup {NoRow} : drive' = [drive EXCEPT ![id] = p]
    BY <1>1 DEF Unlink, MoveElsewhere
<1>3. /\ drive[id] # NoRow
      /\ UNCHANGED <<inodes, named, home, row, opened, rename, uploader, wanted,
                     copies>>
    BY DEF Unlink, MoveElsewhere, memory
<1>4. UNCHANGED <<inoOf, idAt, nextIno>>
    BY <1>3 DEF inodes
<1>5. /\ drive' \in [DriveIds -> Places \cup {NoRow}] /\ Arrivals'
      /\ \A b \in Ids : Gone(b) => Gone(b)'
    BY <1>2, <1>3, DriveMoved
<1>6. Typed'
    BY <1>3, <1>4, <1>5 DEF IndInv, Typed
<1>7. Numbers'
    BY <1>3, <1>5, NumbersKept DEF IndInv, Leaving
<1> QED
    BY <1>5, <1>6, <1>7 DEF IndInv

-----------------------------------------------------------------------------
(* The invariant is kept: the uploader.                                     *)

\* Steps of the uploader that change nothing but its own state.
LEMMA UploaderMoved ==
    ASSUME IndInv, UNCHANGED <<drive, inodes, named, home, row, opened, rename, wanted,
                               copies>>,
           uploader' \in UploaderStates, UploaderStage',
           uploader'.pid = uploader.pid \/ uploader'.pid = NoId \/ Stored(uploader'.pid),
           rename # NoRename => uploader'.pid # rename.pid,
           \A b \in Ids : ~Leaving(b)
    PROVE  IndInv'
<1>1. UNCHANGED <<inoOf, idAt, nextIno>>
    BY DEF inodes
<1>2. Typed'
    BY <1>1 DEF IndInv, Typed
<1>3. Numbers'
    BY NumbersKept DEF IndInv, Gone, Made
<1>4. CreatedOnes'
    BY DEF IndInv, Arrivals, CreatedOnes, Stored, Made
<1>5. OpenedUnsaved'
    BY Kinds DEF IndInv, Typed, Arrivals, OpenedUnsaved, Stored
<1>6. RenameStage'
    BY DEF IndInv, Arrivals, RenameStage, Stored
<1>7. RowsWanted'
    BY DEF IndInv, Arrivals, RowsWanted, Stored
<1> QED
    BY <1>2, <1>3, <1>4, <1>5, <1>6, <1>7 DEF IndInv, Arrivals

LEMMA PickStep ==
    ASSUME IndInv, RenamesWait, NEW pid \in PendingIds, Pick(pid)
    PROVE  IndInv'
<1> DEFINE to == Place(row[pid].name, row[pid].parent)
<1>1. /\ uploader = Resting /\ Stored(pid) /\ rename.pid # pid
      /\ uploader' = [phase |-> "settle", pid |-> pid, newId |-> NoId, to |-> to]
      /\ UNCHANGED <<drive, inodes, named, home, row, opened, rename, wanted, copies>>
    BY DEF Pick, RenamesWait, Stored, memory
<1>2. to = wanted[pid]
    BY <1>1 DEF IndInv, Arrivals, RowsWanted
<1>3. to \in Places \cup {NoRow}
    BY <1>2 DEF IndInv, Typed
<1> HIDE DEF to
<1>4. uploader' \in [phase : {"settle"}, pid : PendingIds,
                     to : Places \cup {NoRow}, newId : {NoId}]
    BY <1>1, <1>3
<1>5. uploader' \in UploaderStates
    BY <1>4 DEF UploaderStates
<1>6. UploaderStage'
    BY <1>1 DEF UploaderStage, Stored
<1>7. \A b \in Ids : ~Leaving(b)
    BY <1>1 DEF Leaving, Resting
<1> QED
    BY <1>1, <1>5, <1>6, <1>7, UploaderMoved

\* What Stage makes of the uploader's state.
LEMMA Staged ==
    ASSUME Typed, NEW to \in Places \cup {NoRow}, NEW newId \in SpareIds \cup {NoId},
           NEW phase \in {"settle", "send", "finalize", "replace", "abandon",
                          "forget"},
           uploader' = Stage(phase, to, newId)
    PROVE  /\ uploader' \in UploaderStates
           /\ uploader'.phase = phase /\ uploader'.pid = uploader.pid
           /\ uploader'.to = to /\ uploader'.newId = newId
BY DEF Typed, UploaderStates, Stage

LEMMA RestingState ==
    /\ Resting \in UploaderStates /\ Resting.phase = "idle"
    /\ Resting.pid = NoId
BY DEF Resting, UploaderStates

LEMMA RereadStep ==
    ASSUME IndInv, Reread
    PROVE  IndInv'
<1> DEFINE pid == uploader.pid
           to == Place(row[pid].name, row[pid].parent)
<1>1. /\ uploader.phase = "settle" /\ pid \in PendingIds /\ Stored(pid)
      /\ UNCHANGED <<drive, inodes, named, home, row, opened, rename, wanted, copies>>
    BY DEF Reread, memory, IndInv, Arrivals, UploaderStage
<1>2. uploader' = Stage("send", to, NoId)
    BY <1>1 DEF Reread, Stored
<1>3. rename.pid # pid
    <2>1. rename = NoRename => rename.pid = NoId
        BY DEF NoRename
    <2> QED
        BY <2>1, <1>1, Kinds DEF IndInv, Arrivals, RenameStage
<1>4. to = wanted[pid] /\ to \in Places \cup {NoRow}
    BY <1>1, <1>3 DEF IndInv, Arrivals, RowsWanted, Typed
<1> HIDE DEF to
<1>5. /\ uploader' \in UploaderStates /\ uploader'.phase = "send"
      /\ uploader'.pid = pid /\ uploader'.to = to
    BY <1>2, <1>4, Staged DEF IndInv
<1>6. UploaderStage'
    BY <1>1, <1>4, <1>5 DEF UploaderStage, Stored
<1>7. \A b \in Ids : ~Leaving(b)
    BY <1>1 DEF Leaving
<1> QED
    BY <1>1, <1>3, <1>5, <1>6, <1>7, UploaderMoved

LEMMA SendFailsStep ==
    ASSUME IndInv, SendFails
    PROVE  IndInv'
<1>1. /\ uploader.phase = "send" /\ uploader.pid \in PendingIds
      /\ Stored(uploader.pid)
      /\ uploader' = Resting \/ uploader' = Stage("abandon", uploader.to, NoId)
      /\ UNCHANGED <<drive, inodes, named, home, row, opened, rename, wanted, copies>>
    BY DEF SendFails, memory, IndInv, Arrivals, UploaderStage
<1>2. rename # NoRename => rename.pid # uploader.pid /\ rename.pid \in PendingIds
    BY DEF IndInv, Arrivals, RenameStage
<1>3. \A b \in Ids : ~Leaving(b)
    BY <1>1 DEF Leaving
<1>4. CASE uploader' = Resting
    <2>1. UploaderStage'
        BY <1>4, RestingState DEF UploaderStage, Resting
    <2> QED
        BY <2>1, <1>1, <1>2, <1>3, <1>4, RestingState, UploaderMoved, Kinds
<1>5. CASE uploader' = Stage("abandon", uploader.to, NoId)
    <2>1. uploader.to \in Places \cup {NoRow}
        BY DEF IndInv, Typed, UploaderStates
    <2>2. /\ uploader' \in UploaderStates /\ uploader'.phase = "abandon"
          /\ uploader'.pid = uploader.pid
        BY <1>5, <2>1, Staged DEF IndInv
    <2>3. UploaderStage'
        BY <1>1, <2>2 DEF UploaderStage, Stored
    <2> QED
        BY <2>2, <2>3, <1>1, <1>2, <1>3, UploaderMoved
<1> QED
    BY <1>1, <1>4, <1>5

LEMMA CreateFileStep ==
    ASSUME IndInv, NEW new \in SpareIds, CreateFile(new)
    PROVE  IndInv'
<1> DEFINE pid == uploader.pid
<1>1. /\ uploader.phase = "send" /\ pid \in PendingIds /\ Stored(pid)
      /\ uploader.to = wanted[pid] /\ ~Made(new)
      /\ drive' = [drive EXCEPT ![new] = uploader.to]
      /\ copies' = [copies EXCEPT ![pid] = copies[pid] \cup {new}]
      /\ uploader' = Stage("finalize", uploader.to, new) \/ uploader' = Resting
      /\ UNCHANGED <<inodes, named, home, row, opened, rename, wanted>>
    BY DEF CreateFile, memory, IndInv, Arrivals, UploaderStage, Made
<1>2. UNCHANGED <<inoOf, idAt, nextIno>>
    BY <1>1 DEF inodes
<1>3. /\ uploader.to \in Places \cup {NoRow}
      /\ new \in DriveIds /\ new \in Ids /\ Typed
    BY Kinds DEF IndInv, Typed, UploaderStates
<1>4. /\ uploader' \in UploaderStates
      /\ uploader'.pid \in {pid, NoId}
      /\ \/ /\ uploader'.phase = "finalize" /\ uploader'.pid = pid
            /\ uploader'.newId = new
         \/ uploader' = Resting
    BY <1>1, <1>3, Staged, RestingState
<1>5. Typed'
    BY <1>1, <1>2, <1>3, <1>4 DEF Typed
<1>6. /\ copies'[pid] = copies[pid] \cup {new}
      /\ \A p \in PendingIds : copies[p] \subseteq copies'[p]
      /\ \A a \in DriveIds \ {new} : drive'[a] = drive[a]
    BY <1>1, <1>3 DEF Typed
<1>7. /\ Made(new)' /\ \A a \in Ids : Made(a) => Made(a)'
    BY <1>1, <1>6 DEF Made
<1>8. \A b \in Ids : Gone(b) => Gone(b)'
    <2>1. ~Gone(new)
        BY <1>1, Kinds, NamesAssumption DEF Gone
    <2> QED
        BY <2>1, <1>6, <1>7 DEF Gone
<1>9. Numbers'
    BY <1>1, <1>8, NumbersKept DEF IndInv, Leaving
<1>10. CreatedOnes'
    BY <1>1, <1>6, <1>7, Kinds DEF IndInv, Arrivals, CreatedOnes, Stored
<1>11. UploaderStage'
    BY <1>1, <1>4, <1>6, RestingState DEF UploaderStage, Stored
<1>12. OpenedUnsaved' /\ RenameStage'
    <2>1. \A p \in PendingIds : uploader.pid # p => uploader'.pid # p
        BY <1>4, Kinds
    <2> QED
        BY <2>1, <1>1, <1>3 DEF IndInv, Typed, Arrivals, OpenedUnsaved, RenameStage,
                                Stored
<1>13. RowsWanted'
    BY <1>1 DEF IndInv, Arrivals, RowsWanted, Stored
<1> QED
    BY <1>5, <1>9, <1>10, <1>11, <1>12, <1>13 DEF IndInv, Arrivals

\* What is left to say of a step of the uploader that changes the row of a
\* placeholder, or of a file Drive has: what others rely on.
LEMMA OthersKept ==
    ASSUME IndInv, UNCHANGED <<named, home, opened, rename, wanted>>,
           uploader'.pid \in {uploader.pid, NoId},
           \A a \in PendingIds : a # uploader.pid => row'[a] = row[a],
           row'[uploader.pid] \in {row[uploader.pid], NoRow},
           uploader.pid \in PendingIds
    PROVE  OpenedUnsaved' /\ RenameStage' /\ RowsWanted'
<1>1. \A a \in PendingIds : Stored(a)' => Stored(a) /\ row'[a] = row[a]
    BY DEF Stored
<1>2. \A p \in PendingIds : uploader.pid # p => uploader'.pid # p
    BY Kinds
<1>3. OpenedUnsaved'
    BY <1>1, <1>2 DEF IndInv, Typed, Arrivals, OpenedUnsaved
<1>4. RenameStage'
    BY <1>2 DEF IndInv, Arrivals, RenameStage, Stored
<1>5. RowsWanted'
    BY <1>1 DEF IndInv, Arrivals, RowsWanted
<1> QED
    BY <1>3, <1>4, <1>5

LEMMA FinalizeStep ==
    ASSUME IndInv, Finalize
    PROVE  IndInv'
<1> PICK old \in PendingIds, new \in SpareIds :
       old = uploader.pid /\ new = uploader.newId
    BY DEF Finalize, IndInv, Arrivals, UploaderStage
<1> DEFINE r == [name |-> row[old].name, dirty |-> FALSE,
                 parent |-> row[old].parent, ino |-> row[old].ino]
<1>1. /\ uploader.phase = "finalize" /\ old \in PendingIds /\ Stored(old)
      /\ new \in SpareIds /\ new \in copies[old]
      /\ row' = IF row[old] = NoRow \/ row[new] # NoRow THEN row
                ELSE [row EXCEPT ![old] = NoRow, ![new] = r]
      /\ uploader' = Stage("replace", uploader.to, new)
      /\ UNCHANGED <<drive, inodes, named, home, opened, rename, wanted, copies>>
    BY DEF Finalize, memory, IndInv, Arrivals, UploaderStage
<1>2. UNCHANGED <<inoOf, idAt, nextIno>>
    BY <1>1 DEF inodes
<1>3. /\ uploader.to \in Places \cup {NoRow} /\ Typed
      /\ old \in Ids /\ new \in Ids /\ new \notin PendingIds /\ old # new
      /\ row[old] \in Rows
    BY <1>1, Kinds DEF IndInv, Typed, UploaderStates, Stored
<1>4. r \in Rows /\ r # NoRow /\ r.ino = row[old].ino
    <2>1. /\ row[old].name \in RawNames \cup {NoName}
          /\ row[old].parent \in Folders \cup {NoFolder}
          /\ row[old].ino \in Inodes
        BY <1>3 DEF Rows
    <2>2. r \in Rows
        BY <2>1 DEF Rows
    <2> QED
        BY <2>2, Kinds
<1> HIDE DEF r
<1>5. /\ uploader' \in UploaderStates /\ uploader'.phase = "replace"
      /\ uploader'.pid = old /\ uploader'.newId = new
    BY <1>1, <1>3, Staged
<1>6. Typed'
    BY <1>1, <1>2, <1>3, <1>4, <1>5 DEF Typed
<1>7. /\ Leaving(old)' /\ \A b \in Ids : Leaving(b) => Leaving(b)'
      /\ \A b \in Ids : Gone(b) => Gone(b)'
    BY <1>1, <1>5 DEF Leaving, Gone, Made
<1>8. CASE Stored(new)
    <2>1. row' = row
        BY <1>1, <1>8 DEF Stored
    <2>2. Numbers'
        BY <2>1, <1>1, <1>7, NumbersKept DEF IndInv
    <2>3. CreatedOnes'
        BY <2>1, <1>1 DEF IndInv, Arrivals, CreatedOnes, Stored, Made
    <2>4. UploaderStage'
        BY <2>1, <1>1, <1>5, <1>8 DEF UploaderStage, Stored
    <2>5. OpenedUnsaved' /\ RenameStage' /\ RowsWanted'
        BY <2>1, <1>1, <1>5, OthersKept
    <2> QED
        BY <2>2, <2>3, <2>4, <2>5, <1>6 DEF IndInv, Arrivals
<1>9. CASE ~Stored(new)
    <2>1. row' = [row EXCEPT ![old] = NoRow, ![new] = r]
        BY <1>1, <1>9 DEF Stored
    <2>2. Numbers'
        <3>1. Typed /\ Numbers /\ UNCHANGED inodes
            BY <1>1 DEF IndInv
        <3>2. PICK s \in Rows : s = r
            BY <1>4
        <3>3. /\ s # NoRow /\ s.ino = row[old].ino
              /\ row' = [row EXCEPT ![old] = NoRow, ![new] = s]
            BY <2>1, <3>2, <1>4
        <3>4. old \in Ids /\ new \in Ids /\ Stored(old) /\ ~Stored(new)
            BY <1>1, <1>3, <1>9
        <3>5. /\ Leaving(old)' /\ \A b \in Ids : Leaving(b) => Leaving(b)'
              /\ \A b \in Ids : Gone(b) => Gone(b)'
            BY <1>7
        <3> QED
            BY <3>1, <3>3, <3>4, <3>5, RowMoved
    <2>3. /\ row'[new] = r /\ row'[old] = NoRow
          /\ \A a \in Ids \ {old, new} : row'[a] = row[a]
        BY <2>1, <1>3 DEF Typed
    <2>4. CreatedOnes'
        BY <2>3, <1>1, <1>3, Kinds DEF IndInv, Arrivals, CreatedOnes, Stored, Made
    <2>5. UploaderStage'
        BY <2>3, <1>1, <1>4, <1>5 DEF UploaderStage, Stored
    <2>6. OpenedUnsaved' /\ RenameStage' /\ RowsWanted'
        BY <2>3, <1>1, <1>3, <1>5, Kinds, OthersKept DEF Stored
    <2> QED
        BY <2>2, <2>4, <2>5, <2>6, <1>6 DEF IndInv, Arrivals
<1> QED
    BY <1>8, <1>9

\* The inode passes from the placeholder to the real file.
LEMMA ReplaceMaps ==
    ASSUME IndInv, Replace
    PROVE  /\ inoOf' \in [Ids -> 0..MaxIno]
           /\ idAt' \in [Inodes -> Ids \cup {NoId}]
           /\ nextIno' = nextIno
           /\ Maps'
           /\ inoOf'[uploader.pid] = 0
           /\ \A a \in Ids \ {uploader.pid, uploader.newId} : inoOf'[a] = inoOf[a]
           /\ \A ino \in Inodes : idAt[ino] # NoId =>
                 \/ idAt'[ino] = idAt[ino]
                 \/ idAt[ino] = uploader.pid /\ idAt'[ino] = uploader.newId
<1> PICK old \in PendingIds, new \in SpareIds :
       old = uploader.pid /\ new = uploader.newId
    BY DEF Replace, IndInv, Arrivals, UploaderStage
<1>1. /\ old \in Ids /\ new \in Ids /\ old # new
      /\ Typed /\ Maps
      /\ \A a \in Ids : inoOf[a] \in Nat
    BY Kinds DEF IndInv, Numbers, Typed
<1>2. /\ nextIno' = nextIno
      /\ inoOf' = IF inoOf[old] = 0 THEN inoOf
                  ELSE [inoOf EXCEPT ![old] = 0, ![new] = inoOf[old]]
      /\ idAt' = IF inoOf[old] = 0 THEN idAt ELSE [idAt EXCEPT ![inoOf[old]] = new]
    BY DEF Replace
<1>3. CASE inoOf[old] = 0
    <2>1. inoOf' = inoOf /\ idAt' = idAt
        BY <1>2, <1>3
    <2>2. Maps'
        BY <2>1, <1>1, <1>2 DEF Maps
    <2> QED
        BY <2>1, <2>2, <1>1, <1>2, <1>3 DEF Typed
<1>4. CASE inoOf[old] # 0
    <2>1. /\ inoOf' = [inoOf EXCEPT ![old] = 0, ![new] = inoOf[old]]
          /\ idAt' = [idAt EXCEPT ![inoOf[old]] = new]
        BY <1>2, <1>4
    <2>2. /\ inoOf[old] \in Inodes /\ inoOf[old] < nextIno
          /\ idAt[inoOf[old]] = old /\ nextIno \in Nat
        BY <1>1, <1>4, Kinds DEF Maps, Typed, Inodes
    <2>3. /\ inoOf' \in [Ids -> 0..MaxIno]
          /\ idAt' \in [Inodes -> Ids \cup {NoId}]
        BY <2>1, <2>2, <1>1, Kinds DEF Typed
    <2>4. /\ inoOf'[old] = 0 /\ inoOf'[new] = inoOf[old]
          /\ \A a \in Ids \ {old, new} : inoOf'[a] = inoOf[a]
          /\ idAt'[inoOf[old]] = new
          /\ \A ino \in Inodes \ {inoOf[old]} : idAt'[ino] = idAt[ino]
        BY <2>1, <2>2, <1>1 DEF Typed
    <2>5. ASSUME NEW a \in Ids, inoOf'[a] # 0
          PROVE  inoOf'[a] < nextIno' /\ idAt'[inoOf'[a]] = a
        <3>1. CASE a = new
            BY <3>1, <2>2, <2>4, <1>2
        <3>2. CASE a # new
            <4>1. a # old /\ inoOf'[a] = inoOf[a] /\ inoOf[a] # 0
                BY <3>2, <2>4, <2>5
            <4>2. /\ inoOf[a] < nextIno /\ idAt[inoOf[a]] = a /\ inoOf[a] \in Inodes
                  /\ inoOf[a] # inoOf[old]
                BY <4>1, <2>2, <1>1, Kinds DEF Maps, Typed, Inodes
            <4> QED
                BY <4>1, <4>2, <2>4, <1>2
        <3> QED
            BY <3>1, <3>2
    <2>6. ASSUME NEW ino \in Inodes, nextIno' <= ino
          PROVE  idAt'[ino] = NoId
        <3>1. ino # inoOf[old]
            BY <2>2, <2>6, <1>2, Kinds DEF Inodes
        <3> QED
            BY <3>1, <2>4, <2>6, <1>1, <1>2 DEF Maps
    <2>7. Maps'
        BY <2>5, <2>6 DEF Maps
    <2> QED
        BY <2>2, <2>3, <2>4, <2>7, <1>2
<1> QED
    BY <1>3, <1>4

LEMMA ReplaceStep ==
    ASSUME IndInv, Replace
    PROVE  IndInv'
<1> PICK old \in PendingIds, new \in SpareIds :
       old = uploader.pid /\ new = uploader.newId
    BY DEF Replace, IndInv, Arrivals, UploaderStage
<1>1. /\ uploader.phase = "replace" /\ uploader' = Resting
      /\ Stored(new) \/ drive[new] = NoRow
      /\ new \in copies[old]
      /\ home' = [home EXCEPT ![old] = NoFolder]
      /\ named' = [named EXCEPT ![old] = NoName]
      /\ UNCHANGED <<drive, row, opened, rename, wanted, copies>>
    BY DEF Replace, IndInv, Arrivals, UploaderStage
<1>2. /\ Typed /\ Numbers /\ old \in Ids /\ new \in Ids /\ new \in DriveIds
    BY Kinds DEF IndInv
<1>3. /\ inoOf' \in [Ids -> 0..MaxIno]
      /\ idAt' \in [Inodes -> Ids \cup {NoId}]
      /\ nextIno' = nextIno /\ Maps' /\ inoOf'[old] = 0
      /\ \A a \in Ids \ {old, new} : inoOf'[a] = inoOf[a]
    BY ReplaceMaps
<1>4. Typed'
    BY <1>1, <1>2, <1>3, RestingState DEF Typed
<1>5. RowsNumbered' /\ OneRowEach'
    BY <1>1, <1>2, <1>3 DEF Numbers, RowsNumbered, OneRowEach, Stored
<1>6. Apart'
    <2> SUFFICES ASSUME NEW a \in Ids, NEW b \in Ids, Stored(a)', ~Stored(b)',
                        inoOf'[b] # 0, row'[a].ino = inoOf'[b]
                 PROVE  Gone(b)'
        BY DEF Apart
    <2>1. CASE b = new
        BY <2>1, <1>1, <1>2 DEF Gone, Made, Stored
    <2>2. CASE b # new
        <3>1. b # old /\ inoOf'[b] = inoOf[b] /\ ~Leaving(b)
            BY <2>2, <1>3 DEF Leaving
        <3>2. Gone(b)
            BY <3>1, <1>1, <1>2 DEF Numbers, Apart, Stored
        <3> QED
            BY <3>2, <1>1 DEF Gone, Made
    <2> QED
        BY <2>1, <2>2
<1>7. Numbers'
    BY <1>3, <1>5, <1>6 DEF Numbers
<1>8. CreatedOnes'
    BY <1>1 DEF IndInv, Arrivals, CreatedOnes, Stored, Made
<1>9. UploaderStage'
    BY <1>1, RestingState DEF UploaderStage
<1>10. old \notin opened /\ NoId \notin PendingIds
    BY Kinds DEF IndInv, Arrivals, OpenedUnsaved
<1>11. OpenedUnsaved'
    <2>1. \A p \in PendingIds \ {old} : named'[p] = named[p] /\ home'[p] = home[p]
        BY <1>1, <1>2 DEF Typed
    <2> QED
        BY <2>1, <1>1, <1>2, <1>10, RestingState
           DEF IndInv, Arrivals, OpenedUnsaved, Stored, Typed
<1>12. RenameStage'
    BY <1>1, <1>10, RestingState DEF IndInv, Arrivals, RenameStage, Stored
<1>13. RowsWanted'
    BY <1>1 DEF IndInv, Arrivals, RowsWanted, Stored
<1> QED
    BY <1>4, <1>7, <1>8, <1>9, <1>11, <1>12, <1>13 DEF IndInv, Arrivals

LEMMA AbandonStep ==
    ASSUME IndInv, Abandon
    PROVE  IndInv'
<1> PICK pid \in PendingIds : pid = uploader.pid
    BY DEF Abandon, IndInv, Arrivals, UploaderStage
<1>1. /\ uploader.phase = "abandon" /\ Stored(pid) /\ row[pid].dirty
      /\ UNCHANGED <<drive, inodes, named, home, opened, rename, wanted, copies>>
      /\ uploader' = Stage("forget", uploader.to, NoId)
    BY DEF Abandon, memory, IndInv, Arrivals, UploaderStage, RowsWanted
<1>2. row' = [row EXCEPT ![pid] = NoRow]
    BY <1>1 DEF Abandon, Stored
<1>3. UNCHANGED <<inoOf, idAt, nextIno>>
    BY <1>1 DEF inodes
<1>4. /\ uploader.to \in Places \cup {NoRow} /\ Typed /\ Numbers
      /\ pid \in Ids /\ pid \notin DriveIds
    BY Kinds DEF IndInv, Typed, UploaderStates
<1>5. /\ uploader' \in UploaderStates /\ uploader'.phase = "forget"
      /\ uploader'.pid = pid
    BY <1>1, <1>4, Staged
<1>6. Typed'
    BY <1>1, <1>2, <1>3, <1>4, <1>5 DEF Typed
<1>7. /\ Leaving(pid)' /\ \A b \in Ids : Leaving(b) => Leaving(b)'
      /\ \A b \in Ids : Gone(b) => Gone(b)'
    BY <1>1, <1>5 DEF Leaving, Gone, Made
<1>8. Numbers'
    BY <1>1, <1>2, <1>4, <1>7, RowDropped
<1>9. /\ row'[pid] = NoRow /\ \A a \in Ids \ {pid} : row'[a] = row[a]
    BY <1>2, <1>4 DEF Typed
<1>10. CreatedOnes'
    BY <1>1, <1>4, <1>9, Kinds DEF IndInv, Arrivals, CreatedOnes, Stored, Made
<1>11. UploaderStage'
    BY <1>5, <1>9 DEF UploaderStage, Stored
<1>12. OpenedUnsaved' /\ RenameStage' /\ RowsWanted'
    BY <1>1, <1>4, <1>5, <1>9, Kinds, OthersKept
<1> QED
    BY <1>6, <1>8, <1>10, <1>11, <1>12 DEF IndInv, Arrivals

\* A placeholder that is given up leaves both maps.
LEMMA ForgetMaps ==
    ASSUME IndInv, Forget
    PROVE  /\ inoOf' \in [Ids -> 0..MaxIno]
           /\ idAt' \in [Inodes -> Ids \cup {NoId}]
           /\ nextIno' = nextIno
           /\ Maps'
           /\ inoOf'[uploader.pid] = 0
           /\ \A a \in Ids \ {uploader.pid} : inoOf'[a] = inoOf[a]
           /\ \A ino \in Inodes : idAt[ino] # NoId =>
                 \/ idAt'[ino] = idAt[ino]
                 \/ idAt[ino] = uploader.pid /\ idAt'[ino] = NoId
<1> PICK pid \in PendingIds : pid = uploader.pid
    BY DEF Forget, IndInv, Arrivals, UploaderStage
<1>1. /\ pid \in Ids /\ Typed /\ Maps
      /\ \A a \in Ids : inoOf[a] \in Nat
    BY Kinds DEF IndInv, Numbers, Typed
<1>2. /\ nextIno' = nextIno
      /\ inoOf' = [inoOf EXCEPT ![pid] = 0]
      /\ idAt' = IF inoOf[pid] = 0 THEN idAt ELSE [idAt EXCEPT ![inoOf[pid]] = NoId]
    BY DEF Forget
<1>3. /\ inoOf' \in [Ids -> 0..MaxIno] /\ inoOf'[pid] = 0
      /\ \A a \in Ids \ {pid} : inoOf'[a] = inoOf[a]
    BY <1>1, <1>2, Kinds DEF Typed
<1>4. inoOf[pid] # 0 => inoOf[pid] \in Inodes /\ idAt[inoOf[pid]] = pid
    BY <1>1, Kinds DEF Maps, Typed, Inodes
<1>5. /\ idAt' \in [Inodes -> Ids \cup {NoId}]
      /\ \A ino \in Inodes : ino # inoOf[pid] => idAt'[ino] = idAt[ino]
      /\ inoOf[pid] # 0 => idAt'[inoOf[pid]] = NoId
    <2>1. CASE inoOf[pid] = 0
        <3>1. idAt' = idAt
            BY <2>1, <1>2
        <3> QED
            BY <3>1, <2>1, <1>1 DEF Typed
    <2>2. CASE inoOf[pid] # 0
        <3>1. idAt' = [idAt EXCEPT ![inoOf[pid]] = NoId] /\ inoOf[pid] \in Inodes
            BY <2>2, <1>2, <1>4
        <3> QED
            BY <3>1, <1>1 DEF Typed
    <2> QED
        BY <2>1, <2>2
<1>6. ASSUME NEW a \in Ids, inoOf'[a] # 0
      PROVE  inoOf'[a] < nextIno' /\ idAt'[inoOf'[a]] = a
    <2>1. a # pid /\ inoOf'[a] = inoOf[a] /\ inoOf[a] # 0
        BY <1>3, <1>6
    <2>2. /\ inoOf[a] < nextIno /\ idAt[inoOf[a]] = a /\ inoOf[a] \in Inodes
          /\ inoOf[a] # inoOf[pid]
        BY <2>1, <1>1, <1>4, Kinds DEF Maps, Typed, Inodes
    <2> QED
        BY <2>1, <2>2, <1>2, <1>5
<1>7. ASSUME NEW ino \in Inodes, nextIno' <= ino
      PROVE  idAt'[ino] = NoId
    <2>1. idAt[ino] = NoId /\ ino # 0
        BY <1>1, <1>2, <1>7, Kinds DEF Maps
    <2> QED
        BY <2>1, <1>5
<1>8. Maps'
    BY <1>6, <1>7 DEF Maps
<1>9. ASSUME NEW ino \in Inodes, idAt[ino] # NoId, idAt'[ino] # idAt[ino]
      PROVE  idAt[ino] = pid /\ idAt'[ino] = NoId
    <2>1. ino = inoOf[pid] /\ ino # 0
        BY <1>5, <1>9, Kinds
    <2> QED
        BY <2>1, <1>4, <1>5
<1> QED
    BY <1>2, <1>3, <1>5, <1>8, <1>9

LEMMA ForgetStep ==
    ASSUME IndInv, Forget
    PROVE  IndInv'
<1> PICK pid \in PendingIds : pid = uploader.pid
    BY DEF Forget, IndInv, Arrivals, UploaderStage
<1>1. /\ uploader.phase = "forget" /\ uploader' = Resting /\ ~Stored(pid)
      /\ home' = [home EXCEPT ![pid] = NoFolder]
      /\ named' = [named EXCEPT ![pid] = NoName]
      /\ wanted' = [wanted EXCEPT ![pid] = NoRow]
      /\ UNCHANGED <<drive, row, opened, rename, copies>>
    <2>1. pid \notin opened
        BY DEF IndInv, Arrivals, OpenedUnsaved
    <2> QED
        BY <2>1 DEF Forget, IndInv, Arrivals, UploaderStage
<1>2. Typed /\ Numbers /\ pid \in Ids
    BY Kinds DEF IndInv
<1>3. /\ inoOf' \in [Ids -> 0..MaxIno]
      /\ idAt' \in [Inodes -> Ids \cup {NoId}]
      /\ nextIno' = nextIno /\ Maps' /\ inoOf'[pid] = 0
      /\ \A a \in Ids \ {pid} : inoOf'[a] = inoOf[a]
    BY ForgetMaps
<1>4. Typed'
    BY <1>1, <1>2, <1>3, RestingState DEF Typed
<1>5. RowsNumbered' /\ OneRowEach'
    BY <1>1, <1>2, <1>3 DEF Numbers, RowsNumbered, OneRowEach, Stored
<1>6. Apart'
    <2> SUFFICES ASSUME NEW a \in Ids, NEW b \in Ids, Stored(a)', ~Stored(b)',
                        inoOf'[b] # 0, row'[a].ino = inoOf'[b]
                 PROVE  Gone(b)'
        BY DEF Apart
    <2>1. b # pid /\ inoOf'[b] = inoOf[b] /\ ~Leaving(b)
        BY <1>3 DEF Leaving
    <2>2. Gone(b)
        BY <2>1, <1>1, <1>2 DEF Numbers, Apart, Stored
    <2> QED
        BY <2>2, <1>1 DEF Gone, Made
<1>7. Numbers'
    BY <1>3, <1>5, <1>6 DEF Numbers
<1>8. CreatedOnes'
    BY <1>1 DEF IndInv, Arrivals, CreatedOnes, Stored, Made
<1>9. UploaderStage'
    BY <1>1, RestingState DEF UploaderStage
<1>10. /\ pid \notin opened /\ NoId \notin PendingIds
       /\ rename # NoRename => rename.pid # pid
    BY Kinds DEF IndInv, Arrivals, OpenedUnsaved, RenameStage
<1>11. \A p \in PendingIds \ {pid} : /\ named'[p] = named[p] /\ home'[p] = home[p]
                                     /\ wanted'[p] = wanted[p]
    BY <1>1, <1>2 DEF Typed
<1>12. OpenedUnsaved'
    BY <1>1, <1>2, <1>10, <1>11, RestingState
       DEF IndInv, Arrivals, OpenedUnsaved, Stored, Typed
<1>13. RenameStage'
    BY <1>1, <1>10, <1>11, RestingState DEF IndInv, Arrivals, RenameStage, Stored
<1>14. RowsWanted'
    BY <1>1, <1>11 DEF IndInv, Arrivals, RowsWanted, Stored
<1> QED
    BY <1>4, <1>7, <1>8, <1>9, <1>12, <1>13, <1>14 DEF IndInv, Arrivals

-----------------------------------------------------------------------------
(* The invariant is kept: the poller and a restart.                         *)

\* A row of a file that Drive has, or had, says nothing of new files.
LEMMA PolledRow ==
    ASSUME IndInv, NEW id \in DriveIds,
           UNCHANGED <<drive, named, home, opened, rename, uploader, wanted, copies>>,
           row' \in [Ids -> Rows \cup {NoRow}],
           \A a \in Ids \ {id} : row'[a] = row[a],
           Stored(id)' <=> drive[id] # NoRow
    PROVE  Arrivals'
<1>1. /\ \A a \in PendingIds : row'[a] = row[a]
      /\ \A a \in PendingIds : Stored(a)' <=> Stored(a)
    BY Kinds DEF Stored
<1>2. CreatedOnes'
    BY Kinds DEF IndInv, Arrivals, CreatedOnes, Stored, Made
<1>3. UploaderStage'
    BY <1>1, Kinds DEF IndInv, Arrivals, UploaderStage, Stored
<1>4. OpenedUnsaved' /\ RenameStage' /\ RowsWanted'
    BY <1>1, Kinds
       DEF IndInv, Typed, Arrivals, OpenedUnsaved, RenameStage, RowsWanted, Stored
<1> QED
    BY <1>2, <1>3, <1>4 DEF Arrivals

LEMMA FollowStep ==
    ASSUME IndInv, NEW id \in DriveIds, Follow(id)
    PROVE  IndInv'
<1> DEFINE r == [name |-> NoName, parent |-> NoFolder, dirty |-> FALSE,
                 ino |-> IF row[id] = NoRow THEN inoOf'[id] ELSE row[id].ino]
<1>1. /\ drive[id] # NoRow /\ Number(id) /\ row' = [row EXCEPT ![id] = r]
      /\ UNCHANGED <<drive, named, home, opened, rename, uploader, wanted, copies>>
    BY DEF Follow, memory
<1>2. Maps /\ id \in Ids /\ Typed /\ Numbers /\ id \notin PendingIds
    BY Kinds DEF IndInv, Numbers
<1>3. /\ inoOf' \in [Ids -> 0..MaxIno] /\ idAt' \in [Inodes -> Ids \cup {NoId}]
      /\ nextIno' \in 1..MaxIno + 1 /\ inoOf'[id] \in Inodes
    BY <1>1, <1>2, NumberStep
<1>4. /\ r \in Rows /\ r # NoRow
      /\ r.ino = IF Stored(id) THEN row[id].ino ELSE inoOf'[id]
    <2>1. row[id] # NoRow => row[id].ino \in Inodes
        BY <1>2 DEF Typed, Rows
    <2>2. r \in Rows
        BY <2>1, <1>3 DEF Rows
    <2> QED
        BY <2>2, Kinds DEF Stored
<1> HIDE DEF r
<1>5. Typed'
    BY <1>1, <1>2, <1>3, <1>4 DEF Typed
<1>6. ~Leaving(id) /\ ~Gone(id)
    BY <1>1, <1>2, Kinds DEF Leaving, Gone, IndInv, Arrivals, UploaderStage
<1>7. Numbers'
    BY <1>1, <1>2, <1>4, <1>6, Upserted DEF Leaving, Gone, Made
<1>8. row'[id] = r /\ \A a \in Ids \ {id} : row'[a] = row[a]
    BY <1>1, <1>2 DEF Typed
<1>9. Arrivals'
    BY <1>1, <1>4, <1>5, <1>8, PolledRow DEF Typed, Stored
<1> QED
    BY <1>5, <1>7, <1>9 DEF IndInv

LEMMA FollowRemovalStep ==
    ASSUME IndInv, NEW id \in DriveIds, FollowRemoval(id)
    PROVE  IndInv'
<1>1. /\ drive[id] = NoRow /\ Stored(id) /\ row' = [row EXCEPT ![id] = NoRow]
      /\ UNCHANGED <<drive, inodes, named, home, opened, rename, uploader, wanted,
                     copies>>
    BY DEF FollowRemoval, Stored, memory
<1>2. UNCHANGED <<inoOf, idAt, nextIno>>
    BY <1>1 DEF inodes
<1>3. id \in Ids /\ Typed /\ Numbers
    BY Kinds DEF IndInv
<1>4. Typed'
    BY <1>1, <1>2, <1>3 DEF Typed
<1>5. Gone(id)
    BY <1>1, Kinds DEF Gone, IndInv, Arrivals, CreatedOnes, DriveIds
<1>6. Numbers'
    BY <1>1, <1>3, <1>5, RowDropped DEF Leaving, Gone, Made
<1>7. row'[id] = NoRow /\ \A a \in Ids \ {id} : row'[a] = row[a]
    BY <1>1, <1>3 DEF Typed
<1>8. Arrivals'
    BY <1>1, <1>4, <1>7, PolledRow DEF Typed, Stored
<1> QED
    BY <1>4, <1>6, <1>8 DEF IndInv

LEMMA RemountStep ==
    ASSUME IndInv, Remount
    PROVE  IndInv'
<1>1. /\ Restored
      /\ named' = [pid \in PendingIds |-> NoName]
      /\ home' = [pid \in PendingIds |-> NoFolder]
      /\ opened' = {} /\ rename' = NoRename /\ uploader' = Resting
      /\ wanted' = [pid \in PendingIds |->
            IF row[pid] = NoRow THEN NoRow
            ELSE Place(row[pid].name, row[pid].parent)]
      /\ UNCHANGED <<drive, row, copies>>
    BY DEF Remount
<1>2. Typed /\ Numbers /\ OneRowEach
    BY DEF IndInv, Numbers
<1>3. \A pid \in PendingIds : Stored(pid) =>
         row[pid].dirty /\ Place(row[pid].name, row[pid].parent) \in Places \cup {NoRow}
    BY DEF IndInv, Arrivals, RowsWanted
<1>4. wanted' \in [PendingIds -> Places \cup {NoRow}]
    BY <1>1, <1>3 DEF Stored
<1>5. /\ inoOf' \in [Ids -> 0..MaxIno]
      /\ idAt' \in [Inodes -> Ids \cup {NoId}]
      /\ nextIno' \in 1..MaxIno + 1
    BY <1>1, <1>2, RestoredMaps
<1>6. Typed'
    BY <1>1, <1>2, <1>4, <1>5, RestingState DEF Typed, RenameStates, NoRename
<1>7. Numbers'
    BY <1>1, <1>2, NumbersRestored
<1>8. CreatedOnes'
    BY <1>1 DEF IndInv, Arrivals, CreatedOnes, Stored, Made
<1>9. UploaderStage' /\ OpenedUnsaved' /\ RenameStage'
    BY <1>1, RestingState DEF UploaderStage, OpenedUnsaved, RenameStage
<1>10. RowsWanted'
    BY <1>1, <1>3 DEF RowsWanted, Stored
<1> QED
    BY <1>6, <1>7, <1>8, <1>9, <1>10 DEF IndInv, Arrivals

-----------------------------------------------------------------------------
(* The theorems.                                                            *)

LEMMA InitInv == Init => IndInv
<1> SUFFICES ASSUME Init
             PROVE  IndInv
    OBVIOUS
<1>1. Typed
    BY Kinds, RestingState DEF Init, Typed, NoRename, RenameStates, FirstIno
<1>2. Maps /\ RowsNumbered /\ OneRowEach /\ Apart
    BY Kinds DEF Init, Maps, RowsNumbered, OneRowEach, Apart, Stored
<1>3. CreatedOnes
    BY Kinds DEF Init, CreatedOnes, Stored
<1>4. UploaderStage /\ OpenedUnsaved /\ RenameStage
    BY RestingState DEF Init, UploaderStage, OpenedUnsaved, RenameStage
<1>5. RowsWanted
    BY Kinds DEF Init, RowsWanted, Stored
<1> QED
    BY <1>1, <1>2, <1>3, <1>4, <1>5 DEF IndInv, Numbers, Arrivals

LEMMA StepInv ==
    ASSUME RenamesWait, IndInv, HandedOut, [Next]_vars
    PROVE  IndInv'
<1>1. ASSUME NEW d \in Folders, NEW name \in RawNames, NEW pid \in PendingIds,
             Create(pid, d, name) \/ RenamePending(pid, d, name)
      PROVE  IndInv'
    BY <1>1, CreateStep, RenamePendingStep
<1>2. ASSUME NEW d \in Folders, NEW name \in RawNames, NEW id \in DriveIds,
             RenameFile(id, d, name) \/ MoveElsewhere(id, d, name)
      PROVE  IndInv'
    BY <1>2, RenameFileStep, DriveStep
<1>3. ASSUME NEW pid \in PendingIds, Release(pid)
      PROVE  IndInv'
    BY <1>3, ReleaseStep
<1>4. CASE StoreRenamed
    BY <1>4, StoreRenamedStep
<1>5. ASSUME NEW id \in DriveIds, Unlink(id) \/ Follow(id) \/ FollowRemoval(id)
      PROVE  IndInv'
    BY <1>5, DriveStep, FollowStep, FollowRemovalStep
<1>6. ASSUME NEW d \in Folders, NEW id \in Ids, Show(d, id)
      PROVE  IndInv'
    BY <1>6, NumberListedStep DEF Show, memory
<1>7. CASE FetchStep
    <2>1. ASSUME NEW id \in DriveIds, NumberListed(id)
          PROVE  IndInv'
        BY <2>1, NumberListedStep, Kinds DEF NumberListed, memory
    <2> QED
        BY <1>7, <2>1, ListingStep DEF FetchStep
<1>8. CASE UploaderStep
    BY <1>8, PickStep, RereadStep, SendFailsStep, FinalizeStep, ReplaceStep,
       AbandonStep, ForgetStep, CreateFileStep DEF UploaderStep
<1>9. CASE Remount
    BY <1>9, RemountStep
<1>10. CASE UNCHANGED vars
    BY <1>10, ListingStep
<1> QED
    BY <1>1, <1>2, <1>3, <1>4, <1>5, <1>6, <1>7, <1>8, <1>9, <1>10 DEF Next

\* What makes a placeholder one that is worked on comes after its handle.
LEMMA HandedOutKept ==
    ASSUME HandedOut, mounted \subseteq mounted', opened' \subseteq opened,
           \A pid \in PendingIds : Stored(pid)' => Stored(pid),
           \A pid \in PendingIds : uploader'.pid = pid =>
              uploader.pid = pid \/ Stored(pid)
    PROVE  HandedOut'
BY DEF HandedOut

\* Only create() takes a handle, and it counts it.
LEMMA HandedOutStep ==
    ASSUME IdsFresh, IndInv, HandedOut, [Next]_vars
    PROVE  HandedOut'
<1>0. /\ Typed /\ NoId \notin PendingIds
      /\ \A pid \in PendingIds : pid \in Ids /\ pid \notin DriveIds
    BY Kinds DEF IndInv
<1>1. ASSUME UNCHANGED <<row, opened, mounted>>, uploader'.pid \in {uploader.pid, NoId}
      PROVE  HandedOut'
    BY <1>0, <1>1, HandedOutKept DEF Stored
<1>2. ASSUME NEW d \in Folders, NEW name \in RawNames, NEW pid \in PendingIds,
             Create(pid, d, name)
      PROVE  HandedOut'
    <2>1. /\ mounted' = mounted \cup {pid} /\ opened' = opened \cup {pid}
          /\ UNCHANGED <<row, uploader>>
        BY <1>2 DEF Create
    <2> QED
        BY <2>1 DEF HandedOut, Stored
<1>3. ASSUME NEW d \in Folders, NEW name \in RawNames
      PROVE  /\ \A pid \in PendingIds : RenamePending(pid, d, name) => HandedOut'
             /\ \A id \in DriveIds :
                   RenameFile(id, d, name) \/ MoveElsewhere(id, d, name) => HandedOut'
    BY <1>1 DEF RenamePending, RenameFile, MoveElsewhere
<1>4. ASSUME NEW pid \in PendingIds, Release(pid)
      PROVE  HandedOut'
    <2>1. /\ pid \in opened /\ opened' = opened \ {pid} /\ UNCHANGED <<mounted, uploader>>
          /\ \A q \in PendingIds \ {pid} : row'[q] = row[q]
        BY <1>0, <1>4 DEF Release, Typed
    <2> QED
        BY <2>1 DEF HandedOut, Stored
<1>5. CASE StoreRenamed
    <2>1. rename.pid \in PendingIds /\ Stored(rename.pid)
        BY <1>5 DEF StoreRenamed, IndInv, Arrivals, RenameStage
    <2>2. /\ \A q \in PendingIds \ {rename.pid} : row'[q] = row[q]
          /\ UNCHANGED <<mounted, opened, uploader>>
        BY <1>0, <1>5, <2>1 DEF StoreRenamed, Typed
    <2> QED
        BY <2>1, <2>2 DEF HandedOut, Stored
<1>6. ASSUME NEW id \in DriveIds, Unlink(id) \/ Follow(id) \/ FollowRemoval(id)
      PROVE  HandedOut'
    <2>1. /\ \A q \in PendingIds : row'[q] = row[q]
          /\ UNCHANGED <<mounted, opened, uploader>>
        BY <1>0, <1>6 DEF Unlink, Follow, FollowRemoval, Typed
    <2> QED
        BY <2>1, HandedOutKept DEF Stored
<1>7. CASE FetchStep \/ \E d \in Folders, id \in Ids : Show(d, id)
    BY <1>1, <1>7 DEF FetchStep, Ask, NumberListed, Merge, Install, Show
<1>8. CASE UploaderStep
    <2>1. ASSUME NEW pid \in PendingIds, Pick(pid) PROVE HandedOut'
        BY <2>1, HandedOutKept DEF Pick, Stored
    <2>2. CASE Reread \/ SendFails \/ Replace \/ Forget
        BY <1>1, <2>2 DEF Reread, SendFails, Replace, Forget, Stage, Resting
    <2>3. ASSUME NEW new \in SpareIds, CreateFile(new) PROVE HandedOut'
        BY <1>1, <2>3 DEF CreateFile, Stage, Resting
    <2>4. CASE Finalize
        <3>1. uploader.pid \in PendingIds /\ uploader.newId \in SpareIds
            BY <2>4 DEF Finalize, IndInv, Arrivals, UploaderStage
        <3>2. /\ \A q \in PendingIds : row'[q] \in {row[q], NoRow}
              /\ UNCHANGED <<mounted, opened>> /\ uploader'.pid = uploader.pid
            BY <1>0, <2>4, <3>1, Kinds DEF Finalize, Typed, Stage
        <3> QED
            BY <3>2, HandedOutKept DEF Stored
    <2>5. CASE Abandon
        <3>1. uploader.pid \in PendingIds
            BY <2>5 DEF Abandon, IndInv, Arrivals, UploaderStage
        <3>2. /\ \A q \in PendingIds : row'[q] \in {row[q], NoRow}
              /\ UNCHANGED <<mounted, opened>> /\ uploader'.pid = uploader.pid
            BY <1>0, <2>5, <3>1 DEF Abandon, Typed, Stage
        <3> QED
            BY <3>2, HandedOutKept DEF Stored
    <2> QED
        BY <1>8, <2>1, <2>2, <2>3, <2>4, <2>5 DEF UploaderStep
<1>9. CASE Remount
    BY <1>0, <1>9, HandedOutKept DEF Remount, IdsFresh, Resting, Stored
<1>10. CASE UNCHANGED vars
    BY <1>1, <1>10 DEF vars
<1> QED
    BY <1>2, <1>3, <1>4, <1>5, <1>6, <1>7, <1>8, <1>9, <1>10 DEF Next

LEMMA Invariance ==
    ASSUME RenamesWait, IdsFresh
    PROVE  Spec => [](IndInv /\ HandedOut)
<1>1. Init => IndInv /\ HandedOut
    <2>1. Init => HandedOut
        BY Kinds DEF Init, HandedOut, Stored, Resting
    <2> QED
        BY <2>1, InitInv
<1>2. IndInv /\ HandedOut /\ [Next]_vars => (IndInv /\ HandedOut)'
    BY StepInv, HandedOutStep
<1> QED
    BY <1>1, <1>2, PTL DEF Spec

\* The inode of a file stands for that file, also after a restart has put the
\* two maps together from the rows, whatever was listed, polled, moved, removed
\* or lost in between, as long as no file is renamed while it is uploaded, and no
\* placeholder id is given out twice: either gives one number to two rows.
THEOREM InodesStayPaired ==
    ASSUME RenamesWait, IdsFresh
    PROVE  Spec => []InodesAgree
<1>1. IndInv => InodesAgree
    BY DEF IndInv, Numbers, Maps, InodesAgree
<1> QED
    BY <1>1, Invariance, PTL

\* Mounts are counted: a step that keeps the count is not a restart.
LEMMA MountsCounted == Spec => [](mounts \in Nat)
<1>1. Init => mounts \in Nat
    BY DEF Init
<1>2. mounts \in Nat /\ [Next]_vars => (mounts \in Nat)'
    <2> SUFFICES ASSUME [Next]_vars
                 PROVE  mounts' = mounts \/ mounts' = mounts + 1
        OBVIOUS
    <2>1. CASE \E d \in Folders, name \in RawNames :
                  \/ \E pid \in PendingIds :
                        Create(pid, d, name) \/ RenamePending(pid, d, name)
                  \/ \E id \in DriveIds :
                        RenameFile(id, d, name) \/ MoveElsewhere(id, d, name)
        BY <2>1 DEF Create, RenamePending, RenameFile, MoveElsewhere
    <2>2. CASE StoreRenamed \/ \E pid \in PendingIds : Release(pid)
        BY <2>2 DEF StoreRenamed, Release
    <2>3. CASE \E id \in DriveIds : Unlink(id) \/ Follow(id) \/ FollowRemoval(id)
        BY <2>3 DEF Unlink, Follow, FollowRemoval
    <2>4. CASE FetchStep \/ \E d \in Folders, id \in Ids : Show(d, id)
        BY <2>4 DEF FetchStep, Ask, NumberListed, Merge, Install, Show
    <2>5. CASE UploaderStep
        BY <2>5 DEF UploaderStep, Pick, Reread, SendFails, Finalize, Replace, Abandon,
                    Forget, CreateFile
    <2>6. CASE Remount
        BY <2>6 DEF Remount
    <2> QED
        BY <2>1, <2>2, <2>3, <2>4, <2>5, <2>6 DEF Next, vars
<1> QED
    BY <1>1, <1>2, PTL DEF Spec

KeepsFile ==
    \A ino \in Inodes :
        idAt[ino] # NoId /\ mounts' = mounts =>
           \/ idAt'[ino] = idAt[ino]
           \/ Replace /\ idAt[ino] = uploader.pid /\ idAt'[ino] = uploader.newId
           \/ Forget /\ idAt[ino] = uploader.pid /\ idAt'[ino] = NoId

LEMMA KeepsFileStep ==
    IndInv /\ mounts \in Nat /\ [Next]_vars => KeepsFile
<1> SUFFICES ASSUME IndInv, mounts \in Nat, [Next]_vars
             PROVE  KeepsFile
    OBVIOUS
<1>1. ASSUME NEW id \in Ids, Number(id)
      PROVE  KeepsFile
    BY <1>1, NumberStep DEF KeepsFile, IndInv, Numbers
<1>2. ASSUME UNCHANGED inodes
      PROVE  KeepsFile
    BY <1>2 DEF KeepsFile, inodes
<1>3. CASE Replace
    BY <1>3, ReplaceMaps DEF KeepsFile
<1>4. CASE Forget
    BY <1>4, ForgetMaps DEF KeepsFile
<1>5. CASE Remount
    BY <1>5 DEF KeepsFile, Remount
<1>6. ASSUME NEW d \in Folders, NEW name \in RawNames, NEW pid \in PendingIds,
             Create(pid, d, name) \/ RenamePending(pid, d, name)
      PROVE  KeepsFile
    BY <1>1, <1>2, <1>6, Kinds DEF Create, RenamePending
<1>7. ASSUME NEW d \in Folders, NEW name \in RawNames, NEW id \in DriveIds,
             RenameFile(id, d, name) \/ MoveElsewhere(id, d, name)
      PROVE  KeepsFile
    BY <1>1, <1>2, <1>7, Kinds DEF RenameFile, MoveElsewhere
<1>8. ASSUME NEW pid \in PendingIds, Release(pid)
      PROVE  KeepsFile
    BY <1>1, <1>8, Kinds DEF Release
<1>9. CASE StoreRenamed
    BY <1>2, <1>9 DEF StoreRenamed
<1>10. ASSUME NEW id \in DriveIds, Unlink(id) \/ Follow(id) \/ FollowRemoval(id)
       PROVE  KeepsFile
    BY <1>1, <1>2, <1>10, Kinds DEF Unlink, Follow, FollowRemoval
<1>11. ASSUME NEW d \in Folders, NEW id \in Ids, Show(d, id)
       PROVE  KeepsFile
    BY <1>1, <1>11 DEF Show
<1>12. CASE FetchStep
    BY <1>1, <1>2, <1>12, Kinds DEF FetchStep, Ask, NumberListed, Merge, Install
<1>13. CASE UploaderStep
    BY <1>2, <1>3, <1>4, <1>13
       DEF UploaderStep, Pick, Reread, SendFails, Finalize, Abandon, CreateFile
<1>14. CASE UNCHANGED vars
    BY <1>2, <1>14 DEF vars
<1> QED
    BY <1>5, <1>6, <1>7, <1>8, <1>9, <1>10, <1>11, <1>12, <1>13, <1>14 DEF Next

\* Until the next mount an inode stands for one file: an upload changes the id
\* behind it, from the placeholder's to the one Drive gave, and it is taken
\* away only from a placeholder that is given up (replace_pending_id,
\* remove_pending_from_dir).  No file is renamed while it is uploaded, and no
\* placeholder id is given out twice.
THEOREM InodesKeepTheirFile ==
    ASSUME RenamesWait, IdsFresh
    PROVE  Spec => InodeKeepsFile
<1>1. IndInv /\ mounts \in Nat /\ [Next]_vars => [KeepsFile]_vars
    BY KeepsFileStep
<1>2. Spec => [][KeepsFile]_vars
    BY <1>1, Invariance, MountsCounted, PTL DEF Spec
<1> QED
    BY <1>2, PTL DEF InodeKeepsFile, KeepsFile

NamedAsWanted ==
    \A new \in SpareIds : CreateFile(new) => drive'[new] = wanted[uploader.pid]

\* Drive gets a new file under the name and in the folder the user wants for it
\* at that moment, however often it was renamed or moved before and whatever
\* restarts and failed attempts lie in between (rename_pending, upload_entry),
\* as long as no file is renamed while it is uploaded, and no mount gives the
\* placeholder id of a file that an earlier one has left dirty to another file.
THEOREM NewFilesNamedAsWanted ==
    ASSUME RenamesWait, IdsFresh
    PROVE  Spec => CreatedAsNamed
<1>1. ASSUME IndInv, NEW new \in SpareIds, CreateFile(new)
      PROVE  drive'[new] = wanted[uploader.pid]
    <2>1. /\ uploader.phase = "send"
          /\ drive' = [drive EXCEPT ![new] = uploader.to]
        BY <1>1 DEF CreateFile
    <2>2. uploader.to = wanted[uploader.pid]
        BY <1>1, <2>1 DEF IndInv, Arrivals, UploaderStage
    <2> QED
        BY <1>1, <2>1, <2>2, Kinds DEF IndInv, Typed
<1>2. IndInv => [NamedAsWanted]_vars
    BY <1>1 DEF NamedAsWanted
<1>3. Spec => [][NamedAsWanted]_vars
    BY <1>2, Invariance, PTL DEF Spec
<1> QED
    BY <1>3, PTL DEF CreatedAsNamed, NamedAsWanted

=============================================================================
