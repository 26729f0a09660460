----------------------------- MODULE ListingProofs -----------------------------
(***************************************************************************)
(* Proofs about the listings and the names of Namespace.tla, in layers:     *)
(*                                                                         *)
(*   ShapeInv      every variable has its type (TypeOK), whatever disturbs *)
(*                 the client;                                             *)
(*   TypeInv       that, and the invariant of NamespaceProofs, while no    *)
(*                 file is renamed under upload (RenamesWait) and no       *)
(*                 placeholder id is given out again (IdsFresh);           *)
(*   ListInv       placeholders are listed where they are                  *)
(*                 (PlaceholdersListed), if no listing is on its way while *)
(*                 its folder gets or loses a file (FetchesWait);          *)
(*   ShownInv      names differ and files do not vanish (UniqueNames,      *)
(*                 NeverVanishes), if a file that was shown moves only to  *)
(*                 where no file is shown under its name (FilesStay);      *)
(*   CopiesArrive  a placeholder does not take the name of its own file    *)
(*                 (OwnNameIsFree), if the answer of create_file is not    *)
(*                 lost (AnswersArrive); FilesStay is not needed here.     *)
(*                                                                         *)
(* Each hypothesis rules out one disturbance, and with it the code breaks  *)
(* the layer: TLC shows how.  Crashes, restarts and the poller are in all. *)
(*                                                                         *)
(* The first part is about the folds that build listings and names.        *)
(***************************************************************************)
EXTENDS NamespaceProofs, FiniteSetTheorems, SequenceTheorems

-----------------------------------------------------------------------------
(* Folds over sequences of entries.                                         *)

\* Induction up to N, for a set instead of a predicate.
LEMMA UpTo ==
    ASSUME NEW N \in Nat, NEW S, 0 \in S,
           \A n \in 0..(N - 1) : n \in S => n + 1 \in S
    PROVE  N \in S
<1> DEFINE Missed == {n \in 0..N : n \notin S}
<1> SUFFICES ASSUME N \notin S PROVE FALSE
    OBVIOUS
<1>1. Missed \in SUBSET Nat /\ N \in Missed
    OBVIOUS
<1>2. PICK m \in Missed : \A k \in Missed : m <= k
    BY <1>1, LeastNumber
<1>3. m # 0 /\ m \in 1..N
    BY <1>2
<1>4. m - 1 \in 0..(N - 1) /\ m - 1 \notin Missed
    BY <1>2, <1>3
<1>5. m - 1 \in S
    BY <1>4
<1>6. m \in S
    BY <1>3, <1>4, <1>5
<1> QED
    BY <1>2, <1>6

\* A part of 1..N has a largest element.
LEMMA MaxIsLargest ==
    ASSUME NEW N \in Nat, NEW s \in SUBSET (1..N), s # {}
    PROVE  Max(s) \in s /\ \A i \in s : i <= Max(s)
<1> DEFINE Below == {N - i : i \in s}
<1>1. PICK j \in s : TRUE
    OBVIOUS
<1>2. Below \in SUBSET Nat /\ N - j \in Below
    OBVIOUS
<1>3. PICK m \in Below : \A k \in Below : m <= k
    BY <1>2, LeastNumber
<1>4. PICK top \in s : m = N - top
    BY <1>3
<1>5. ASSUME NEW i \in s
      PROVE  i <= top
    <2>1. N - top <= N - i
        BY <1>3, <1>4
    <2> QED
        BY <2>1
<1>6. \E x \in s : \A y \in s : x >= y
    BY <1>5
<1>7. Max(s) \in s /\ \A y \in s : Max(s) >= y
    BY <1>6 DEF Max
<1> QED
    BY <1>7

\* What FoldLeft computes for each part of 1..N, when Step is what it applies
\* at each place.
FoldsBy(g, base, Step, N) ==
    g = [s \in SUBSET (1..N) |->
            IF s = {} THEN base ELSE Step[Max(s)][g[s \ {Max(s)}]]]

\* There is such a function when the steps stay in a set of values.
LEMMA FoldExtends ==
    ASSUME NEW N \in Nat, NEW Values, NEW base \in Values,
           NEW Step \in [1..(N + 1) -> [Values -> Values]],
           NEW g \in [SUBSET (1..N) -> Values], FoldsBy(g, base, Step, N)
    PROVE  \E h \in [SUBSET (1..(N + 1)) -> Values] : FoldsBy(h, base, Step, N + 1)
<1> DEFINE h == [s \in SUBSET (1..(N + 1)) |->
                    IF N + 1 \in s THEN Step[N + 1][g[s \ {N + 1}]] ELSE g[s]]
<1>1. ASSUME NEW s \in SUBSET (1..(N + 1)), N + 1 \in s
      PROVE  /\ h[s] \in Values /\ Max(s) = N + 1
             /\ h[s] = Step[Max(s)][h[s \ {Max(s)}]]
    <2>1. s \ {N + 1} \in SUBSET (1..N)
        OBVIOUS
    <2>2. s \ {N + 1} \in SUBSET (1..(N + 1))
        BY <2>1
    <2>3. h[s \ {N + 1}] = g[s \ {N + 1}] /\ g[s \ {N + 1}] \in Values
        BY <2>1, <2>2
    <2>4. h[s] = Step[N + 1][g[s \ {N + 1}]]
        BY <1>1
    <2>5. Max(s) \in s /\ \A i \in s : i <= Max(s)
        <3>1. N + 1 \in Nat /\ s # {}
            BY <1>1
        <3> QED
            BY <3>1, MaxIsLargest
    <2>6. Max(s) \in 1..(N + 1) /\ N + 1 <= Max(s)
        BY <1>1, <2>5
    <2>7. Max(s) = N + 1
        BY <2>6
    <2>8. Step[N + 1][g[s \ {N + 1}]] \in Values
        BY <2>3
    <2> HIDE DEF h
    <2> QED
        BY <2>3, <2>4, <2>7, <2>8
<1>2. ASSUME NEW s \in SUBSET (1..(N + 1)), N + 1 \notin s
      PROVE  /\ h[s] \in Values
             /\ h[s] = IF s = {} THEN base ELSE Step[Max(s)][h[s \ {Max(s)}]]
    <2>1. s \in SUBSET (1..N)
        BY <1>2
    <2>2. h[s] = g[s] /\ g[s] \in Values
        BY <1>2, <2>1
    <2>3. g[s] = IF s = {} THEN base ELSE Step[Max(s)][g[s \ {Max(s)}]]
        BY <2>1 DEF FoldsBy
    <2>4. h[s \ {Max(s)}] = g[s \ {Max(s)}]
        BY <1>2, <2>1
    <2> HIDE DEF h
    <2> QED
        BY <2>2, <2>3, <2>4
<1>3. h \in [SUBSET (1..(N + 1)) -> Values]
    <2>1. \A s \in SUBSET (1..(N + 1)) : h[s] \in Values
        BY <1>1, <1>2
    <2> QED
        BY <2>1
<1>4. FoldsBy(h, base, Step, N + 1)
    <2>1. \A s \in SUBSET (1..(N + 1)) :
             h[s] = IF s = {} THEN base ELSE Step[Max(s)][h[s \ {Max(s)}]]
        <3> HIDE DEF h
        <3> QED
            BY <1>1, <1>2
    <2>2. h = [s \in SUBSET (1..(N + 1)) |-> h[s]]
        OBVIOUS
    <2> HIDE DEF h
    <2> QED
        BY <2>1, <2>2 DEF FoldsBy
<1> QED
    BY <1>3, <1>4

\* Hence there is one for all of 1..N.
LEMMA FoldExists ==
    ASSUME NEW N \in Nat, NEW Values, NEW base \in Values,
           NEW Step \in [1..N -> [Values -> Values]]
    PROVE  \E g \in [SUBSET (1..N) -> Values] : FoldsBy(g, base, Step, N)
<1> DEFINE Reached ==
        {n \in 0..N : \E g \in [SUBSET (1..n) -> Values] : FoldsBy(g, base, Step, n)}
<1>1. 0 \in Reached
    <2> DEFINE g == [s \in SUBSET (1..0) |-> base]
    <2>1. \A s \in SUBSET (1..0) : s = {}
        OBVIOUS
    <2>2. g \in [SUBSET (1..0) -> Values] /\ FoldsBy(g, base, Step, 0)
        BY <2>1 DEF FoldsBy
    <2> QED
        BY <2>2
<1>2. ASSUME NEW n \in 0..(N - 1), n \in Reached
      PROVE  n + 1 \in Reached
    <2>1. PICK g \in [SUBSET (1..n) -> Values] : FoldsBy(g, base, Step, n)
        BY <1>2
    <2>5. n \in Nat
        OBVIOUS
    <2> DEFINE Sub == [i \in 1..(n + 1) |-> Step[i]]
    <2>2. Sub \in [1..(n + 1) -> [Values -> Values]]
        OBVIOUS
    <2>3. \A i \in 1..(n + 1), v \in Values : Sub[i][v] = Step[i][v]
        OBVIOUS
    <2> HIDE DEF Sub
    <2>4. FoldsBy(g, base, Sub, n)
        <3>1. ASSUME NEW s \in SUBSET (1..n), s # {}
              PROVE  Sub[Max(s)][g[s \ {Max(s)}]] = Step[Max(s)][g[s \ {Max(s)}]]
            <4>1. Max(s) \in s
                BY <3>1, <2>5, MaxIsLargest
            <4>2. Max(s) \in 1..n
                BY <4>1
            <4>3. Max(s) \in 1..(n + 1)
                BY <4>2, <2>5
            <4>4. s \ {Max(s)} \in SUBSET (1..n)
                OBVIOUS
            <4>5. g[s \ {Max(s)}] \in Values
                BY <4>4, <2>1
            <4> QED
                BY <4>3, <4>5, <2>3
        <3> QED
            BY <2>1, <3>1 DEF FoldsBy
    <2>6. PICK h \in [SUBSET (1..(n + 1)) -> Values] : FoldsBy(h, base, Sub, n + 1)
        BY <2>2, <2>4, <2>5, <2>1, FoldExtends
    <2>7. FoldsBy(h, base, Step, n + 1)
        <3>1. ASSUME NEW s \in SUBSET (1..(n + 1)), s # {}
              PROVE  Sub[Max(s)][h[s \ {Max(s)}]] = Step[Max(s)][h[s \ {Max(s)}]]
            <4>1. Max(s) \in s
                <5>1. n + 1 \in Nat
                    OBVIOUS
                <5> QED
                    BY <3>1, <5>1, MaxIsLargest
            <4>2. Max(s) \in 1..(n + 1) /\ h[s \ {Max(s)}] \in Values
                BY <4>1, <2>6
            <4> QED
                BY <4>2, <2>3
        <3> QED
            BY <2>6, <3>1 DEF FoldsBy
    <2> QED
        BY <2>7
<1> HIDE DEF Reached
<1>3. N \in Reached
    BY <1>1, <1>2, UpTo
<1> QED
    BY <1>3 DEF Reached

\* A sequence with one element more.
LEMMA Appended ==
    ASSUME NEW S, NEW list \in Seq(S), NEW e \in S
    PROVE  /\ Append(list, e) \in Seq(S)
           /\ Len(Append(list, e)) = Len(list) + 1
           /\ \A i \in 1..Len(list) : Append(list, e)[i] = list[i]
           /\ Append(list, e)[Len(list) + 1] = e
BY AppendProperties

\* Suffixes tell names apart, and can be taken off again.
LEMMA SuffixesDiffer ==
    ASSUME NEW name \in RawNames, NEW n \in Nat
    PROVE  /\ Suffix(name, n) # name /\ Front(Suffix(name, n)) = name
           /\ \A m \in Nat : Suffix(name, m) = Suffix(name, n) => m = n
<1> DEFINE S == Bases \cup Nat
<1>1. PICK b \in Bases : name = <<b>>
    BY DEF RawNames
<1>2. name \in Seq(S) /\ Len(name) = 1
    BY <1>1
<1>3. ASSUME NEW m \in Nat
      PROVE  /\ Suffix(name, m) \in Seq(S) /\ Len(Suffix(name, m)) = 2
             /\ Suffix(name, m)[1] = name[1] /\ Suffix(name, m)[2] = m
    <2>1. m \in S
        OBVIOUS
    <2> HIDE DEF S
    <2>2. /\ Append(name, m) \in Seq(S)
          /\ Len(Append(name, m)) = Len(name) + 1
          /\ \A i \in 1..Len(name) : Append(name, m)[i] = name[i]
          /\ Append(name, m)[Len(name) + 1] = m
        BY <1>2, <2>1, Appended
    <2>3. Suffix(name, m) = Append(name, m)
        BY DEF Suffix
    <2>4. 1 \in 1..Len(name) /\ Len(name) + 1 = 2
        BY <1>2
    <2> QED
        BY <2>2, <2>3, <2>4
<1>4. Front(Suffix(name, n)) = name
    <2> DEFINE s == Suffix(name, n)
               t == SubSeq(s, 1, 1)
    <2>1. s \in Seq(S) /\ Len(s) = 2 /\ s[1] = name[1]
        BY <1>3
    <2> HIDE DEF s
    <2>2. Front(s) = t
        BY <2>1 DEF Front
    <2>3. \A i \in 1..1 : s[i] \in S
        BY <2>1
    <2>4. t \in Seq(S) /\ Len(t) = 1 /\ t[1] = s[1]
        BY <2>3, SubSeqProperties
    <2> HIDE DEF t
    <2>5. t = name
        BY <1>2, <2>1, <2>4, SeqEqual
    <2> QED
        BY <2>2, <2>5 DEF s
<1>5. Suffix(name, n) # name
    BY <1>2, <1>3
<1>6. \A m \in Nat : Suffix(name, m) = Suffix(name, n) => m = n
    BY <1>3
<1> QED
    BY <1>4, <1>5, <1>6

\* The name that resolve finds is free; it is the wanted one, or a suffix of it
\* when that one is taken.  There are more suffixes than files that take them.
LEMMA FreeNameIsFree ==
    ASSUME NEW name \in RawNames, NEW taken,
           IsFiniteSet(taken), Cardinality(taken) <= Cardinality(Ids)
    PROVE  LET free == FreeName(name, taken)
           IN  /\ free \in ShownNames /\ free \notin taken
               /\ \/ free = name
                  \/ name \in taken /\ Front(free) = name
<1> DEFINE C == Cardinality(Ids)
           free == FreeName(name, taken)
           Free(n) == Suffix(name, n) \notin taken
<1>1. C \in Nat
    BY NamesAssumption, FS_CardinalityType
<1>2. CASE name \notin taken
    <2>1. free = name
        BY <1>2 DEF FreeName
    <2> QED
        BY <1>2, <2>1 DEF ShownNames
<1>3. CASE name \in taken
    <2>1. \E n \in 1..C : Free(n)
        <3> SUFFICES ASSUME \A n \in 1..C : ~Free(n)
                     PROVE  FALSE
            OBVIOUS
        <3> DEFINE rest == taken \ {name}
                   f == [n \in 1..C |-> Suffix(name, n)]
        <3>1. IsFiniteSet(rest) /\ Cardinality(rest) = Cardinality(taken) - 1
            BY <1>3, FS_RemoveElement
        <3>2. IsFiniteSet(1..C) /\ Cardinality(1..C) = C
            BY <1>1, FS_Interval
        <3>3. Cardinality(taken) \in Nat
            BY FS_CardinalityType
        <3>4. Cardinality(rest) < Cardinality(1..C)
            BY <1>1, <3>1, <3>2, <3>3
        <3>5. f \in [1..C -> rest]
            <4>1. ASSUME NEW n \in 1..C
                  PROVE  Suffix(name, n) \in rest
                <5>1. n \in Nat
                    BY <1>1
                <5> QED
                    BY <5>1, SuffixesDiffer
            <4> QED
                BY <4>1
        <3> HIDE DEF rest, f
        <3>6. PICK x, y \in 1..C : x # y /\ f[x] = f[y]
            BY <3>1, <3>2, <3>4, <3>5, FS_PigeonHole
        <3>7. x \in Nat /\ y \in Nat /\ Suffix(name, x) = Suffix(name, y)
            BY <3>6, <1>1 DEF f
        <3> QED
            BY <3>6, <3>7, SuffixesDiffer
    <2> DEFINE Suited(n) == Free(n) /\ \A m \in 1..(n - 1) : ~Free(m)
    <2>2. \E n \in 1..C : Suited(n)
        <3> DEFINE T == {n \in 1..C : Free(n)}
        <3>1. PICK n \in T : TRUE
            BY <2>1
        <3>2. T \in SUBSET Nat
            BY <1>1
        <3>3. PICK m \in T : \A k \in T : m <= k
            BY <3>1, <3>2, LeastNumber
        <3>4. \A k \in 1..(m - 1) : k \notin T
            BY <3>2, <3>3
        <3>5. \A k \in 1..(m - 1) : k \in 1..C
            BY <3>3, <1>1
        <3> QED
            BY <3>3, <3>4, <3>5
    <2> DEFINE n == CHOOSE i \in 1..C : Suited(i)
    <2>3. n \in 1..C /\ Suited(n)
        BY <2>2
    <2>4. free = Suffix(name, n)
        BY <1>3 DEF FreeName
    <2>5. free \notin taken
        BY <2>3, <2>4
    <2> HIDE DEF n, free
    <2>6. n \in Nat
        BY <2>3, <1>1
    <2>7. Front(free) = name
        BY <2>4, <2>6, SuffixesDiffer
    <2>8. free \in ShownNames
        BY <2>3, <2>4 DEF ShownNames
    <2> QED
        BY <1>3, <2>5, <2>7, <2>8 DEF free
<1> QED
    BY <1>2, <1>3

\* No more names are taken than there are files.
LEMMA FewNamesTaken ==
    ASSUME NEW names, NEW ids \in SUBSET Ids
    PROVE  /\ IsFiniteSet(NamesTaken(names, ids))
           /\ Cardinality(NamesTaken(names, ids)) <= Cardinality(Ids)
<1> DEFINE T == {names[id] : id \in ids}
           f == [id \in ids |-> names[id]]
<1>1. IsFiniteSet(ids) /\ Cardinality(ids) <= Cardinality(Ids)
    BY NamesAssumption, FS_Subset
<1>2. f \in Surjection(ids, T)
    BY DEF Surjection
<1>3. IsFiniteSet(T) /\ Cardinality(T) <= Cardinality(ids)
    BY <1>1, <1>2, FS_Surjection
<1>4. NamesTaken(names, ids) \in SUBSET T
    BY DEF NamesTaken
<1>5. IsFiniteSet(NamesTaken(names, ids))
      /\ Cardinality(NamesTaken(names, ids)) <= Cardinality(T)
    BY <1>3, <1>4, FS_Subset
<1>6. /\ Cardinality(NamesTaken(names, ids)) \in Nat /\ Cardinality(T) \in Nat
      /\ Cardinality(ids) \in Nat /\ Cardinality(Ids) \in Nat
    BY <1>1, <1>3, <1>5, NamesAssumption, FS_CardinalityType
<1> QED
    BY <1>1, <1>3, <1>5, <1>6

\* The fold of Step, as far as it comes to values.
FoldsTo(all, base, Step, Values, N) ==
    /\ all[{}] = base
    /\ \A s \in SUBSET (1..N) : s # {} /\ all[s \ {Max(s)}] \in Values =>
          all[s] = Step[Max(s)][all[s \ {Max(s)}]]

\* f goes through the values of that fold, place by place.
GoesAlong(f, all, base, Step, N) ==
    /\ f[0] = base
    /\ \A n \in 1..N : f[n] = Step[n][f[n - 1]]
    /\ f[N] = all[1..N]

\* What a fold computes, place by place.  Its steps need to be what Step says
\* only where the fold has come to a value.
LEMMA FoldValues ==
    ASSUME NEW N \in Nat, NEW Values, NEW base \in Values,
           NEW Step \in [1..N -> [Values -> Values]],
           NEW all, FoldsTo(all, base, Step, Values, N)
    PROVE  \E f \in [0..N -> Values] : GoesAlong(f, all, base, Step, N)
<1> DEFINE f == [n \in 0..N |-> all[1..n]]
<1>1. \A n \in 0..N : f[n] = all[1..n]
    OBVIOUS
<1> HIDE DEF f
<1>2. f[0] = base
    <2>1. 1..0 = {} /\ 0 \in 0..N
        OBVIOUS
    <2> QED
        BY <1>1, <2>1 DEF FoldsTo
<1>3. ASSUME NEW n \in 1..N, f[n - 1] \in Values
      PROVE  f[n] = Step[n][f[n - 1]]
    <2>1. n \in 1..n /\ 1..n \in SUBSET (1..N) /\ n \in 0..N /\ n - 1 \in 0..N
        OBVIOUS
    <2>2. Max(1..n) \in 1..n /\ n <= Max(1..n)
        <3>1. 1..n # {}
            BY <2>1
        <3> QED
            BY <2>1, <3>1, MaxIsLargest
    <2>3. Max(1..n) = n /\ (1..n) \ {n} = 1..(n - 1)
        BY <2>2
    <2>4. all[1..(n - 1)] = f[n - 1] /\ all[1..n] = f[n]
        BY <1>1, <2>1
    <2> QED
        BY <1>3, <2>1, <2>3, <2>4 DEF FoldsTo
<1> DEFINE Good == {n \in 0..N : f[n] \in Values}
<1>4. 0 \in Good
    BY <1>2
<1>5. ASSUME NEW n \in 0..(N - 1), n \in Good
      PROVE  n + 1 \in Good
    <2>1. n + 1 \in 1..N /\ n + 1 \in 0..N /\ (n + 1) - 1 = n
        OBVIOUS
    <2>2. f[n + 1] = Step[n + 1][f[n]]
        BY <1>3, <1>5, <2>1
    <2>3. Step[n + 1] \in [Values -> Values] /\ f[n] \in Values
        BY <1>5, <2>1
    <2> QED
        BY <2>1, <2>2, <2>3
<1>6. \A n \in 0..N : f[n] \in Values
    <2>1. ASSUME NEW m \in 0..N
          PROVE  m \in Good
        <3>1. m \in Nat /\ \A n \in 0..(m - 1) : n \in 0..(N - 1)
            OBVIOUS
        <3> HIDE DEF Good
        <3> QED
            BY <1>4, <1>5, <3>1, UpTo
    <2> QED
        BY <2>1
<1>7. f \in [0..N -> Values]
    BY <1>6 DEF f
<1>8. \A n \in 1..N : f[n] = Step[n][f[n - 1]]
    <2>1. \A n \in 1..N : n - 1 \in 0..N
        OBVIOUS
    <2> QED
        BY <1>3, <1>6, <2>1
<1>9. f[N] = all[1..N]
    BY <1>1
<1> QED
    BY <1>2, <1>7, <1>8, <1>9 DEF GoesAlong

ShownTo == [Ids -> ShownNames \cup {NoName}]

\* One step of Kept.
Keeping(list, ids, e) == IF e.id \in ids THEN Append(list, e) ELSE list

\* Kept, entry by entry.
LEMMA KeptSteps ==
    ASSUME NEW files \in Seq(Entries), NEW ids
    PROVE  \E f \in [0..Len(files) -> Seq(Entries)] :
              /\ f[0] = <<>>
              /\ \A n \in 1..Len(files) : f[n] = Keeping(f[n - 1], ids, files[n])
              /\ Kept(files, ids) = f[Len(files)]
<1> DEFINE N == Len(files)
           Values == Seq(Entries)
           start == <<>>
           Step == [i \in 1..N |-> [v \in Values |-> Keeping(v, ids, files[i])]]
           Folds(g) == g = [s \in SUBSET (1..N) |->
                              IF s = {} THEN <<>>
                              ELSE Keeping(g[s \ {Max(s)}], ids, files[Max(s)])]
           all == CHOOSE g : Folds(g)
<1>1. N \in Nat /\ DOMAIN files = 1..N /\ \A i \in 1..N : files[i] \in Entries
    OBVIOUS
<1>2. start \in Values
    OBVIOUS
<1>3. Step \in [1..N -> [Values -> Values]]
    <2>1. \A v \in Values, e \in Entries : Keeping(v, ids, e) \in Values
        BY DEF Keeping
    <2> QED
        BY <1>1, <2>1
<1>4. \A i \in 1..N, v \in Values : Step[i][v] = Keeping(v, ids, files[i])
    OBVIOUS
<1>5. Kept(files, ids) = all[1..N]
    BY <1>1 DEF Kept, FoldLeft, MapThenFoldSet, Keeping
<1> HIDE DEF Step
<1>6. Folds(all)
    <2>1. PICK h \in [SUBSET (1..N) -> Values] : FoldsBy(h, start, Step, N)
        BY <1>1, <1>2, <1>3, FoldExists
    <2>2. \A s \in SUBSET (1..N) : s # {} =>
             Step[Max(s)][h[s \ {Max(s)}]] = Keeping(h[s \ {Max(s)}], ids, files[Max(s)])
        BY <1>1, <1>4, <2>1, MaxIsLargest
    <2>3. Folds(h)
        BY <2>1, <2>2 DEF FoldsBy
    <2> QED
        BY <2>3
<1>7. FoldsTo(all, start, Step, Values, N)
    BY <1>1, <1>4, <1>6, MaxIsLargest DEF FoldsTo
<1> HIDE DEF N, Values, start, all, Folds
<1>8. PICK f \in [0..N -> Values] : GoesAlong(f, all, start, Step, N)
    BY <1>1, <1>2, <1>3, <1>7, FoldValues
<1>9. \A n \in 1..N : f[n] = Keeping(f[n - 1], ids, files[n])
    <2>1. \A n \in 1..N : n - 1 \in 0..N
        BY <1>1
    <2> QED
        BY <1>4, <1>8, <2>1 DEF GoesAlong
<1> QED
    BY <1>5, <1>8, <1>9 DEF GoesAlong, N, Values, start

\* WithEntries, entry by entry.
LEMMA WithEntriesSteps ==
    ASSUME NEW list \in Seq(Entries), NEW files \in Seq(Entries)
    PROVE  \E f \in [0..Len(files) -> Seq(Entries)] :
              /\ f[0] = list
              /\ \A n \in 1..Len(files) : f[n] = WithEntry(f[n - 1], files[n])
              /\ WithEntries(list, files) = f[Len(files)]
<1> DEFINE N == Len(files)
           Values == Seq(Entries)
           start == list
           Step == [i \in 1..N |-> [v \in Values |-> WithEntry(v, files[i])]]
           Folds(g) == g = [s \in SUBSET (1..N) |->
                              IF s = {} THEN list
                              ELSE WithEntry(g[s \ {Max(s)}], files[Max(s)])]
           all == CHOOSE g : Folds(g)
<1>1. N \in Nat /\ DOMAIN files = 1..N /\ \A i \in 1..N : files[i] \in Entries
    OBVIOUS
<1>2. start \in Values
    OBVIOUS
<1>3. Step \in [1..N -> [Values -> Values]]
    <2>1. \A v \in Values, e \in Entries : WithEntry(v, e) \in Values
        BY DEF WithEntry
    <2> QED
        BY <1>1, <2>1
<1>4. \A i \in 1..N, v \in Values : Step[i][v] = WithEntry(v, files[i])
    OBVIOUS
<1>5. WithEntries(list, files) = all[1..N]
    BY <1>1 DEF WithEntries, FoldLeft, MapThenFoldSet
<1> HIDE DEF Step
<1>6. Folds(all)
    <2>1. PICK h \in [SUBSET (1..N) -> Values] : FoldsBy(h, start, Step, N)
        BY <1>1, <1>2, <1>3, FoldExists
    <2>2. \A s \in SUBSET (1..N) : s # {} =>
             Step[Max(s)][h[s \ {Max(s)}]] = WithEntry(h[s \ {Max(s)}], files[Max(s)])
        BY <1>1, <1>4, <2>1, MaxIsLargest
    <2>3. Folds(h)
        BY <2>1, <2>2 DEF FoldsBy
    <2> QED
        BY <2>3
<1>7. FoldsTo(all, start, Step, Values, N)
    BY <1>1, <1>4, <1>6, MaxIsLargest DEF FoldsTo
<1> HIDE DEF N, Values, start, all, Folds
<1>8. PICK f \in [0..N -> Values] : GoesAlong(f, all, start, Step, N)
    BY <1>1, <1>2, <1>3, <1>7, FoldValues
<1>9. \A n \in 1..N : f[n] = WithEntry(f[n - 1], files[n])
    <2>1. \A n \in 1..N : n - 1 \in 0..N
        BY <1>1
    <2> QED
        BY <1>4, <1>8, <2>1 DEF GoesAlong
<1> QED
    BY <1>5, <1>8, <1>9 DEF GoesAlong, N, Values, start

\* The ids of a sequence of entries.
LEMMA IdsTyped ==
    ASSUME NEW files \in Seq(Entries)
    PROVE  /\ IdsOf(files) \in SUBSET Ids
           /\ \A id : Has(files, id) <=> id \in IdsOf(files)
           /\ \A i \in DOMAIN files : files[i] \in Entries /\ files[i].id \in IdsOf(files)
<1>1. ASSUME NEW i \in DOMAIN files
      PROVE  files[i] \in Entries /\ files[i].id \in Ids
    <2>1. files[i] \in Entries
        OBVIOUS
    <2> QED
        BY <2>1 DEF Entries
<1>2. IdsOf(files) \in SUBSET Ids
    BY <1>1 DEF IdsOf
<1>3. \A id : Has(files, id) <=> id \in IdsOf(files)
    BY DEF Has, Positions, IdsOf
<1>4. \A i \in DOMAIN files : files[i].id \in IdsOf(files)
    BY DEF IdsOf
<1> QED
    BY <1>1, <1>2, <1>3, <1>4

\* One more name that is given.
LEMMA WithNameTyped ==
    ASSUME NEW names \in ShownTo, NEW ids \in SUBSET Ids, NEW e \in Entries
    PROVE  /\ WithName(names, ids, e) \in ShownTo
           /\ \A id \in Ids : (id # e.id \/ names[id] # NoName) =>
                 WithName(names, ids, e)[id] = names[id]
           /\ names[e.id] = NoName =>
                LET new == WithName(names, ids, e)[e.id]
                IN  /\ new # NoName /\ new \notin NamesTaken(names, ids)
                    /\ \/ new = e.name
                       \/ e.name \in NamesTaken(names, ids) /\ Front(new) = e.name
<1> DEFINE free == FreeName(e.name, NamesTaken(names, ids))
<1>1. e.id \in Ids /\ e.name \in RawNames
    BY DEF Entries
<1>2. /\ IsFiniteSet(NamesTaken(names, ids))
      /\ Cardinality(NamesTaken(names, ids)) <= Cardinality(Ids)
    BY FewNamesTaken
<1>3. /\ free \in ShownNames /\ free \notin NamesTaken(names, ids)
      /\ \/ free = e.name
         \/ e.name \in NamesTaken(names, ids) /\ Front(free) = e.name
    BY <1>1, <1>2, FreeNameIsFree
<1>4. free # NoName
    BY <1>3, NoNameAssumption
<1> HIDE DEF free
<1>5. WithName(names, ids, e) =
         IF names[e.id] # NoName THEN names ELSE [names EXCEPT ![e.id] = free]
    BY DEF WithName, free
<1>6. CASE names[e.id] # NoName
    BY <1>5, <1>6
<1>7. CASE names[e.id] = NoName
    <2>1. WithName(names, ids, e) = [names EXCEPT ![e.id] = free]
        BY <1>5, <1>7
    <2>2. [names EXCEPT ![e.id] = free] \in ShownTo
        BY <1>1, <1>3 DEF ShownTo
    <2>3. WithName(names, ids, e)[e.id] = free
        BY <1>1, <2>1 DEF ShownTo
    <2>4. \A id \in Ids : id # e.id => WithName(names, ids, e)[id] = names[id]
        BY <2>1 DEF ShownTo
    <2> QED
        BY <1>3, <1>4, <1>7, <2>1, <2>2, <2>3, <2>4
<1> QED
    BY <1>6, <1>7

\* Resolved, entry by entry.
LEMMA ResolvedSteps ==
    ASSUME shown \in ShownTo, NEW files \in Seq(Entries)
    PROVE  \E f \in [0..Len(files) -> ShownTo] :
              /\ f[0] = shown
              /\ \A n \in 1..Len(files) :
                    f[n] = WithName(f[n - 1], IdsOf(files), files[n])
              /\ Resolved(files) = f[Len(files)]
<1> DEFINE N == Len(files)
           Values == ShownTo
           start == shown
           ids == IdsOf(files)
           Step == [i \in 1..N |-> [v \in Values |-> WithName(v, ids, files[i])]]
           Folds(g) == g = [s \in SUBSET (1..N) |->
                              IF s = {} THEN shown
                              ELSE WithName(g[s \ {Max(s)}], ids, files[Max(s)])]
           all == CHOOSE g : Folds(g)
<1>1. N \in Nat /\ DOMAIN files = 1..N /\ \A i \in 1..N : files[i] \in Entries
    OBVIOUS
<1>2. start \in Values
    OBVIOUS
<1>3. Step \in [1..N -> [Values -> Values]]
    <2>1. \A v \in Values, e \in Entries : WithName(v, ids, e) \in Values
        BY IdsTyped, WithNameTyped
    <2> QED
        BY <1>1, <2>1
<1>4. \A i \in 1..N, v \in Values : Step[i][v] = WithName(v, ids, files[i])
    OBVIOUS
<1>5. Resolved(files) = all[1..N]
    BY <1>1 DEF Resolved, FoldLeft, MapThenFoldSet
<1> HIDE DEF Step
<1>6. Folds(all)
    <2>1. PICK h \in [SUBSET (1..N) -> Values] : FoldsBy(h, start, Step, N)
        BY <1>1, <1>2, <1>3, FoldExists
    <2>2. \A s \in SUBSET (1..N) : s # {} =>
             Step[Max(s)][h[s \ {Max(s)}]] =
                WithName(h[s \ {Max(s)}], ids, files[Max(s)])
        BY <1>1, <1>4, <2>1, MaxIsLargest
    <2>3. Folds(h)
        BY <2>1, <2>2 DEF FoldsBy
    <2> QED
        BY <2>3
<1>7. FoldsTo(all, start, Step, Values, N)
    BY <1>1, <1>4, <1>6, MaxIsLargest DEF FoldsTo
<1> HIDE DEF N, Values, start, all, Folds
<1>8. PICK f \in [0..N -> Values] : GoesAlong(f, all, start, Step, N)
    BY <1>1, <1>2, <1>3, <1>7, FoldValues
<1>9. \A n \in 1..N : f[n] = WithName(f[n - 1], ids, files[n])
    <2>1. \A n \in 1..N : n - 1 \in 0..N
        BY <1>1
    <2> QED
        BY <1>4, <1>8, <2>1 DEF GoesAlong
<1> QED
    BY <1>5, <1>8, <1>9 DEF GoesAlong, N, Values, start

\* No file is in a listing twice.
OnceEach(files) ==
    \A i, j \in DOMAIN files : i # j => files[i].id # files[j].id

\* One entry is added at the end.
LEMMA OneMore ==
    ASSUME NEW list \in Seq(Entries), NEW e \in Entries
    PROVE  /\ IdsOf(Append(list, e)) = IdsOf(list) \cup {e.id}
           /\ OnceEach(list) /\ e.id \notin IdsOf(list) => OnceEach(Append(list, e))
<1> DEFINE more == Append(list, e)
           n == Len(list)
<1>1. /\ more \in Seq(Entries) /\ Len(more) = n + 1
      /\ \A i \in 1..n : more[i] = list[i]
      /\ more[n + 1] = e
    BY Appended
<1>2. n \in Nat /\ DOMAIN list = 1..n /\ DOMAIN more = 1..(n + 1)
    BY <1>1
<1> HIDE DEF more, n
<1>3. ASSUME NEW id \in IdsOf(more)
      PROVE  id \in IdsOf(list) \cup {e.id}
    <2>1. PICK i \in 1..(n + 1) : more[i].id = id
        BY <1>2, <1>3 DEF IdsOf
    <2>2. i \in 1..n \/ i = n + 1
        BY <1>2
    <2> QED
        BY <1>1, <1>2, <2>1, <2>2 DEF IdsOf
<1>4. ASSUME NEW id \in IdsOf(list)
      PROVE  id \in IdsOf(more)
    <2>1. PICK i \in 1..n : list[i].id = id
        BY <1>2, <1>4 DEF IdsOf
    <2>2. i \in 1..(n + 1)
        BY <1>2
    <2> QED
        BY <1>1, <1>2, <2>1, <2>2 DEF IdsOf
<1>5. e.id \in IdsOf(more)
    <2>1. n + 1 \in 1..(n + 1)
        BY <1>2
    <2> QED
        BY <1>1, <1>2, <2>1 DEF IdsOf
<1>6. ASSUME OnceEach(list), e.id \notin IdsOf(list)
      PROVE  OnceEach(more)
    <2>1. SUFFICES ASSUME NEW i \in 1..(n + 1), NEW j \in 1..(n + 1), i # j,
                          more[i].id = more[j].id
                   PROVE  FALSE
        BY <1>2 DEF OnceEach
    <2>2. \A k \in 1..n : more[k] = list[k] /\ list[k].id # e.id
        BY <1>1, <1>2, <1>6 DEF IdsOf
    <2>3. i \in 1..n \/ i = n + 1
        BY <1>2
    <2>4. j \in 1..n \/ j = n + 1
        BY <1>2
    <2>5. CASE i \in 1..n /\ j \in 1..n
        BY <2>1, <2>2, <2>5, <1>2, <1>6 DEF OnceEach
    <2>6. CASE i = n + 1 /\ j \in 1..n
        BY <2>1, <2>2, <2>6, <1>1
    <2>7. CASE j = n + 1 /\ i \in 1..n
        BY <2>1, <2>2, <2>7, <1>1
    <2> QED
        BY <2>1, <2>3, <2>4, <2>5, <2>6, <2>7
<1> QED
    BY <1>3, <1>4, <1>5, <1>6 DEF more

\* Kept keeps what it should, and in one place each.
LEMMA KeptResult ==
    ASSUME NEW files \in Seq(Entries), NEW ids
    PROVE  /\ Kept(files, ids) \in Seq(Entries)
           /\ IdsOf(Kept(files, ids)) = IdsOf(files) \cap ids
           /\ OnceEach(files) => OnceEach(Kept(files, ids))
<1> DEFINE N == Len(files)
           First(n) == {files[i].id : i \in 1..n}
<1>1. PICK f \in [0..N -> Seq(Entries)] :
         /\ f[0] = <<>>
         /\ \A n \in 1..N : f[n] = IF files[n].id \in ids
                                   THEN Append(f[n - 1], files[n]) ELSE f[n - 1]
         /\ Kept(files, ids) = f[N]
    BY KeptSteps DEF Keeping
<1>2. N \in Nat /\ DOMAIN files = 1..N /\ \A i \in 1..N : files[i] \in Entries
    OBVIOUS
<1>3. First(N) = IdsOf(files)
    BY <1>2 DEF IdsOf
<1> HIDE DEF N
<1> DEFINE Good == {n \in 0..N : /\ IdsOf(f[n]) = First(n) \cap ids
                                 /\ OnceEach(files) => OnceEach(f[n])}
<1>4. 0 \in Good
    <2>1. IdsOf(<<>>) = {} /\ OnceEach(<<>>) /\ First(0) = {}
        BY DEF IdsOf, OnceEach
    <2> QED
        BY <1>1, <1>2, <2>1
<1>5. ASSUME NEW n \in 0..(N - 1), n \in Good
      PROVE  n + 1 \in Good
    <2> DEFINE e == files[n + 1]
    <2>1. n + 1 \in 1..N /\ n \in 0..N /\ (n + 1) - 1 = n
        BY <1>2
    <2>2. e \in Entries /\ f[n] \in Seq(Entries)
        BY <1>1, <1>2, <2>1
    <2>3. f[n + 1] = IF e.id \in ids THEN Append(f[n], e) ELSE f[n]
        BY <1>1, <2>1
    <2>4. First(n + 1) = First(n) \cup {e.id}
        <3>1. 1..(n + 1) = (1..n) \cup {n + 1}
            BY <1>2
        <3> QED
            BY <3>1
    <2>5. /\ IdsOf(Append(f[n], e)) = IdsOf(f[n]) \cup {e.id}
          /\ OnceEach(f[n]) /\ e.id \notin IdsOf(f[n]) => OnceEach(Append(f[n], e))
        BY <2>2, OneMore
    <2>6. IdsOf(f[n]) = First(n) \cap ids /\ (OnceEach(files) => OnceEach(f[n]))
        BY <1>5
    <2>7. OnceEach(files) => e.id \notin First(n)
        <3>1. ASSUME NEW i \in 1..n
              PROVE  i \in 1..N /\ i # n + 1
            BY <1>2, <2>1
        <3> QED
            BY <1>2, <2>1, <3>1 DEF OnceEach
    <2> HIDE DEF First, e
    <2>8. IdsOf(f[n + 1]) = First(n + 1) \cap ids
        BY <2>3, <2>4, <2>5, <2>6
    <2>9. OnceEach(files) => OnceEach(f[n + 1])
        BY <2>3, <2>5, <2>6, <2>7
    <2>10. n + 1 \in 0..N
        BY <2>1, <1>2
    <2> QED
        BY <2>8, <2>9, <2>10
<1> HIDE DEF Good
<1>6. N \in Good
    BY <1>2, <1>4, <1>5, UpTo
<1>7. f[N] \in Seq(Entries)
    BY <1>1, <1>2
<1> QED
    BY <1>1, <1>3, <1>6, <1>7 DEF Good

\* WithEntries adds what is not there.
LEMMA WithEntriesResult ==
    ASSUME NEW list \in Seq(Entries), NEW files \in Seq(Entries)
    PROVE  /\ WithEntries(list, files) \in Seq(Entries)
           /\ IdsOf(WithEntries(list, files)) = IdsOf(list) \cup IdsOf(files)
           /\ OnceEach(list) => OnceEach(WithEntries(list, files))
<1> DEFINE N == Len(files)
           First(n) == {files[i].id : i \in 1..n}
<1>1. PICK f \in [0..N -> Seq(Entries)] :
         /\ f[0] = list
         /\ \A n \in 1..N : f[n] = WithEntry(f[n - 1], files[n])
         /\ WithEntries(list, files) = f[N]
    BY WithEntriesSteps
<1>2. N \in Nat /\ DOMAIN files = 1..N /\ \A i \in 1..N : files[i] \in Entries
    OBVIOUS
<1>3. First(N) = IdsOf(files)
    BY <1>2 DEF IdsOf
<1> HIDE DEF N
<1> DEFINE Good == {n \in 0..N : /\ IdsOf(f[n]) = IdsOf(list) \cup First(n)
                                 /\ OnceEach(list) => OnceEach(f[n])}
<1>4. 0 \in Good
    <2>1. First(0) = {}
        OBVIOUS
    <2> QED
        BY <1>1, <1>2, <2>1
<1>5. ASSUME NEW n \in 0..(N - 1), n \in Good
      PROVE  n + 1 \in Good
    <2> DEFINE e == files[n + 1]
    <2>1. n + 1 \in 1..N /\ n \in 0..N /\ (n + 1) - 1 = n
        BY <1>2
    <2>2. e \in Entries /\ f[n] \in Seq(Entries)
        BY <1>1, <1>2, <2>1
    <2>3. f[n + 1] = IF Has(f[n], e.id) THEN f[n] ELSE Append(f[n], e)
        BY <1>1, <2>1 DEF WithEntry
    <2>4. First(n + 1) = First(n) \cup {e.id}
        <3>1. 1..(n + 1) = (1..n) \cup {n + 1}
            BY <1>2
        <3> QED
            BY <3>1
    <2>5. /\ IdsOf(Append(f[n], e)) = IdsOf(f[n]) \cup {e.id}
          /\ OnceEach(f[n]) /\ e.id \notin IdsOf(f[n]) => OnceEach(Append(f[n], e))
        BY <2>2, OneMore
    <2>6. /\ IdsOf(f[n]) = IdsOf(list) \cup First(n)
          /\ OnceEach(list) => OnceEach(f[n])
        BY <1>5
    <2>7. Has(f[n], e.id) <=> e.id \in IdsOf(f[n])
        BY <2>2, IdsTyped
    <2> HIDE DEF First, e
    <2>8. IdsOf(f[n + 1]) = IdsOf(list) \cup First(n + 1)
        BY <2>3, <2>4, <2>5, <2>6, <2>7
    <2>9. OnceEach(list) => OnceEach(f[n + 1])
        BY <2>3, <2>5, <2>6, <2>7
    <2>10. n + 1 \in 0..N
        BY <2>1, <1>2
    <2> QED
        BY <2>8, <2>9, <2>10
<1> HIDE DEF Good
<1>6. N \in Good
    BY <1>2, <1>4, <1>5, UpTo
<1>7. f[N] \in Seq(Entries)
    BY <1>1, <1>2
<1> QED
    BY <1>1, <1>3, <1>6, <1>7 DEF Good

\* Distinct names for the ids of one folder.
NamesDiffer(names, ids) ==
    \A a, b \in ids : a # b /\ names[a] # NoName => names[a] # names[b]

\* resolve keeps the names that were given before, gives different ones to
\* different files, and adds a suffix only to a name that another file has.
LEMMA ResolvedResult ==
    ASSUME shown \in ShownTo, NEW files \in Seq(Entries)
    PROVE  LET ids == IdsOf(files)
               res == Resolved(files)
           IN  /\ res \in ShownTo
               /\ \A id \in Ids : (id \notin ids \/ shown[id] # NoName) =>
                     res[id] = shown[id]
               /\ NamesDiffer(shown, ids) => NamesDiffer(res, ids)
               /\ \A id \in ids :
                     shown[id] = NoName /\ res[id] \notin RawNames \cup {NoName} =>
                        \E o \in ids \ {id} : res[o] = Front(res[id])
<1> DEFINE N == Len(files)
           ids == IdsOf(files)
           Keeps(g) == \A id \in Ids : (id \notin ids \/ shown[id] # NoName) =>
                          g[id] = shown[id]
           Suffixed(g) == \A id \in ids :
               shown[id] = NoName /\ g[id] \notin RawNames \cup {NoName} =>
                  \E o \in ids \ {id} : g[o] = Front(g[id]) /\ g[o] # NoName
<1>1. PICK f \in [0..N -> ShownTo] :
         /\ f[0] = shown
         /\ \A n \in 1..N : f[n] = WithName(f[n - 1], ids, files[n])
         /\ Resolved(files) = f[N]
    BY ResolvedSteps
<1>2. /\ N \in Nat /\ ids \in SUBSET Ids
      /\ \A i \in 1..N : files[i] \in Entries /\ files[i].id \in ids
    BY IdsTyped
<1> HIDE DEF N, ids
<1> DEFINE Good == {n \in 0..N : /\ Keeps(f[n]) /\ Suffixed(f[n])
                                 /\ NamesDiffer(shown, ids) => NamesDiffer(f[n], ids)}
<1>3. 0 \in Good
    <2>1. Keeps(shown) /\ Suffixed(shown)
        OBVIOUS
    <2> QED
        BY <1>1, <1>2, <2>1
<1>4. ASSUME NEW n \in 0..(N - 1), n \in Good
      PROVE  n + 1 \in Good
    <2> DEFINE e == files[n + 1]
               g == f[n]
               h == f[n + 1]
    <2>1. n + 1 \in 1..N /\ n \in 0..N /\ n + 1 \in 0..N /\ (n + 1) - 1 = n
        BY <1>2
    <2>2. e \in Entries /\ e.id \in ids /\ e.id \in Ids /\ g \in ShownTo /\ h \in ShownTo
        BY <1>1, <1>2, <2>1
    <2>3. h = WithName(g, ids, e)
        BY <1>1, <2>1
    <2>4. Keeps(g) /\ Suffixed(g) /\ (NamesDiffer(shown, ids) => NamesDiffer(g, ids))
        BY <1>4
    <2> HIDE DEF e, g, h
    <2>5. /\ \A id \in Ids : (id # e.id \/ g[id] # NoName) => h[id] = g[id]
          /\ g[e.id] = NoName =>
                /\ h[e.id] # NoName /\ h[e.id] \notin NamesTaken(g, ids)
                /\ \/ h[e.id] = e.name
                   \/ e.name \in NamesTaken(g, ids) /\ Front(h[e.id]) = e.name
        BY <1>2, <2>2, <2>3, WithNameTyped
    <2>6. e.name \in RawNames
        BY <2>2 DEF Entries
    <2>7. \A id \in ids : id \in Ids
        BY <1>2
    <2>8. Keeps(h)
        <3>1. g[e.id] # NoName => shown[e.id] # NoName \/ h[e.id] = g[e.id]
            BY <2>2, <2>5
        <3>2. shown[e.id] # NoName => g[e.id] # NoName
            BY <2>2, <2>4
        <3> QED
            BY <2>2, <2>4, <2>5, <3>2
    <2>9. ASSUME NamesDiffer(shown, ids)
          PROVE  NamesDiffer(h, ids)
        <3>1. NamesDiffer(g, ids)
            BY <2>4, <2>9
        <3>2. CASE g[e.id] # NoName
            BY <2>5, <2>7, <3>1, <3>2 DEF NamesDiffer
        <3>3. CASE g[e.id] = NoName
            <4>1. \A o \in ids : g[o] # NoName => g[o] # h[e.id]
                BY <2>5, <3>3 DEF NamesTaken
            <4>2. h[e.id] # NoName
                BY <2>5, <3>3
            <4>3. \A o \in ids : o # e.id => h[o] = g[o]
                BY <2>5, <2>7
            <4> QED
                BY <3>1, <4>1, <4>2, <4>3 DEF NamesDiffer
        <3> QED
            BY <3>2, <3>3
    <2>10. Suffixed(h)
        <3>1. CASE g[e.id] # NoName
            <4>1. \A o \in ids : h[o] = g[o]
                BY <2>5, <2>7, <3>1
            <4> QED
                BY <2>4, <4>1
        <3>2. CASE g[e.id] = NoName
            <4>1. SUFFICES ASSUME NEW id \in ids, shown[id] = NoName,
                                  h[id] \notin RawNames \cup {NoName}
                           PROVE  \E o \in ids \ {id} :
                                     h[o] = Front(h[id]) /\ h[o] # NoName
                OBVIOUS
            <4>2. CASE id = e.id
                <5>1. e.name \in NamesTaken(g, ids) /\ Front(h[id]) = e.name
                    BY <2>5, <2>6, <3>2, <4>1, <4>2
                <5>2. PICK o \in ids : g[o] = e.name /\ e.name # NoName
                    BY <5>1 DEF NamesTaken
                <5>3. o # e.id
                    BY <3>2, <5>2
                <5>4. h[o] = g[o]
                    BY <2>5, <2>7, <5>3
                <5> QED
                    BY <4>2, <5>1, <5>2, <5>3, <5>4
            <4>3. CASE id # e.id
                <5>1. h[id] = g[id]
                    BY <2>5, <2>7, <4>3
                <5>2. PICK o \in ids \ {id} : g[o] = Front(g[id]) /\ g[o] # NoName
                    BY <2>4, <4>1, <5>1
                <5>3. o # e.id
                    BY <3>2, <5>2
                <5>4. h[o] = g[o]
                    BY <2>5, <2>7, <5>3
                <5> QED
                    BY <5>1, <5>2, <5>4
            <4> QED
                BY <4>2, <4>3
        <3> QED
            BY <3>1, <3>2
    <2> HIDE DEF Keeps, Suffixed
    <2> QED
        BY <2>1, <2>8, <2>9, <2>10 DEF h
<1> HIDE DEF Good
<1>5. N \in Good
    BY <1>2, <1>3, <1>4, UpTo
<1>6. f[N] \in ShownTo
    BY <1>1, <1>2
<1> DEFINE res == Resolved(files)
<1>7. res = f[N]
    BY <1>1
<1>8. Keeps(res) /\ Suffixed(res) /\ (NamesDiffer(shown, ids) => NamesDiffer(res, ids))
    BY <1>5, <1>7 DEF Good
<1>9. res \in ShownTo
    BY <1>6, <1>7
<1> HIDE DEF res
<1>10. \A id \in ids :
          shown[id] = NoName /\ res[id] \notin RawNames \cup {NoName} =>
             \E o \in ids \ {id} : res[o] = Front(res[id])
    BY <1>8
<1> QED
    BY <1>8, <1>9, <1>10 DEF res, ids

\* SetToSeq enumerates a finite set.
LEMMA SetToSeqResult ==
    ASSUME NEW S, IsFiniteSet(S)
    PROVE  LET s == SetToSeq(S)
           IN  /\ s \in Seq(S)
               /\ \A x \in S : \E i \in DOMAIN s : s[i] = x
               /\ \A i, j \in DOMAIN s : s[i] = s[j] => i = j
<1> DEFINE C == Cardinality(S)
           s == SetToSeq(S)
<1>1. C \in Nat /\ ExistsBijection(1..C, S)
    BY FS_CardinalityType
<1>2. PICK f : f \in Bijection(1..C, S)
    BY <1>1 DEF ExistsBijection
<1>3. f \in [1..C -> S] /\ IsInjective(f)
    BY <1>2 DEF Bijection, Injection, IsInjective
<1>4. s \in [1..C -> S] /\ IsInjective(s)
    BY <1>3 DEF SetToSeq
<1> HIDE DEF s
<1>5. s \in Injection(1..C, S)
    BY <1>4 DEF Injection, IsInjective
<1>6. IsFiniteSet(1..C) /\ Cardinality(1..C) = C
    BY <1>1, FS_Interval
<1>7. s \in Surjection(1..C, S)
    BY <1>5, <1>6, FS_Injection
<1>8. \A x \in S : \E i \in 1..C : s[i] = x
    BY <1>7 DEF Surjection
<1>9. s \in Seq(S) /\ DOMAIN s = 1..C
    BY <1>1, <1>4
<1>10. \A i, j \in DOMAIN s : s[i] = s[j] => i = j
    BY <1>4 DEF IsInjective
<1> QED
    BY <1>8, <1>9, <1>10 DEF s

\* The entries made of a set of files.
LEMMA EntriesOf ==
    ASSUME NEW S \in SUBSET Ids, NEW files,
           NEW Name, \A id \in S : Name[id] \in RawNames,
           files = [i \in DOMAIN SetToSeq(S) |-> Entry(SetToSeq(S)[i], Name[SetToSeq(S)[i]])]
    PROVE  files \in Seq(Entries) /\ IdsOf(files) = S /\ OnceEach(files)
<1> DEFINE s == SetToSeq(S)
<1>1. IsFiniteSet(S)
    BY NamesAssumption, FS_Subset
<1>2. /\ s \in Seq(S)
      /\ \A x \in S : \E i \in DOMAIN s : s[i] = x
      /\ \A i, j \in DOMAIN s : s[i] = s[j] => i = j
    BY <1>1, SetToSeqResult
<1>3. files = [i \in DOMAIN s |-> Entry(s[i], Name[s[i]])]
    OBVIOUS
<1> HIDE DEF s
<1>4. Len(s) \in Nat /\ DOMAIN s = 1..Len(s) /\ \A i \in 1..Len(s) : s[i] \in S
    BY <1>2
<1>5. ASSUME NEW i \in 1..Len(s)
      PROVE  files[i] = Entry(s[i], Name[s[i]]) /\ files[i] \in Entries /\ files[i].id = s[i]
    <2>1. files[i] = Entry(s[i], Name[s[i]])
        BY <1>3, <1>4
    <2>2. s[i] \in Ids /\ Name[s[i]] \in RawNames
        BY <1>4
    <2> QED
        BY <2>1, <2>2 DEF Entry, Entries
<1>6. DOMAIN files = 1..Len(s)
    BY <1>3, <1>4
<1>7. files \in Seq(Entries)
    <2>1. files \in [1..Len(s) -> Entries]
        BY <1>3, <1>4, <1>5
    <2> QED
        BY <1>4, <2>1
<1>8. IdsOf(files) = S
    <2>1. IdsOf(files) = {s[i] : i \in 1..Len(s)}
        BY <1>5, <1>6 DEF IdsOf
    <2> QED
        BY <1>2, <1>4, <2>1
<1>9. OnceEach(files)
    BY <1>2, <1>4, <1>5, <1>6 DEF OnceEach
<1> QED
    BY <1>7, <1>8, <1>9

-----------------------------------------------------------------------------
(* What the listings hold, and what folder a file is in.                    *)

\* No upload ends in a folder whose listing is on its way, and no placeholder
\* comes or goes there once the answer is merged.
FetchesWait == "listing" \notin Disturbances
\* A file is renamed where it is, or goes to a folder where no file is shown under
\* its name, and not during a fetch; another client moves it only before it is shown.
FilesStay == "move" \notin Disturbances
\* An upload learns what create_file has made, unless there is a restart.
AnswersArrive == "twoCopies" \notin Disturbances

\* The types of the listings, the fetch and the names that are shown.
Listings == Seq(Entries) \cup {NoListing}
Fetches ==
    [phase : {"idle", "asked", "merged"}, parent : Folders \cup {NoFolder},
     files : Seq(Entries)]
TypedToo ==
    /\ listing \in [Folders -> Listings]
    /\ fetch \in Fetches /\ (fetch.phase # "idle" => fetch.parent \in Folders)
    /\ shown \in ShownTo
    /\ mounted \subseteq PendingIds
    /\ renames \in 0..MaxRenames /\ mounts \in 0..MaxMounts

\* The ids in the listing of d.
Entered(d) == IF listing[d] = NoListing THEN {} ELSE IdsOf(listing[d])

\* A listing of d in which every placeholder is that has d as its folder.
Placed(files, d) ==
    /\ OnceEach(files)
    /\ \A pid \in PendingIds : pid \in IdsOf(files) <=> home[pid] = d

\* So it is with every listing, and with an answer that is merged.
ListingsPlaced ==
    \A d \in Folders : listing[d] # NoListing => Placed(listing[d], d)
FetchPlaced ==
    /\ fetch.phase = "idle" => fetch = NoFetch
    /\ fetch.phase = "asked" =>
          OnceEach(fetch.files) /\ IdsOf(fetch.files) \subseteq DriveIds
    /\ fetch.phase = "merged" => Placed(fetch.files, fetch.parent)

\* What is known of a placeholder that is in a folder, or has a row.
HomesKnown ==
    \A pid \in PendingIds : home[pid] # NoFolder =>
        /\ pid \in mounted /\ named[pid] # NoName
        /\ wanted[pid] = Place(named[pid], home[pid])

\* The row of a new file, there or to come, has a name and a folder: those of the
\* placeholder, or those of the write buffer.
RowsPlaced ==
    /\ \A pid \in opened : wanted[pid] # NoRow
    /\ \A pid \in PendingIds : named[pid] # NoName => home[pid] # NoFolder
    /\ \A pid \in PendingIds : Stored(pid) =>
          row[pid].name \in RawNames /\ row[pid].parent \in Folders

\* The uploader brings a new file to where the user wants it, and no listing of
\* that folder is fetched meanwhile or has the file already.
TargetPlaced == uploader.phase # "idle" => uploader.to \in Places
UploadPlaced ==
    /\ uploader.phase \in {"send", "finalize", "replace", "abandon", "forget"} =>
          uploader.to = wanted[uploader.pid]
    /\ uploader.phase \in {"finalize", "replace"} =>
          /\ fetch.parent # uploader.to.parent
          /\ uploader.newId \notin Entered(uploader.to.parent)

\* A file that was seen, or has a name, is one that Drive had.
SeenMade ==
    \A id \in SpareIds :
        \/ id \in IdsOf(fetch.files) \/ shown[id] # NoName
        \/ \E d \in Folders : id \in Entered(d)
        => Made(id)

\* What the steps of the uploader and of rename_pending have to go by, whatever
\* is renamed meanwhile, and whichever ids are given out.
Working ==
    /\ uploader.phase = "idle" => uploader = Resting
    /\ uploader.phase # "idle" => uploader.pid \in PendingIds
    /\ uploader.phase \in {"finalize", "replace"} => uploader.newId \in SpareIds
    /\ rename # NoRename =>
          rename.pid \in PendingIds /\ rename.row \in Rows /\ rename.to \in Places

ShapeInv == Typed /\ TypedToo /\ RowsPlaced /\ TargetPlaced /\ Working
TypeInv == IndInv /\ HandedOut /\ TypedToo /\ RowsPlaced /\ TargetPlaced
ListInv ==
    ListingsPlaced /\ FetchPlaced /\ HomesKnown /\ UploadPlaced /\ SeenMade

\* A file is in folder d: for Drive, for the placeholders or for a listing.
OnDrive(id, d) == id \in DriveIds /\ drive[id] # NoRow /\ drive[id].parent = d
In(id, d) ==
    \/ OnDrive(id, d)
    \/ id \in PendingIds /\ home[id] = d
    \/ id \in Entered(d)
    \/ fetch.parent = d /\ id \in IdsOf(fetch.files)

\* A file is in one folder, by any account.
OneFolder == \A id \in Ids, d, e \in Folders : In(id, d) /\ In(id, e) => d = e

\* The answer of Drive has every file of the folder.
FetchWhole ==
    \A id \in DriveIds, d \in Folders :
        fetch.parent = d /\ OnDrive(id, d) => id \in IdsOf(fetch.files)

\* A listing has every file of its folder whose name was ever shown.
ShownEntered(names) ==
    \A id \in Ids, d \in Folders :
        listing[d] # NoListing /\ In(id, d) /\ names[id] # NoName =>
            id \in Entered(d)

\* A file that was shown has a name that no other file of its folder has.
DifferentNames(names) ==
    \A a, b \in Ids, d \in Folders :
        In(a, d) /\ In(b, d) /\ a # b /\ names[a] # NoName => names[a] # names[b]

\* What an upload has put on Drive is where it was to go, and was not shown yet.
Arrived ==
    uploader.phase \in {"finalize", "replace"} =>
        drive[uploader.newId] = uploader.to /\ shown[uploader.newId] = NoName

ShownInv ==
    /\ OneFolder /\ FetchWhole /\ Arrived
    /\ ShownEntered(shown) /\ DifferentNames(shown)

\* A placeholder id that was not given out yet has no name, and no copies.
Unseen ==
    \A pid \in PendingIds \ mounted : shown[pid] = NoName /\ copies[pid] = {}

\* A placeholder does not outlive its upload.
CopiesArrive ==
    \A pid \in PendingIds : home[pid] # NoFolder =>
        \A id \in copies[pid] :
            /\ uploader.phase \in {"finalize", "replace"}
            /\ uploader.pid = pid /\ uploader.newId = id

\* No file is twice in the listing of d.
Once(d) == listing[d] # NoListing => OnceEach(listing[d])

\* The invariant of NamespaceProofs says all of it and more.
LEMMA Shape == TypeInv => ShapeInv
<1> SUFFICES ASSUME TypeInv PROVE ShapeInv
    OBVIOUS
<1>1. /\ Typed /\ TypedToo /\ RowsPlaced /\ TargetPlaced
      /\ UploaderStage /\ RenameStage
    BY DEF TypeInv, IndInv, Arrivals
<1>2. Working
    BY <1>1 DEF Working, UploaderStage, RenameStage
<1> QED
    BY <1>1, <1>2 DEF ShapeInv

-----------------------------------------------------------------------------
(* What the maps of the object manager do to a listing.                     *)

\* Vec::retain with one id less.
LEMMA WithoutResult ==
    ASSUME NEW files \in Seq(Entries), NEW id \in Ids
    PROVE  /\ Without(files, id) \in Seq(Entries)
           /\ IdsOf(Without(files, id)) = IdsOf(files) \ {id}
           /\ OnceEach(files) => OnceEach(Without(files, id))
<1>1. IdsOf(files) \in SUBSET Ids
    BY IdsTyped
<1>2. /\ Kept(files, Ids \ {id}) \in Seq(Entries)
      /\ IdsOf(Kept(files, Ids \ {id})) = IdsOf(files) \cap (Ids \ {id})
      /\ OnceEach(files) => OnceEach(Kept(files, Ids \ {id}))
    BY KeptResult
<1> QED
    BY <1>1, <1>2 DEF Without

\* One entry takes the place of another.
LEMMA EntryReplaced ==
    ASSUME NEW files \in Seq(Entries), NEW i \in DOMAIN files, NEW e \in Entries
    PROVE  LET new == [files EXCEPT ![i] = e]
           IN  /\ new \in Seq(Entries)
               /\ OnceEach(files) /\ e.id \notin IdsOf(files) =>
                     /\ IdsOf(new) = (IdsOf(files) \ {files[i].id}) \cup {e.id}
                     /\ OnceEach(new)
<1> DEFINE new == [files EXCEPT ![i] = e]
<1>1. DOMAIN files = 1..Len(files) /\ Len(files) \in Nat
    OBVIOUS
<1>2. /\ new \in Seq(Entries) /\ DOMAIN new = DOMAIN files
      /\ new[i] = e /\ \A j \in DOMAIN files \ {i} : new[j] = files[j]
    BY <1>1, ExceptSeq
<1> HIDE DEF new
<1>3. ASSUME OnceEach(files), e.id \notin IdsOf(files)
      PROVE  IdsOf(new) = (IdsOf(files) \ {files[i].id}) \cup {e.id}
    <2>1. \A j \in DOMAIN files \ {i} : files[j].id # files[i].id
        BY <1>3 DEF OnceEach
    <2>2. IdsOf(new) = {new[j].id : j \in DOMAIN files \ {i}} \cup {e.id}
        BY <1>2 DEF IdsOf
    <2>3. IdsOf(files) \ {files[i].id} = {files[j].id : j \in DOMAIN files \ {i}}
        BY <2>1 DEF IdsOf
    <2>4. {new[j].id : j \in DOMAIN files \ {i}} = {files[j].id : j \in DOMAIN files \ {i}}
        BY <1>2
    <2> QED
        BY <2>2, <2>3, <2>4
<1>4. ASSUME OnceEach(files), e.id \notin IdsOf(files)
      PROVE  OnceEach(new)
    <2>1. \A j \in DOMAIN files : files[j].id # e.id
        BY <1>4 DEF IdsOf
    <2> QED
        BY <1>2, <1>4, <2>1 DEF OnceEach
<1> QED
    BY <1>2, <1>3, <1>4 DEF new

\* An entry gets another name.
LEMMA EntryRenamed ==
    ASSUME NEW files \in Seq(Entries), NEW id \in Ids, NEW name \in RawNames
    PROVE  LET new == [i \in DOMAIN files |->
                         IF i \in Positions(files, id) THEN Entry(id, name) ELSE files[i]]
           IN  /\ new \in Seq(Entries) /\ IdsOf(new) = IdsOf(files)
               /\ OnceEach(files) => OnceEach(new)
<1> DEFINE new == [i \in DOMAIN files |->
                     IF i \in Positions(files, id) THEN Entry(id, name) ELSE files[i]]
<1>1. DOMAIN files = 1..Len(files) /\ Len(files) \in Nat
    OBVIOUS
<1>2. ASSUME NEW i \in DOMAIN files
      PROVE  new[i] \in Entries /\ new[i].id = files[i].id
    <2>1. files[i] \in Entries
        OBVIOUS
    <2>2. Entry(id, name) \in Entries /\ Entry(id, name).id = id
        BY DEF Entry, Entries
    <2>3. new[i] = IF files[i].id = id THEN Entry(id, name) ELSE files[i]
        BY DEF Positions
    <2> QED
        BY <2>1, <2>2, <2>3
<1>3. DOMAIN new = DOMAIN files
    OBVIOUS
<1>4. new \in Seq(Entries)
    <2>1. new \in [1..Len(files) -> Entries]
        BY <1>1, <1>2
    <2> QED
        BY <1>1, <2>1
<1> HIDE DEF new
<1>5. IdsOf(new) = IdsOf(files)
    BY <1>2, <1>3 DEF IdsOf
<1>6. OnceEach(files) => OnceEach(new)
    BY <1>2, <1>3 DEF OnceEach
<1> QED
    BY <1>4, <1>5, <1>6 DEF new

\* The listing of d becomes files; the others stay.
LEMMA ListingSet ==
    ASSUME TypedToo, NEW d \in Folders, NEW files \in Seq(Entries),
           listing' = [listing EXCEPT ![d] = files]
    PROVE  /\ listing' \in [Folders -> Listings]
           /\ listing'[d] = files /\ listing'[d] # NoListing
           /\ Entered(d)' = IdsOf(files)
           /\ \A e \in Folders \ {d} :
                 listing'[e] = listing[e] /\ Entered(e)' = Entered(e)
<1>1. listing \in [Folders -> Listings] /\ files \in Listings
    BY DEF TypedToo, Listings
<1>2. listing' \in [Folders -> Listings] /\ listing'[d] = files
    BY <1>1
<1>3. \A e \in Folders \ {d} : listing'[e] = listing[e]
    BY <1>1
<1>4. files # NoListing
    BY ListingAssumption
<1> QED
    BY <1>2, <1>3, <1>4 DEF Entered

\* create() adds the placeholder to the listing of its folder, if there is one.
LEMMA CreateEffect ==
    ASSUME ShapeInv, NEW pid \in PendingIds, NEW d \in Folders, NEW name \in RawNames,
           Create(pid, d, name)
    PROVE  /\ listing' \in [Folders -> Listings]
           /\ \A e \in Folders : listing'[e] # NoListing <=> listing[e] # NoListing
           /\ \A e \in Folders : Entered(e)' =
                 IF e = d /\ listing[e] # NoListing THEN Entered(e) \cup {pid}
                 ELSE Entered(e)
           /\ \A e \in Folders : Once(e) => Once(e)'
<1> DEFINE more == Append(listing[d], Entry(pid, name))
<1>1. listing' = IF Listed(d, pid) THEN listing ELSE Edited(d, more)
    BY DEF Create
<1>2. Entry(pid, name) \in Entries /\ Entry(pid, name).id = pid /\ pid \in Ids
    BY Kinds DEF Entry, Entries
<1>3. listing \in [Folders -> Listings]
    BY DEF ShapeInv, TypedToo
<1>4. CASE listing' = listing /\ (listing[d] = NoListing \/ pid \in Entered(d))
    BY <1>3, <1>4 DEF Entered, Once
<1>5. CASE listing[d] # NoListing /\ pid \notin Entered(d) /\
           listing' = [listing EXCEPT ![d] = more]
    <2>1. listing[d] \in Seq(Entries) /\ IdsOf(listing[d]) = Entered(d)
        BY <1>3, <1>5 DEF Listings, Entered
    <2>2. /\ IdsOf(more) = Entered(d) \cup {pid}
          /\ OnceEach(listing[d]) => OnceEach(more)
        BY <1>2, <1>5, <2>1, OneMore
    <2>3. more \in Seq(Entries)
        BY <1>2, <2>1
    <2> HIDE DEF more
    <2>4. /\ listing' \in [Folders -> Listings]
          /\ listing'[d] = more /\ listing'[d] # NoListing
          /\ Entered(d)' = IdsOf(more)
          /\ \A e \in Folders \ {d} :
                listing'[e] = listing[e] /\ Entered(e)' = Entered(e)
        BY <1>5, <2>3, ListingSet DEF ShapeInv
    <2> QED
        BY <1>5, <2>2, <2>4 DEF Once
<1>6. Listed(d, pid) <=> listing[d] # NoListing /\ pid \in Entered(d)
    <2>1. listing[d] # NoListing => listing[d] \in Seq(Entries)
        BY <1>3 DEF Listings
    <2> QED
        BY <2>1, IdsTyped DEF Listed, Entered
<1> HIDE DEF more
<1>7. \/ listing' = listing /\ (listing[d] = NoListing \/ pid \in Entered(d))
      \/ /\ listing[d] # NoListing /\ pid \notin Entered(d)
         /\ listing' = [listing EXCEPT ![d] = more]
    BY <1>1, <1>6 DEF Edited
<1> QED
    BY <1>4, <1>5, <1>7 DEF more

\* rename() of a placeholder takes it from one listing to the other.
LEMMA RenamePendingEffect ==
    ASSUME ShapeInv, NEW pid \in PendingIds, NEW d \in Folders, NEW name \in RawNames,
           RenamePending(pid, d, name)
    PROVE  /\ home[pid] \in Folders
           /\ listing' \in [Folders -> Listings]
           /\ \A e \in Folders : listing'[e] # NoListing <=> listing[e] # NoListing
           /\ \A e \in Folders : Entered(e)' =
                 IF e = d /\ listing[e] # NoListing THEN Entered(e) \cup {pid}
                 ELSE IF e = home[pid] THEN Entered(e) \ {pid} ELSE Entered(e)
           /\ \A e \in Folders :
                 Once(e) /\ (e = d => e = home[pid] \/ pid \notin Entered(e)) => Once(e)'
<1>1. home[pid] \in Folders
    BY DEF RenamePending, ShapeInv, Typed
<1>2. PICK from \in Folders : from = home[pid]
    BY <1>1
<1> DEFINE left == Without(listing[from], pid)
           renamed == [i \in DOMAIN listing[d] |->
                         IF i \in Positions(listing[d], pid) THEN Entry(pid, name)
                         ELSE listing[d][i]]
           joined == Append(listing[d], Entry(pid, name))
<1>3. /\ from # NoFolder /\ Listed(from, pid)
      /\ listing' = IF d # from
                    THEN IF listing[d] = NoListing
                         THEN [listing EXCEPT ![from] = Without(@, pid)]
                         ELSE [[listing EXCEPT ![from] = Without(@, pid)]
                                 EXCEPT ![d] = Append(@, Entry(pid, name))]
                    ELSE [listing EXCEPT ![d] = [i \in DOMAIN @ |->
                            IF i \in Positions(@, pid) THEN Entry(pid, name) ELSE @[i]]]
    BY <1>2 DEF RenamePending
<1>4. listing \in [Folders -> Listings] /\ from \in Folders
    BY DEF ShapeInv, TypedToo
<1>5. Entry(pid, name) \in Entries /\ Entry(pid, name).id = pid /\ pid \in Ids
    BY Kinds DEF Entry, Entries
<1>6. /\ listing[from] # NoListing /\ listing[from] \in Seq(Entries)
      /\ Entered(from) = IdsOf(listing[from]) /\ pid \in Entered(from)
    <2>1. listing[from] # NoListing /\ Has(listing[from], pid)
        BY <1>3 DEF Listed
    <2>2. listing[from] \in Seq(Entries)
        BY <1>4, <2>1 DEF Listings
    <2>3. pid \in IdsOf(listing[from])
        BY <2>1, <2>2, IdsTyped
    <2> QED
        BY <2>1, <2>2, <2>3 DEF Entered
<1>7. /\ left \in Seq(Entries) /\ IdsOf(left) = Entered(from) \ {pid}
      /\ OnceEach(listing[from]) => OnceEach(left)
    BY <1>5, <1>6, WithoutResult
<1>8. CASE d = from
    <2>1. /\ renamed \in Seq(Entries) /\ IdsOf(renamed) = Entered(d)
          /\ OnceEach(listing[d]) => OnceEach(renamed)
        BY <1>5, <1>6, <1>8, EntryRenamed
    <2>2. listing' = [listing EXCEPT ![d] = renamed]
        BY <1>3, <1>4, <1>8
    <2> HIDE DEF renamed
    <2>3. /\ listing' \in [Folders -> Listings]
          /\ listing'[d] = renamed /\ listing'[d] # NoListing
          /\ Entered(d)' = IdsOf(renamed)
          /\ \A e \in Folders \ {d} :
                listing'[e] = listing[e] /\ Entered(e)' = Entered(e)
        BY <2>1, <2>2, ListingSet DEF ShapeInv
    <2> QED
        BY <1>2, <1>4, <1>6, <1>8, <2>1, <2>3 DEF Once
<1>9. CASE d # from /\ listing[d] = NoListing
    <2>1. listing' = [listing EXCEPT ![from] = left]
        BY <1>3, <1>4, <1>9
    <2> HIDE DEF left
    <2>2. /\ listing' \in [Folders -> Listings]
          /\ listing'[from] = left /\ listing'[from] # NoListing
          /\ Entered(from)' = IdsOf(left)
          /\ \A e \in Folders \ {from} :
                listing'[e] = listing[e] /\ Entered(e)' = Entered(e)
        BY <1>4, <1>7, <2>1, ListingSet DEF ShapeInv
    <2> QED
        BY <1>2, <1>4, <1>6, <1>7, <1>9, <2>2 DEF Once
<1>10. CASE d # from /\ listing[d] # NoListing
    <2>1. listing[d] \in Seq(Entries) /\ Entered(d) = IdsOf(listing[d])
        BY <1>4, <1>10 DEF Listings, Entered
    <2>2. /\ IdsOf(joined) = Entered(d) \cup {pid}
          /\ OnceEach(listing[d]) /\ pid \notin Entered(d) => OnceEach(joined)
        BY <1>5, <2>1, OneMore
    <2>3. joined \in Seq(Entries)
        BY <1>5, <2>1
    <2>4. /\ listing' \in [Folders -> Listings]
          /\ listing'[d] = joined /\ listing'[from] = left
          /\ \A e \in Folders \ {d, from} : listing'[e] = listing[e]
        <3>1. left \in Listings /\ joined \in Listings
            BY <1>7, <2>3 DEF Listings
        <3>2. listing' = [[listing EXCEPT ![from] = left] EXCEPT ![d] = joined]
            BY <1>3, <1>4, <1>10
        <3> HIDE DEF left, joined
        <3> QED
            BY <1>4, <1>10, <3>1, <3>2
    <2>5. left # NoListing /\ joined # NoListing
        BY <1>7, <2>3, ListingAssumption
    <2> HIDE DEF left, joined
    <2>6. Entered(d)' = IdsOf(joined) /\ Entered(from)' = IdsOf(left)
        BY <2>4, <2>5 DEF Entered
    <2>7. \A e \in Folders \ {d, from} : Entered(e)' = Entered(e)
        BY <2>4 DEF Entered
    <2> QED
        BY <1>2, <1>4, <1>6, <1>7, <1>10, <2>1, <2>2, <2>4, <2>5, <2>6, <2>7 DEF Once
<1> QED
    BY <1>2, <1>8, <1>9, <1>10

\* The listing of a folder is dropped.
LEMMA DroppedEffect ==
    ASSUME TypedToo, NEW S \in SUBSET Folders,
           listing' = [e \in Folders |-> IF e \in S THEN NoListing ELSE listing[e]]
    PROVE  /\ listing' \in [Folders -> Listings]
           /\ \A e \in Folders : listing'[e] # NoListing =>
                 listing[e] # NoListing /\ e \notin S
           /\ \A e \in Folders : Entered(e)' = IF e \in S THEN {} ELSE Entered(e)
           /\ \A e \in Folders : Once(e) => Once(e)'
<1>1. listing \in [Folders -> Listings] /\ NoListing \in Listings
    BY DEF TypedToo, Listings
<1>2. listing' \in [Folders -> Listings]
    BY <1>1
<1>3. \A e \in Folders : listing'[e] = IF e \in S THEN NoListing ELSE listing[e]
    OBVIOUS
<1> QED
    BY <1>2, <1>3 DEF Entered, Once

\* rename() of a file and unlink() drop listings.
LEMMA RenameFileEffect ==
    ASSUME TypedToo, NEW id \in DriveIds, NEW d \in Folders, NEW name \in RawNames,
           RenameFile(id, d, name), drive[id].parent \in Folders
    PROVE  listing' = [e \in Folders |->
                          IF e \in {drive[id].parent, d} THEN NoListing ELSE listing[e]]
<1>1. listing \in [Folders -> Listings]
    BY DEF TypedToo
<1>2. listing' = [listing EXCEPT ![drive[id].parent] = NoListing, ![d] = NoListing]
    BY DEF RenameFile
<1> QED
    BY <1>1, <1>2
LEMMA UnlinkEffect ==
    ASSUME TypedToo, NEW id \in DriveIds, Unlink(id), drive[id].parent \in Folders
    PROVE  listing' = [e \in Folders |->
                          IF e \in {drive[id].parent} THEN NoListing ELSE listing[e]]
<1>1. listing \in [Folders -> Listings]
    BY DEF TypedToo
<1>2. listing' = [listing EXCEPT ![drive[id].parent] = NoListing]
    BY DEF Unlink
<1> QED
    BY <1>1, <1>2

\* list_files answers with the files that Drive has in the folder, once each.
LEMMA AskEffect ==
    ASSUME ShapeInv, NEW d \in Folders, Ask(d)
    PROVE  /\ fetch = NoFetch
           /\ fetch'.phase = "asked" /\ fetch'.parent = d /\ fetch' \in Fetches
           /\ OnceEach(fetch'.files)
           /\ IdsOf(fetch'.files) =
                 {id \in DriveIds : drive[id] # NoRow /\ drive[id].parent = d}
<1> DEFINE here == {id \in DriveIds : drive[id] # NoRow /\ drive[id].parent = d}
           Name == [id \in here |-> drive[id].name]
           files == [i \in DOMAIN SetToSeq(here) |->
                       Entry(SetToSeq(here)[i], drive[SetToSeq(here)[i]].name)]
<1>1. fetch = NoFetch /\ fetch' = [phase |-> "asked", parent |-> d, files |-> files]
    BY DEF Ask
<1>2. here \in SUBSET Ids
    BY Kinds
<1>3. \A id \in here : Name[id] \in RawNames
    <2>1. \A id \in here : drive[id] \in Places
        BY DEF ShapeInv, Typed
    <2> QED
        BY <2>1 DEF Places
<1>4. files = [i \in DOMAIN SetToSeq(here) |->
                 Entry(SetToSeq(here)[i], Name[SetToSeq(here)[i]])]
    <2>1. \A i \in DOMAIN SetToSeq(here) : SetToSeq(here)[i] \in here
        <3>1. IsFiniteSet(here)
            BY <1>2, NamesAssumption, FS_Subset
        <3>2. SetToSeq(here) \in Seq(here)
            BY <3>1, SetToSeqResult
        <3> QED
            BY <3>2
    <2> QED
        BY <2>1
<1> HIDE DEF here, Name, files
<1>5. files \in Seq(Entries) /\ IdsOf(files) = here /\ OnceEach(files)
    BY <1>2, <1>3, <1>4, EntriesOf
<1> QED
    BY <1>1, <1>5 DEF Fetches, here

\* store_dir_listing adds the placeholders of the outgoing listing and those
\* that are known to be in the folder.
LEMMA MergeEffect ==
    ASSUME ShapeInv, Merge
    PROVE  /\ fetch.phase = "asked" /\ fetch.parent \in Folders
           /\ fetch'.phase = "merged" /\ fetch'.parent = fetch.parent
           /\ fetch' \in Fetches
           /\ OnceEach(fetch.files) => OnceEach(fetch'.files)
           /\ IdsOf(fetch'.files) =
                 IdsOf(fetch.files) \cup (Entered(fetch.parent) \cap PendingIds) \cup
                 {pid \in PendingIds : home[pid] = fetch.parent /\ named[pid] # NoName}
<1>1. /\ fetch.phase = "asked"
      /\ fetch' = [phase |-> "merged", parent |-> fetch.parent,
                   files |-> WithPending(fetch.parent, fetch.files)]
    BY DEF Merge
<1>2. fetch.parent \in Folders /\ fetch.files \in Seq(Entries)
    BY <1>1 DEF ShapeInv, TypedToo, Fetches
<1>3. PICK d \in Folders : d = fetch.parent
    BY <1>2
<1> DEFINE old == IF listing[d] = NoListing THEN <<>> ELSE Kept(listing[d], PendingIds)
           known == {pid \in PendingIds : home[pid] = d /\ named[pid] # NoName}
           added == [i \in DOMAIN SetToSeq(known) |->
                        Entry(SetToSeq(known)[i], named[SetToSeq(known)[i]])]
<1>4. WithPending(d, fetch.files) = WithEntries(fetch.files, old \o added)
    BY DEF WithPending
<1>5. old \in Seq(Entries) /\ IdsOf(old) = Entered(d) \cap PendingIds
    <2>1. CASE listing[d] = NoListing
        <3>1. IdsOf(<<>>) = {}
            BY DEF IdsOf
        <3> QED
            BY <2>1, <3>1 DEF Entered
    <2>2. CASE listing[d] # NoListing
        <3>1. listing[d] \in Seq(Entries)
            BY <2>2 DEF ShapeInv, TypedToo, Listings
        <3> QED
            BY <2>2, <3>1, KeptResult DEF Entered
    <2> QED
        BY <2>1, <2>2
<1>6. added \in Seq(Entries) /\ IdsOf(added) = known
    <2>1. known \in SUBSET Ids
        BY Kinds
    <2>2. \A id \in known : named[id] \in RawNames
        BY DEF ShapeInv, Typed
    <2> HIDE DEF known
    <2> QED
        BY <2>1, <2>2, EntriesOf
<1> HIDE DEF old, added
<1>7. old \o added \in Seq(Entries) /\ IdsOf(old \o added) = IdsOf(old) \cup IdsOf(added)
    <2> DEFINE both == old \o added
               m == Len(old)
               n == Len(added)
    <2>1. /\ both \in Seq(Entries) /\ Len(both) = m + n /\ m \in Nat /\ n \in Nat
          /\ \A i \in 1..(m + n) : both[i] = IF i <= m THEN old[i] ELSE added[i - m]
        BY <1>5, <1>6, ConcatProperties
    <2>2. DOMAIN old = 1..m /\ DOMAIN added = 1..n /\ DOMAIN both = 1..(m + n)
        BY <1>5, <1>6, <2>1
    <2> HIDE DEF both, m, n
    <2>3. ASSUME NEW id \in IdsOf(both)
          PROVE  id \in IdsOf(old) \cup IdsOf(added)
        <3>1. PICK i \in 1..(m + n) : both[i].id = id
            BY <2>2, <2>3 DEF IdsOf
        <3>2. CASE i <= m
            <4>1. i \in 1..m /\ both[i] = old[i]
                BY <2>1, <3>2
            <4> QED
                BY <2>2, <3>1, <4>1 DEF IdsOf
        <3>3. CASE ~(i <= m)
            <4>1. i - m \in 1..n /\ both[i] = added[i - m]
                BY <2>1, <3>3
            <4> QED
                BY <2>2, <3>1, <4>1 DEF IdsOf
        <3> QED
            BY <3>2, <3>3
    <2>4. ASSUME NEW id \in IdsOf(old)
          PROVE  id \in IdsOf(both)
        <3>1. PICK i \in 1..m : old[i].id = id
            BY <2>2, <2>4 DEF IdsOf
        <3>2. i \in 1..(m + n) /\ both[i] = old[i]
            BY <2>1
        <3> QED
            BY <2>2, <3>1, <3>2 DEF IdsOf
    <2>5. ASSUME NEW id \in IdsOf(added)
          PROVE  id \in IdsOf(both)
        <3>1. PICK i \in 1..n : added[i].id = id
            BY <2>2, <2>5 DEF IdsOf
        <3>2. m + i \in 1..(m + n) /\ both[m + i] = added[i]
            <4>1. m + i \in 1..(m + n) /\ ~(m + i <= m) /\ (m + i) - m = i
                BY <2>1
            <4> QED
                BY <2>1, <4>1
        <3> QED
            BY <2>2, <3>1, <3>2 DEF IdsOf
    <2> QED
        BY <2>1, <2>3, <2>4, <2>5 DEF both
<1>8. LET files == WithEntries(fetch.files, old \o added)
      IN  /\ files \in Seq(Entries)
          /\ IdsOf(files) = IdsOf(fetch.files) \cup (Entered(d) \cap PendingIds) \cup known
          /\ OnceEach(fetch.files) => OnceEach(files)
    <2> DEFINE more == old \o added
    <2>1. /\ more \in Seq(Entries)
          /\ IdsOf(more) = (Entered(d) \cap PendingIds) \cup known
        BY <1>5, <1>6, <1>7
    <2> HIDE DEF known, more
    <2>2. /\ WithEntries(fetch.files, more) \in Seq(Entries)
          /\ IdsOf(WithEntries(fetch.files, more)) = IdsOf(fetch.files) \cup IdsOf(more)
          /\ OnceEach(fetch.files) => OnceEach(WithEntries(fetch.files, more))
        BY <1>2, <2>1, WithEntriesResult
    <2> QED
        BY <2>1, <2>2 DEF more
<1>9. fetch'.files = WithEntries(fetch.files, old \o added)
    BY <1>1, <1>3, <1>4
<1> QED
    BY <1>1, <1>2, <1>3, <1>8, <1>9 DEF Fetches

\* The new listing replaces the old one.
LEMMA InstallEffect ==
    ASSUME TypedToo, Install
    PROVE  /\ fetch.phase = "merged" /\ fetch.parent \in Folders /\ fetch' = NoFetch
           /\ listing' \in [Folders -> Listings]
           /\ \A e \in Folders :
                 listing'[e] = IF e = fetch.parent THEN fetch.files ELSE listing[e]
           /\ \A e \in Folders : listing'[e] # NoListing =>
                 e = fetch.parent \/ listing[e] # NoListing
           /\ \A e \in Folders :
                 Entered(e)' = IF e = fetch.parent THEN IdsOf(fetch.files) ELSE Entered(e)
           /\ fetch.files # NoListing
<1>1. /\ fetch.phase = "merged" /\ fetch' = NoFetch
      /\ listing' = [listing EXCEPT ![fetch.parent] = fetch.files]
    BY DEF Install
<1>2. fetch.parent \in Folders /\ fetch.files \in Seq(Entries)
    BY <1>1 DEF TypedToo, Fetches
<1>3. PICK d \in Folders, files \in Seq(Entries) : d = fetch.parent /\ files = fetch.files
    BY <1>2
<1>4. /\ listing' \in [Folders -> Listings]
      /\ listing'[d] = files /\ listing'[d] # NoListing
      /\ Entered(d)' = IdsOf(files)
      /\ \A e \in Folders \ {d} :
            listing'[e] = listing[e] /\ Entered(e)' = Entered(e)
    BY <1>1, <1>3, ListingSet
<1> QED
    BY <1>1, <1>2, <1>3, <1>4

\* replace_pending_id: the real file is where the placeholder was.
LEMMA ReplaceEffect ==
    ASSUME ShapeInv, Replace, NEW d \in Folders, d = uploader.to.parent,
           NEW old \in PendingIds, old = uploader.pid,
           NEW new \in SpareIds, new = uploader.newId
    PROVE  /\ listing' \in [Folders -> Listings]
           /\ \A e \in Folders : listing'[e] # NoListing <=> listing[e] # NoListing
           /\ \A e \in Folders \ {d} :
                 listing'[e] = listing[e] /\ Entered(e)' = Entered(e)
           /\ listing[d] # NoListing /\ new \notin Entered(d) /\ Once(d) =>
                 /\ Entered(d)' = (Entered(d) \ {old}) \cup {new}
                 /\ OnceEach(listing'[d])
<1> DEFINE e == Entry(new, uploader.to.name)
           at == Positions(listing[d], old)
           files == IF at = {} THEN Append(listing[d], e)
                    ELSE [listing[d] EXCEPT
                            ![CHOOSE i \in at : \A j \in at : i <= j] = e]
<1>1. listing' = Edited(d, files)
    BY DEF Replace
<1>2. listing \in [Folders -> Listings]
    BY DEF ShapeInv, TypedToo
<1>3. e \in Entries /\ e.id = new
    <2>1. uploader.to \in Places
        BY DEF ShapeInv, TargetPlaced, Replace
    <2>2. uploader.to.name \in RawNames
        BY <2>1 DEF Places
    <2> QED
        BY <2>2, Kinds DEF Entry, Entries
<1>4. CASE listing[d] = NoListing
    BY <1>1, <1>2, <1>4 DEF Edited, Entered
<1>5. CASE listing[d] # NoListing
    <2>1. /\ listing[d] \in Seq(Entries) /\ Entered(d) = IdsOf(listing[d])
          /\ listing' = [listing EXCEPT ![d] = files]
        BY <1>1, <1>2, <1>5 DEF Listings, Entered, Edited
    <2> HIDE DEF e
    <2>2. /\ files \in Seq(Entries)
          /\ new \notin Entered(d) /\ OnceEach(listing[d]) =>
                /\ IdsOf(files) = (Entered(d) \ {old}) \cup {new}
                /\ OnceEach(files)
        <3>1. CASE at = {}
            <4>1. old \notin Entered(d)
                BY <2>1, <3>1 DEF Positions, IdsOf
            <4>2. /\ Append(listing[d], e) \in Seq(Entries)
                  /\ IdsOf(Append(listing[d], e)) = Entered(d) \cup {new}
                  /\ OnceEach(listing[d]) /\ new \notin Entered(d) =>
                        OnceEach(Append(listing[d], e))
                BY <1>3, <2>1, OneMore
            <4> QED
                BY <3>1, <4>1, <4>2
        <3>2. CASE at # {}
            <4>1. at \subseteq DOMAIN listing[d] /\ at \in SUBSET Nat
                BY <2>1 DEF Positions
            <4>2. \E i \in at : \A j \in at : i <= j
                BY <3>2, <4>1, LeastNumber
            <4>3. PICK i \in at : files = [listing[d] EXCEPT ![i] = e]
                BY <3>2, <4>2
            <4>4. listing[d][i].id = old /\ i \in DOMAIN listing[d]
                BY <4>1, <4>3 DEF Positions
            <4> HIDE DEF files
            <4> QED
                BY <1>3, <2>1, <4>3, <4>4, EntryReplaced
        <3> QED
            BY <3>1, <3>2
    <2> HIDE DEF files
    <2>3. /\ listing' \in [Folders -> Listings]
          /\ listing'[d] = files /\ listing'[d] # NoListing
          /\ Entered(d)' = IdsOf(files)
          /\ \A x \in Folders \ {d} :
                listing'[x] = listing[x] /\ Entered(x)' = Entered(x)
        BY <2>1, <2>2, ListingSet DEF ShapeInv
    <2> QED
        BY <1>5, <2>2, <2>3 DEF Once
<1> QED
    BY <1>4, <1>5

\* remove_pending_from_dir.
LEMMA ForgetEffect ==
    ASSUME ShapeInv, Forget, NEW d \in Folders, d = uploader.to.parent,
           NEW pid \in PendingIds, pid = uploader.pid
    PROVE  /\ listing' \in [Folders -> Listings]
           /\ \A e \in Folders : listing'[e] # NoListing <=> listing[e] # NoListing
           /\ \A e \in Folders :
                 Entered(e)' = IF e = d THEN Entered(e) \ {pid} ELSE Entered(e)
           /\ \A e \in Folders : Once(e) => Once(e)'
<1> DEFINE files == Without(listing[d], pid)
<1>1. listing' = Edited(d, files)
    BY DEF Forget
<1>2. listing \in [Folders -> Listings]
    BY DEF ShapeInv, TypedToo
<1>3. CASE listing[d] = NoListing
    BY <1>1, <1>2, <1>3 DEF Edited, Entered, Once
<1>4. CASE listing[d] # NoListing
    <2>1. /\ listing[d] \in Seq(Entries) /\ Entered(d) = IdsOf(listing[d])
          /\ listing' = [listing EXCEPT ![d] = files]
        BY <1>1, <1>2, <1>4 DEF Listings, Entered, Edited
    <2>2. /\ files \in Seq(Entries) /\ IdsOf(files) = Entered(d) \ {pid}
          /\ OnceEach(listing[d]) => OnceEach(files)
        BY <2>1, Kinds, WithoutResult
    <2> HIDE DEF files
    <2>3. /\ listing' \in [Folders -> Listings]
          /\ listing'[d] = files /\ listing'[d] # NoListing
          /\ Entered(d)' = IdsOf(files)
          /\ \A x \in Folders \ {d} :
                listing'[x] = listing[x] /\ Entered(x)' = Entered(x)
        BY <2>1, <2>2, ListingSet DEF ShapeInv
    <2> QED
        BY <1>4, <2>2, <2>3 DEF Once
<1> QED
    BY <1>3, <1>4

\* lookup(), readdir(), rename() and unlink() give names to the files of a listing.
Resolves(d) == listing[d] # NoListing /\ shown' = Resolved(listing[d])
LEMMA ResolveEffect ==
    ASSUME TypedToo, NEW d \in Folders, Resolves(d)
    PROVE  /\ listing[d] # NoListing /\ Entered(d) \in SUBSET Ids
           /\ shown' \in ShownTo
           /\ \A a \in Ids : (a \notin Entered(d) \/ shown[a] # NoName) =>
                 shown'[a] = shown[a]
           /\ NamesDiffer(shown, Entered(d)) => NamesDiffer(shown', Entered(d))
           /\ \A a \in Entered(d) :
                 shown[a] = NoName /\ shown'[a] \notin RawNames \cup {NoName} =>
                    \E o \in Entered(d) \ {a} : shown'[o] = Front(shown'[a])
<1>1. listing[d] # NoListing /\ shown' = Resolved(listing[d])
    BY DEF Resolves
<1>2. listing[d] \in Seq(Entries) /\ Entered(d) = IdsOf(listing[d]) /\ shown \in ShownTo
    BY <1>1 DEF TypedToo, Listings, Entered
<1>3. Entered(d) \in SUBSET Ids
    BY <1>2, IdsTyped
<1> QED
    BY <1>1, <1>2, <1>3, ResolvedResult

\* They do so for the listing in which they find the file.
LEMMA ResolvesWhereFound ==
    ASSUME Typed
    PROVE  /\ \A d \in Folders, id \in Ids : Show(d, id) => Resolves(d)
           /\ \A d \in Folders, name \in RawNames, pid \in PendingIds :
                 RenamePending(pid, d, name) =>
                    home[pid] \in Folders /\ Resolves(home[pid])
           /\ \A d \in Folders, name \in RawNames, id \in DriveIds :
                 RenameFile(id, d, name) =>
                    drive[id].parent \in Folders /\ Resolves(drive[id].parent)
           /\ \A id \in DriveIds : Unlink(id) =>
                 drive[id].parent \in Folders /\ Resolves(drive[id].parent)
<1>1. /\ \A pid \in PendingIds : home[pid] # NoFolder => home[pid] \in Folders
      /\ \A id \in DriveIds : drive[id] # NoRow => drive[id].parent \in Folders
    BY DEF Typed, Places
<1>2. \A d \in Folders, id \in Ids : Show(d, id) => Resolves(d)
    BY DEF Show, Listed, Resolves
<1>3. ASSUME NEW d \in Folders, NEW name \in RawNames, NEW pid \in PendingIds,
             RenamePending(pid, d, name)
      PROVE  home[pid] \in Folders /\ Resolves(home[pid])
    BY <1>1, <1>3 DEF RenamePending, Listed, Resolves
<1>4. ASSUME NEW d \in Folders, NEW name \in RawNames, NEW id \in DriveIds,
             RenameFile(id, d, name)
      PROVE  drive[id].parent \in Folders /\ Resolves(drive[id].parent)
    BY <1>1, <1>4 DEF RenameFile, Listed, Resolves
<1>5. ASSUME NEW id \in DriveIds, Unlink(id)
      PROVE  drive[id].parent \in Folders /\ Resolves(drive[id].parent)
    BY <1>1, <1>5 DEF Unlink, Listed, Resolves
<1> QED
    BY <1>2, <1>3, <1>4, <1>5

\* The row of a file that is closed gets a name and a folder.
LEMMA LivePlaced ==
    ASSUME Typed, RowsPlaced, NEW pid \in opened
    PROVE  Live(pid) \in Places
<1>1. pid \in PendingIds /\ wanted[pid] \in Places
    BY DEF Typed, RowsPlaced
<1>2. named[pid] # NoName => Place(named[pid], home[pid]) \in Places
    BY <1>1 DEF Typed, RowsPlaced, Place, Places
<1> QED
    BY <1>1, <1>2 DEF Live

-----------------------------------------------------------------------------
(* The types are kept.                                                      *)

\* The steps that touch no listing, no fetch and no name that is shown; they
\* leave Drive and the placeholders alone, too (AsideKeeps).
Aside ==
    \/ \E pid \in PendingIds : Release(pid) \/ Pick(pid)
    \/ \E id \in DriveIds : Follow(id) \/ FollowRemoval(id) \/ NumberListed(id)
    \/ StoreRenamed \/ Reread \/ SendFails \/ Finalize \/ Abandon
    \/ UNCHANGED vars

\* They leave Drive, the placeholders, the listings and the names alone.
LEMMA AsideKeeps ==
    ASSUME Aside
    PROVE  UNCHANGED <<drive, named, home, listing, fetch, shown, mounted, wanted,
                       copies, renames, mounts>>
<1>1. ASSUME NEW pid \in PendingIds, Release(pid)
      PROVE  UNCHANGED <<drive, named, home, listing, fetch, shown, mounted, wanted,
                         copies, renames, mounts>>
    BY <1>1 DEF Release, memory
<1>2. ASSUME NEW pid \in PendingIds, Pick(pid)
      PROVE  UNCHANGED <<drive, named, home, listing, fetch, shown, mounted, wanted,
                         copies, renames, mounts>>
    BY <1>2 DEF Pick, memory
<1>3. ASSUME NEW id \in DriveIds, Follow(id) \/ FollowRemoval(id) \/ NumberListed(id)
      PROVE  UNCHANGED <<drive, named, home, listing, fetch, shown, mounted, wanted,
                         copies, renames, mounts>>
    BY <1>3 DEF Follow, FollowRemoval, NumberListed, memory
<1>4. CASE StoreRenamed \/ Reread \/ SendFails \/ Finalize \/ Abandon \/ UNCHANGED vars
    BY <1>4 DEF StoreRenamed, Reread, SendFails, Finalize, Abandon, vars, memory
<1> QED
    BY <1>1, <1>2, <1>3, <1>4 DEF Aside

\* Where a file that Drive has is.
LEMMA OnDriveTyped ==
    ASSUME Typed, NEW id \in DriveIds, drive[id] # NoRow
    PROVE  drive[id] \in Places /\ drive[id].parent \in Folders
BY DEF Typed, Places

\* get_or_alloc_ino and load_inode_map give out numbers there are.
LEMMA NumberTyped ==
    ASSUME Typed, NEW id \in Ids, Number(id)
    PROVE  /\ inoOf' \in [Ids -> 0..MaxIno]
           /\ idAt' \in [Inodes -> Ids \cup {NoId}]
           /\ nextIno' \in 1..MaxIno + 1
           /\ inoOf'[id] \in Inodes
<1>1. CASE inoOf[id] # 0
    <2>1. UNCHANGED <<inoOf, idAt, nextIno>>
        BY <1>1 DEF Number, inodes
    <2> QED
        BY <1>1, <2>1, Kinds DEF Typed, Inodes
<1>2. CASE inoOf[id] = 0
    <2>1. /\ nextIno <= MaxIno
          /\ inoOf' = [inoOf EXCEPT ![id] = nextIno]
          /\ idAt' = [idAt EXCEPT ![nextIno] = id]
          /\ nextIno' = nextIno + 1
        BY <1>2 DEF Number
    <2>2. nextIno \in Inodes
        BY <2>1, Kinds DEF Typed, Inodes
    <2> QED
        BY <2>1, <2>2, Kinds DEF Typed, Inodes
<1> QED
    BY <1>1, <1>2

\* What is not in a listing keeps its type.
LEMMA TypedStep ==
    ASSUME ShapeInv, [Next]_vars
    PROVE  Typed'
<1>0. /\ Typed /\ RowsPlaced /\ TargetPlaced /\ Working
      /\ \A pid \in PendingIds : pid \in Ids
      /\ \A id \in DriveIds : id \in Ids
      /\ SpareIds \subseteq DriveIds
      /\ Resting \in UploaderStates /\ NoRename \in RenameStates
      /\ \A name \in RawNames, d \in Folders : Place(name, d) \in Places
    BY Kinds, RestingState DEF ShapeInv, NoRename, RenameStates, Place, Places
<1>1. ASSUME NEW d \in Folders, NEW name \in RawNames, NEW pid \in PendingIds,
             Create(pid, d, name)
      PROVE  Typed'
    <2>1. /\ Number(pid) /\ opened' = opened \cup {pid}
          /\ named' = [named EXCEPT ![pid] = name]
          /\ home' = [home EXCEPT ![pid] = d]
          /\ wanted' = [wanted EXCEPT ![pid] = Place(name, d)]
          /\ UNCHANGED <<drive, row, rename, uploader, copies>>
        BY <1>1 DEF Create
    <2>2. /\ inoOf' \in [Ids -> 0..MaxIno] /\ idAt' \in [Inodes -> Ids \cup {NoId}]
          /\ nextIno' \in 1..MaxIno + 1
        BY <1>0, <2>1, NumberTyped
    <2> QED
        BY <1>0, <2>1, <2>2 DEF Typed
<1>2. ASSUME NEW d \in Folders, NEW name \in RawNames, NEW pid \in PendingIds,
             RenamePending(pid, d, name)
      PROVE  Typed'
    <2> DEFINE stored == [pid |-> pid, row |-> row[pid], to |-> Place(name, d)]
    <2>1. /\ named' = [named EXCEPT ![pid] = name]
          /\ home' = [home EXCEPT ![pid] = d]
          /\ rename' = IF row[pid] = NoRow THEN NoRename ELSE stored
          /\ wanted' = [wanted EXCEPT ![pid] = Place(name, d)]
          /\ UNCHANGED <<drive, inoOf, idAt, nextIno, row, opened, uploader, copies>>
        BY <1>2 DEF RenamePending, inodes
    <2>2. stored \in RenameStates
        BY <1>0 DEF Typed, RenameStates
    <2>3. rename' \in RenameStates
        BY <1>0, <2>1, <2>2
    <2> QED
        BY <1>0, <2>1, <2>3 DEF Typed
<1>3. ASSUME NEW pid \in PendingIds, Release(pid)
      PROVE  Typed'
    <2> DEFINE r == [name |-> Live(pid).name, parent |-> Live(pid).parent, dirty |-> TRUE,
                     ino |-> IF row[pid] = NoRow THEN inoOf'[pid] ELSE row[pid].ino]
    <2>1. /\ Number(pid) /\ pid \in opened /\ opened' = opened \ {pid}
          /\ row' = [row EXCEPT ![pid] = r]
          /\ UNCHANGED <<drive, named, home, rename, uploader, wanted, copies>>
        BY <1>3 DEF Release, memory
    <2>2. /\ inoOf' \in [Ids -> 0..MaxIno] /\ idAt' \in [Inodes -> Ids \cup {NoId}]
          /\ nextIno' \in 1..MaxIno + 1 /\ inoOf'[pid] \in Inodes
        BY <1>0, <2>1, NumberTyped
    <2>3. r \in Rows
        <3>1. row[pid] # NoRow => row[pid].ino \in Inodes
            BY <1>0 DEF Typed, Rows
        <3>2. Live(pid).name \in RawNames /\ Live(pid).parent \in Folders
            BY <1>0, <2>1, LivePlaced DEF Places
        <3> QED
            BY <2>2, <3>1, <3>2 DEF Rows
    <2> HIDE DEF r
    <2> QED
        BY <1>0, <2>1, <2>2, <2>3 DEF Typed
<1>4. CASE StoreRenamed
    <2> DEFINE r == [name |-> rename.to.name, parent |-> rename.to.parent,
                     dirty |-> rename.row.dirty,
                     ino |-> IF row[rename.pid] = NoRow THEN rename.row.ino
                             ELSE row[rename.pid].ino]
    <2>1. /\ rename # NoRename /\ rename' = NoRename
          /\ row' = [row EXCEPT ![rename.pid] = r]
          /\ UNCHANGED <<drive, inoOf, idAt, nextIno, named, home, opened, uploader,
                         wanted, copies>>
        BY <1>4 DEF StoreRenamed, memory, inodes
    <2>2. r \in Rows
        <3>1. rename.pid \in Ids /\ rename.row \in Rows /\ rename.to \in Places
            BY <1>0, <2>1 DEF Working
        <3>2. row[rename.pid] # NoRow => row[rename.pid].ino \in Inodes
            BY <1>0, <3>1 DEF Typed, Rows
        <3> QED
            BY <3>1, <3>2 DEF Rows, Places
    <2> HIDE DEF r
    <2> QED
        BY <1>0, <2>1, <2>2 DEF Typed
<1>5. ASSUME NEW d \in Folders, NEW name \in RawNames, NEW id \in DriveIds,
             RenameFile(id, d, name)
      PROVE  Typed'
    <2>1. /\ Number(id) /\ drive' = [drive EXCEPT ![id] = Place(name, d)]
          /\ UNCHANGED <<named, home, row, opened, rename, uploader, wanted, copies>>
        BY <1>5 DEF RenameFile
    <2>2. /\ inoOf' \in [Ids -> 0..MaxIno] /\ idAt' \in [Inodes -> Ids \cup {NoId}]
          /\ nextIno' \in 1..MaxIno + 1
        BY <1>0, <2>1, NumberTyped
    <2> QED
        BY <1>0, <2>1, <2>2 DEF Typed
<1>6. ASSUME NEW id \in DriveIds,
             \/ Unlink(id)
             \/ \E d \in Folders, name \in RawNames : MoveElsewhere(id, d, name)
      PROVE  Typed'
    <2>1. PICK p \in Places \cup {NoRow} : drive' = [drive EXCEPT ![id] = p]
        BY <1>0, <1>6 DEF Unlink, MoveElsewhere
    <2>2. UNCHANGED <<inoOf, idAt, nextIno, named, home, row, opened, rename, uploader,
                      wanted, copies>>
        BY <1>6 DEF Unlink, MoveElsewhere, memory, inodes
    <2> QED
        BY <1>0, <2>1, <2>2 DEF Typed
<1>7. ASSUME NEW id \in DriveIds, Follow(id)
      PROVE  Typed'
    <2> DEFINE r == [name |-> NoName, parent |-> NoFolder, dirty |-> FALSE,
                     ino |-> IF row[id] = NoRow THEN inoOf'[id] ELSE row[id].ino]
    <2>1. /\ Number(id) /\ row' = [row EXCEPT ![id] = r]
          /\ UNCHANGED <<drive, named, home, opened, rename, uploader, wanted, copies>>
        BY <1>7 DEF Follow, memory
    <2>2. /\ inoOf' \in [Ids -> 0..MaxIno] /\ idAt' \in [Inodes -> Ids \cup {NoId}]
          /\ nextIno' \in 1..MaxIno + 1 /\ inoOf'[id] \in Inodes
        BY <1>0, <2>1, NumberTyped
    <2>3. r \in Rows
        <3>1. row[id] # NoRow => row[id].ino \in Inodes
            BY <1>0 DEF Typed, Rows
        <3> QED
            BY <2>2, <3>1 DEF Rows
    <2> HIDE DEF r
    <2> QED
        BY <1>0, <2>1, <2>2, <2>3 DEF Typed
<1>8. ASSUME NEW id \in DriveIds, FollowRemoval(id)
      PROVE  Typed'
    <2>1. /\ row' = [row EXCEPT ![id] = NoRow]
          /\ UNCHANGED <<drive, inoOf, idAt, nextIno, named, home, opened, rename,
                         uploader, wanted, copies>>
        BY <1>8 DEF FollowRemoval, memory, inodes
    <2> QED
        BY <1>0, <2>1 DEF Typed
<1>9. ASSUME NEW id \in Ids, Number(id),
             UNCHANGED <<drive, named, home, row, opened, rename, uploader, wanted,
                         copies>>
      PROVE  Typed'
    <2>1. /\ inoOf' \in [Ids -> 0..MaxIno] /\ idAt' \in [Inodes -> Ids \cup {NoId}]
          /\ nextIno' \in 1..MaxIno + 1
        BY <1>0, <1>9, NumberTyped
    <2> QED
        BY <1>0, <1>9, <2>1 DEF Typed
<1>10. ASSUME UNCHANGED <<drive, inoOf, idAt, nextIno, named, home, row, opened, rename,
                          wanted, copies>>,
              uploader' \in UploaderStates
       PROVE  Typed'
    BY <1>0, <1>10 DEF Typed
<1>11. CASE FetchStep
    <2>1. ASSUME NEW id \in DriveIds, NumberListed(id)
          PROVE  Typed'
        BY <1>0, <1>9, <2>1 DEF NumberListed, memory
    <2>2. CASE (\E d \in Folders : Ask(d)) \/ Merge \/ Install
        <3>1. uploader \in UploaderStates
            BY <1>0 DEF Typed
        <3> QED
            BY <1>10, <2>2, <3>1 DEF Ask, Merge, Install, memory, inodes
    <2> QED
        BY <1>11, <2>1, <2>2 DEF FetchStep
<1>12. ASSUME NEW pid \in PendingIds, Pick(pid)
       PROVE  Typed'
    <2>1. /\ Stored(pid)
          /\ uploader' = [phase |-> "settle", pid |-> pid, newId |-> NoId,
                          to |-> Place(row[pid].name, row[pid].parent)]
          /\ UNCHANGED <<drive, inoOf, idAt, nextIno, named, home, row, opened, rename,
                         wanted, copies>>
        BY <1>12 DEF Pick, memory, inodes, Stored
    <2>2. Place(row[pid].name, row[pid].parent) \in Places
        BY <1>0, <2>1 DEF RowsPlaced
    <2>3. uploader' \in UploaderStates
        BY <2>1, <2>2 DEF UploaderStates
    <2> QED
        BY <1>10, <2>1, <2>3
<1>13. CASE Reread
    <2> DEFINE to == IF row[uploader.pid] = NoRow THEN uploader.to
                     ELSE Place(row[uploader.pid].name, row[uploader.pid].parent)
    <2>1. /\ uploader.phase = "settle" /\ uploader' = Stage("send", to, NoId)
          /\ UNCHANGED <<drive, inoOf, idAt, nextIno, named, home, row, opened, rename,
                         wanted, copies>>
        BY <1>13 DEF Reread, memory, inodes
    <2>2. uploader.pid \in PendingIds /\ uploader.to \in Places
        BY <1>0, <2>1 DEF Working, TargetPlaced
    <2>3. to \in Places \cup {NoRow}
        BY <1>0, <2>2 DEF RowsPlaced, Stored
    <2> HIDE DEF to
    <2>4. uploader' \in UploaderStates
        BY <1>0, <2>1, <2>3, Staged
    <2> QED
        BY <1>10, <2>1, <2>4
<1>14. ASSUME NEW new \in SpareIds, CreateFile(new)
       PROVE  Typed'
    <2>1. /\ uploader.phase = "send"
          /\ drive' = [drive EXCEPT ![new] = uploader.to]
          /\ copies' = [copies EXCEPT ![uploader.pid] = copies[uploader.pid] \cup {new}]
          /\ uploader' = Stage("finalize", uploader.to, new) \/ uploader' = Resting
          /\ UNCHANGED <<inoOf, idAt, nextIno, named, home, row, opened, rename, wanted>>
        BY <1>14 DEF CreateFile, memory, inodes
    <2>2. uploader.pid \in PendingIds /\ uploader.to \in Places /\ new \in DriveIds
        BY <1>0, <2>1 DEF Working, TargetPlaced
    <2>3. uploader' \in UploaderStates
        BY <1>0, <2>1, <2>2, Staged
    <2> QED
        BY <1>0, <2>1, <2>2, <2>3 DEF Typed
<1>15. CASE SendFails
    <2>1. /\ uploader.phase = "send"
          /\ uploader' = Resting \/ uploader' = Stage("abandon", uploader.to, NoId)
          /\ UNCHANGED <<drive, inoOf, idAt, nextIno, named, home, row, opened, rename,
                         wanted, copies>>
        BY <1>15 DEF SendFails, memory, inodes
    <2>2. uploader.to \in Places
        BY <1>0, <2>1 DEF TargetPlaced
    <2>3. uploader' \in UploaderStates
        BY <1>0, <2>1, <2>2, Staged
    <2> QED
        BY <1>10, <2>1, <2>3
<1>16. CASE Finalize
    <2>1. uploader.phase = "finalize"
        BY <1>16 DEF Finalize
    <2>2. PICK old \in PendingIds, new \in SpareIds :
             old = uploader.pid /\ new = uploader.newId
        BY <1>0, <2>1 DEF Working
    <2> DEFINE r == [name |-> row[old].name, dirty |-> FALSE,
                     parent |-> row[old].parent, ino |-> row[old].ino]
    <2>3. /\ row' = IF row[old] = NoRow \/ row[new] # NoRow THEN row
                    ELSE [row EXCEPT ![old] = NoRow, ![new] = r]
          /\ uploader' = Stage("replace", uploader.to, new)
          /\ UNCHANGED <<drive, inoOf, idAt, nextIno, named, home, opened, rename, wanted,
                         copies>>
        BY <1>16, <2>2 DEF Finalize, memory, inodes
    <2>4. row[old] # NoRow => r \in Rows
        BY <1>0 DEF Typed, Rows
    <2> HIDE DEF r
    <2>5. row' \in [Ids -> Rows \cup {NoRow}]
        BY <1>0, <2>3, <2>4 DEF Typed
    <2>6. uploader' \in UploaderStates
        <3>1. uploader.to \in Places
            BY <1>0, <2>1 DEF TargetPlaced
        <3> QED
            BY <1>0, <2>3, <3>1, Staged
    <2> QED
        BY <1>0, <2>3, <2>5, <2>6 DEF Typed
<1>17. CASE Replace
    <2>1. uploader.phase = "replace"
        BY <1>17 DEF Replace
    <2>2. PICK old \in PendingIds, new \in SpareIds :
             old = uploader.pid /\ new = uploader.newId
        BY <1>0, <2>1 DEF Working
    <2>3. /\ home' = [home EXCEPT ![old] = NoFolder]
          /\ named' = [named EXCEPT ![old] = NoName]
          /\ inoOf' = IF inoOf[old] = 0 THEN inoOf
                      ELSE [inoOf EXCEPT ![old] = 0, ![new] = inoOf[old]]
          /\ idAt' = IF inoOf[old] = 0 THEN idAt
                     ELSE [idAt EXCEPT ![inoOf[old]] = new]
          /\ uploader' = Resting
          /\ UNCHANGED <<drive, nextIno, row, opened, rename, wanted, copies>>
        BY <1>17, <2>2 DEF Replace
    <2>4. inoOf' \in [Ids -> 0..MaxIno]
        <3>1. old \in Ids /\ 0 \in 0..MaxIno /\ inoOf[old] \in 0..MaxIno
            BY <1>0, Kinds DEF Typed
        <3> QED
            BY <1>0, <2>3, <3>1 DEF Typed
    <2>5. idAt' \in [Inodes -> Ids \cup {NoId}]
        BY <1>0, <2>3 DEF Typed
    <2> QED
        BY <1>0, <2>3, <2>4, <2>5 DEF Typed
<1>18. CASE Abandon
    <2>1. /\ uploader.phase = "abandon"
          /\ row' \in {row, [row EXCEPT ![uploader.pid] = NoRow]}
          /\ uploader' = Stage("forget", uploader.to, NoId)
          /\ UNCHANGED <<drive, inoOf, idAt, nextIno, named, home, opened, rename,
                         wanted, copies>>
        BY <1>18 DEF Abandon, memory, inodes
    <2>2. uploader.to \in Places
        BY <1>0, <2>1 DEF TargetPlaced
    <2>3. uploader' \in UploaderStates
        BY <1>0, <2>1, <2>2, Staged
    <2>4. row' \in [Ids -> Rows \cup {NoRow}]
        BY <1>0, <2>1 DEF Typed
    <2> QED
        BY <1>0, <2>1, <2>3, <2>4 DEF Typed
<1>19. CASE Forget
    <2>1. PICK pid \in PendingIds : pid = uploader.pid
        BY <1>0, <1>19 DEF Forget, Working
    <2>2. /\ home' = [home EXCEPT ![pid] = NoFolder]
          /\ named' = [named EXCEPT ![pid] = NoName]
          /\ inoOf' = [inoOf EXCEPT ![pid] = 0]
          /\ idAt' = IF inoOf[pid] = 0 THEN idAt ELSE [idAt EXCEPT ![inoOf[pid]] = NoId]
          /\ wanted' = [wanted EXCEPT ![pid] = IF pid \in opened THEN @ ELSE NoRow]
          /\ uploader' = Resting
          /\ UNCHANGED <<drive, nextIno, row, opened, rename, copies>>
        BY <1>19, <2>1 DEF Forget
    <2>3. inoOf' \in [Ids -> 0..MaxIno]
        <3>1. 0 \in 0..MaxIno
            BY Kinds
        <3> QED
            BY <1>0, <2>2, <3>1 DEF Typed
    <2>4. idAt' \in [Inodes -> Ids \cup {NoId}]
        BY <1>0, <2>2 DEF Typed
    <2> QED
        BY <1>0, <2>2, <2>3, <2>4 DEF Typed
<1>20. CASE UploaderStep
    BY <1>12, <1>13, <1>14, <1>15, <1>16, <1>17, <1>18, <1>19, <1>20 DEF UploaderStep
<1>21. CASE Remount
    <2>1. /\ Restored
          /\ named' = [pid \in PendingIds |-> NoName]
          /\ home' = [pid \in PendingIds |-> NoFolder]
          /\ opened' = {} /\ rename' = NoRename /\ uploader' = Resting
          /\ wanted' = [pid \in PendingIds |->
                IF row[pid] = NoRow THEN NoRow
                ELSE Place(row[pid].name, row[pid].parent)]
          /\ UNCHANGED <<drive, row, copies>>
        BY <1>21 DEF Remount
    <2>2. /\ inoOf' \in [Ids -> 0..MaxIno] /\ idAt' \in [Inodes -> Ids \cup {NoId}]
          /\ nextIno' \in 1..MaxIno + 1
        BY <1>0, <2>1, RestoredTyped
    <2>3. wanted' \in [PendingIds -> Places \cup {NoRow}]
        <3>1. \A pid \in PendingIds : row[pid] # NoRow =>
                 Place(row[pid].name, row[pid].parent) \in Places
            BY <1>0 DEF RowsPlaced, Stored
        <3> QED
            BY <2>1, <3>1
    <2> QED
        BY <1>0, <2>1, <2>2, <2>3 DEF Typed
<1>22. ASSUME NEW d \in Folders, NEW id \in Ids, Show(d, id)
       PROVE  Typed'
    BY <1>9, <1>22 DEF Show, memory
<1>23. CASE UNCHANGED vars
    <2>1. uploader \in UploaderStates
        BY <1>0 DEF Typed
    <2> QED
        BY <1>10, <1>23, <2>1 DEF vars, memory, inodes
<1> QED
    BY <1>1, <1>2, <1>3, <1>4, <1>5, <1>6, <1>7, <1>8, <1>11, <1>20, <1>21, <1>22, <1>23
    DEF Next

\* Listings, fetches and names that are shown keep their types.
LEMMA TypedTooStep ==
    ASSUME ShapeInv, [Next]_vars
    PROVE  TypedToo'
<1> DEFINE Counts == renames' \in 0..MaxRenames /\ mounts' \in 0..MaxMounts
<1>0. /\ TypedToo /\ listing \in [Folders -> Listings] /\ fetch \in Fetches
      /\ (fetch.phase # "idle" => fetch.parent \in Folders) /\ shown \in ShownTo
      /\ mounted \subseteq PendingIds /\ Typed
      /\ renames \in 0..MaxRenames /\ mounts \in 0..MaxMounts
      /\ NoFetch \in Fetches /\ NoFetch.phase = "idle"
      /\ MaxRenames \in Nat /\ MaxMounts \in Nat
    <2>1. <<>> \in Seq(Entries)
        OBVIOUS
    <2> QED
        BY <2>1, BoundsAssumption DEF ShapeInv, TypedToo, NoFetch, Fetches
<1>1. ASSUME NEW d \in Folders, NEW name \in RawNames, NEW pid \in PendingIds,
             Create(pid, d, name)
      PROVE  TypedToo'
    <2>1. /\ mounted' = mounted \cup {pid}
          /\ UNCHANGED <<fetch, shown, renames, mounts>>
        BY <1>1 DEF Create
    <2>2. listing' \in [Folders -> Listings]
        BY <1>1, CreateEffect
    <2> QED
        BY <1>0, <2>1, <2>2 DEF TypedToo
<1>2. ASSUME NEW d \in Folders, NEW name \in RawNames, NEW pid \in PendingIds,
             RenamePending(pid, d, name)
      PROVE  TypedToo'
    <2>1. /\ renames + mounts < MaxRenames /\ renames' = renames + 1
          /\ UNCHANGED <<fetch, mounted, mounts>>
        BY <1>2 DEF RenamePending
    <2>2. listing' \in [Folders -> Listings]
        BY <1>2, RenamePendingEffect
    <2>3. Counts
        BY <1>0, <2>1
    <2>4. shown' \in ShownTo
        BY <1>0, <1>2, ResolvesWhereFound, ResolveEffect
    <2> QED
        BY <1>0, <2>1, <2>2, <2>3, <2>4 DEF TypedToo
<1>3. ASSUME NEW d \in Folders, NEW name \in RawNames, NEW id \in DriveIds,
             RenameFile(id, d, name)
      PROVE  TypedToo'
    <2>1. /\ renames + mounts < MaxRenames /\ renames' = renames + 1 /\ drive[id] # NoRow
          /\ UNCHANGED <<fetch, mounted, mounts>>
        BY <1>3 DEF RenameFile
    <2>2. drive[id].parent \in Folders
        BY <1>0, <2>1, OnDriveTyped
    <2>3. listing' = [e \in Folders |->
                        IF e \in {drive[id].parent, d} THEN NoListing ELSE listing[e]]
        BY <1>0, <1>3, <2>2, RenameFileEffect
    <2>4. listing' \in [Folders -> Listings]
        <3>1. {drive[id].parent, d} \in SUBSET Folders
            BY <2>2
        <3> QED
            BY <1>0, <2>3, <3>1, DroppedEffect
    <2>5. Counts
        BY <1>0, <2>1
    <2>6. shown' \in ShownTo
        BY <1>0, <1>3, ResolvesWhereFound, ResolveEffect
    <2> QED
        BY <1>0, <2>1, <2>4, <2>5, <2>6 DEF TypedToo
<1>4. ASSUME NEW d \in Folders, NEW name \in RawNames, NEW id \in DriveIds,
             MoveElsewhere(id, d, name)
      PROVE  TypedToo'
    <2>1. /\ renames + mounts < MaxRenames /\ renames' = renames + 1
          /\ UNCHANGED <<listing, fetch, shown, mounted, mounts>>
        BY <1>4 DEF MoveElsewhere, memory
    <2>2. Counts
        BY <1>0, <2>1
    <2> QED
        BY <1>0, <2>1, <2>2 DEF TypedToo
<1>5. ASSUME NEW id \in DriveIds, Unlink(id)
      PROVE  TypedToo'
    <2>1. /\ drive[id] # NoRow
          /\ UNCHANGED <<fetch, mounted, renames, mounts>>
        BY <1>5 DEF Unlink
    <2>2. drive[id].parent \in Folders
        BY <1>0, <2>1, OnDriveTyped
    <2>3. PICK S \in SUBSET Folders :
             listing' = [e \in Folders |-> IF e \in S THEN NoListing ELSE listing[e]]
        BY <1>0, <1>5, <2>2, UnlinkEffect
    <2>4. listing' \in [Folders -> Listings]
        BY <1>0, <2>3, DroppedEffect
    <2>5. shown' \in ShownTo
        BY <1>0, <1>5, ResolvesWhereFound, ResolveEffect
    <2> QED
        BY <1>0, <2>1, <2>4, <2>5 DEF TypedToo
<1>6. ASSUME NEW d \in Folders, NEW id \in Ids, Show(d, id)
      PROVE  TypedToo'
    <2>1. UNCHANGED <<listing, fetch, mounted, renames, mounts>>
        BY <1>6 DEF Show, memory
    <2>2. shown' \in ShownTo
        BY <1>0, <1>6, ResolvesWhereFound, ResolveEffect
    <2> QED
        BY <1>0, <2>1, <2>2 DEF TypedToo
<1>7. ASSUME NEW d \in Folders, Ask(d)
      PROVE  TypedToo'
    <2>1. UNCHANGED <<listing, shown, mounted, renames, mounts>>
        BY <1>7 DEF Ask, memory
    <2>2. fetch' \in Fetches /\ fetch'.parent \in Folders
        BY <1>7, AskEffect
    <2> QED
        BY <1>0, <2>1, <2>2 DEF TypedToo
<1>8. CASE Merge
    <2>1. UNCHANGED <<listing, shown, mounted, renames, mounts>>
        BY <1>8 DEF Merge, memory
    <2>2. fetch' \in Fetches /\ fetch'.parent \in Folders
        BY <1>8, MergeEffect
    <2> QED
        BY <1>0, <2>1, <2>2 DEF TypedToo
<1>9. CASE Install
    <2>1. UNCHANGED <<shown, mounted, renames, mounts>>
        BY <1>9 DEF Install
    <2>2. listing' \in [Folders -> Listings] /\ fetch' = NoFetch
        BY <1>0, <1>9, InstallEffect
    <2> QED
        BY <1>0, <2>1, <2>2 DEF TypedToo
<1>10. ASSUME NEW new \in SpareIds, CreateFile(new)
       PROVE  TypedToo'
    <2>1. UNCHANGED <<listing, fetch, shown, mounted, renames, mounts>>
        BY <1>10 DEF CreateFile, memory
    <2> QED
        BY <1>0, <2>1 DEF TypedToo
<1>11. CASE Replace
    <2>1. UNCHANGED <<fetch, shown, mounted, renames, mounts>>
        BY <1>11 DEF Replace
    <2>2. /\ uploader.pid \in PendingIds /\ uploader.newId \in SpareIds
          /\ uploader.to.parent \in Folders
        <3>1. uploader.phase = "replace"
            BY <1>11 DEF Replace
        <3>2. uploader.to \in Places
            BY <3>1 DEF ShapeInv, TargetPlaced
        <3> QED
            BY <3>1, <3>2 DEF ShapeInv, Working, Places
    <2>3. listing' \in [Folders -> Listings]
        BY <1>11, <2>2, ReplaceEffect
    <2> QED
        BY <1>0, <2>1, <2>3 DEF TypedToo
<1>12. CASE Forget
    <2>1. UNCHANGED <<fetch, shown, mounted, renames, mounts>>
        BY <1>12 DEF Forget
    <2>2. uploader.pid \in PendingIds /\ uploader.to.parent \in Folders
        <3>1. uploader.phase = "forget"
            BY <1>12 DEF Forget
        <3>2. uploader.to \in Places
            BY <3>1 DEF ShapeInv, TargetPlaced
        <3> QED
            BY <3>1, <3>2 DEF ShapeInv, Working, Places
    <2>3. listing' \in [Folders -> Listings]
        BY <1>12, <2>2, ForgetEffect
    <2> QED
        BY <1>0, <2>1, <2>3 DEF TypedToo
<1>13. CASE Remount
    <2>1. /\ listing' = [d \in Folders |-> NoListing] /\ fetch' = NoFetch
          /\ mounted' \in {{}, mounted} /\ mounts < MaxMounts /\ mounts' = mounts + 1
          /\ UNCHANGED <<shown, renames>>
        BY <1>13 DEF Remount
    <2>2. listing' \in [Folders -> Listings]
        BY <2>1 DEF Listings
    <2>3. Counts
        BY <1>0, <2>1
    <2> QED
        BY <1>0, <2>1, <2>2, <2>3 DEF TypedToo
<1>14. CASE Aside
    <2>1. UNCHANGED <<listing, fetch, shown, mounted, renames, mounts>>
        BY <1>14, AsideKeeps
    <2> QED
        BY <1>0, <2>1 DEF TypedToo
<1>15. CASE FetchStep
    BY <1>7, <1>8, <1>9, <1>14, <1>15 DEF FetchStep, Aside
<1>16. CASE UploaderStep
    BY <1>10, <1>11, <1>12, <1>14, <1>16 DEF UploaderStep, Aside
<1>17. ASSUME NEW pid \in PendingIds, Release(pid)
       PROVE  TypedToo'
    BY <1>14, <1>17 DEF Aside
<1>18. ASSUME NEW id \in DriveIds, Follow(id) \/ FollowRemoval(id)
       PROVE  TypedToo'
    BY <1>14, <1>18 DEF Aside
<1>19. CASE StoreRenamed \/ UNCHANGED vars
    BY <1>14, <1>19 DEF Aside
<1> QED
    BY <1>1, <1>2, <1>3, <1>4, <1>5, <1>6, <1>13, <1>15, <1>16, <1>17, <1>18, <1>19
    DEF Next

\* The uploader moves on, or rests; its target stays.
LEMMA TargetKept ==
    ASSUME TargetPlaced, uploader.phase # "idle", NEW phase, NEW newId,
           uploader' = Resting \/ uploader' = Stage(phase, uploader.to, newId)
    PROVE  TargetPlaced'
<1>1. uploader'.phase # "idle" => uploader'.to = uploader.to
    BY DEF Stage, Resting
<1> QED
    BY <1>1 DEF TargetPlaced

\* Placeholders and rows of placeholders, before and after a step.
LEMMA RowsStay ==
    ASSUME RowsPlaced, opened' \subseteq opened,
           UNCHANGED <<named, home, wanted>>,
           \A pid \in PendingIds : row'[pid] \in {row[pid], NoRow}
    PROVE  RowsPlaced'
BY DEF RowsPlaced, Stored

\* What the rows and the uploader say of a placeholder is a name and a folder.
LEMMA PlacedStep ==
    ASSUME ShapeInv, [Next]_vars
    PROVE  RowsPlaced' /\ TargetPlaced'
<1>0. /\ RowsPlaced /\ TargetPlaced /\ Typed /\ Working
      /\ row \in [Ids -> Rows \cup {NoRow}] /\ home \in [PendingIds -> Folders \cup {NoFolder}]
      /\ named \in [PendingIds -> RawNames \cup {NoName}]
      /\ wanted \in [PendingIds -> Places \cup {NoRow}] /\ opened \subseteq PendingIds
      /\ \A pid \in PendingIds : pid \in Ids /\ pid \notin DriveIds
      /\ \A name \in RawNames, d \in Folders : Place(name, d) # NoRow /\ d # NoFolder
    <2>1. \A name \in RawNames, d \in Folders : Place(name, d) \in Places
        BY DEF Place, Places
    <2> QED
        BY <2>1, Kinds, NamesAssumption DEF ShapeInv, Typed
<1>1. ASSUME NEW d \in Folders, NEW name \in RawNames, NEW pid \in PendingIds,
             Create(pid, d, name)
      PROVE  RowsPlaced' /\ TargetPlaced'
    <2>1. /\ opened' = opened \cup {pid} /\ UNCHANGED <<row, uploader>>
          /\ named' = [named EXCEPT ![pid] = name]
          /\ home' = [home EXCEPT ![pid] = d]
          /\ wanted' = [wanted EXCEPT ![pid] = Place(name, d)]
        BY <1>1 DEF Create
    <2>2. \A p \in PendingIds \ {pid} :
             home'[p] = home[p] /\ named'[p] = named[p] /\ wanted'[p] = wanted[p]
        BY <1>0, <2>1
    <2>3. home'[pid] = d /\ wanted'[pid] = Place(name, d)
        BY <1>0, <2>1
    <2> QED
        BY <1>0, <2>1, <2>2, <2>3 DEF RowsPlaced, TargetPlaced, Stored
<1>2. ASSUME NEW d \in Folders, NEW name \in RawNames, NEW pid \in PendingIds,
             RenamePending(pid, d, name)
      PROVE  RowsPlaced' /\ TargetPlaced'
    <2>1. /\ UNCHANGED <<opened, row, uploader>>
          /\ named' = [named EXCEPT ![pid] = name]
          /\ home' = [home EXCEPT ![pid] = d]
          /\ wanted' = [wanted EXCEPT ![pid] = Place(name, d)]
        BY <1>2 DEF RenamePending
    <2>2. \A p \in PendingIds \ {pid} :
             home'[p] = home[p] /\ named'[p] = named[p] /\ wanted'[p] = wanted[p]
        BY <1>0, <2>1
    <2>3. home'[pid] = d /\ wanted'[pid] = Place(name, d)
        BY <1>0, <2>1
    <2> QED
        BY <1>0, <2>1, <2>2, <2>3 DEF RowsPlaced, TargetPlaced, Stored
<1>3. ASSUME NEW pid \in PendingIds, Release(pid)
      PROVE  RowsPlaced' /\ TargetPlaced'
    <2>1. /\ pid \in opened /\ opened' = opened \ {pid}
          /\ UNCHANGED <<named, home, wanted, uploader>>
          /\ row' = [row EXCEPT ![pid] =
                [name |-> Live(pid).name, parent |-> Live(pid).parent, dirty |-> TRUE,
                 ino |-> IF row[pid] = NoRow THEN inoOf'[pid] ELSE row[pid].ino]]
        BY <1>3 DEF Release, memory
    <2>2. Live(pid).name \in RawNames /\ Live(pid).parent \in Folders
        BY <1>0, <2>1, LivePlaced DEF Places
    <2>3. row'[pid].name = Live(pid).name /\ row'[pid].parent = Live(pid).parent
        BY <1>0, <2>1
    <2>4. \A p \in PendingIds \ {pid} : row'[p] = row[p]
        BY <1>0, <2>1
    <2> QED
        BY <1>0, <2>1, <2>2, <2>3, <2>4 DEF RowsPlaced, TargetPlaced, Stored
<1>4. CASE StoreRenamed
    <2>1. PICK pid \in PendingIds : pid = rename.pid /\ rename.to \in Places
        BY <1>0, <1>4 DEF StoreRenamed, Working
    <2>2. /\ UNCHANGED <<named, home, wanted, opened, uploader>>
          /\ row' = [row EXCEPT ![pid] =
                [name |-> rename.to.name, parent |-> rename.to.parent,
                 dirty |-> rename.row.dirty,
                 ino |-> IF row[pid] = NoRow THEN rename.row.ino ELSE row[pid].ino]]
        BY <1>4, <2>1 DEF StoreRenamed, memory
    <2>3. row'[pid].name \in RawNames /\ row'[pid].parent \in Folders
        BY <1>0, <2>1, <2>2 DEF Places
    <2>4. \A p \in PendingIds \ {pid} : row'[p] = row[p]
        BY <1>0, <2>2
    <2> QED
        BY <1>0, <2>2, <2>3, <2>4 DEF RowsPlaced, TargetPlaced, Stored
<1>5. ASSUME NEW id \in DriveIds, Follow(id) \/ FollowRemoval(id)
      PROVE  RowsPlaced' /\ TargetPlaced'
    <2>1. /\ UNCHANGED <<named, home, wanted, opened, uploader>>
          /\ \A p \in PendingIds : row'[p] = row[p]
        <3>1. CASE Follow(id)
            BY <1>0, <3>1 DEF Follow, memory
        <3>2. CASE FollowRemoval(id)
            BY <1>0, <3>2 DEF FollowRemoval, memory
        <3> QED
            BY <1>5, <3>1, <3>2
    <2> QED
        BY <1>0, <2>1 DEF RowsPlaced, TargetPlaced, Stored
<1>6. ASSUME NEW pid \in PendingIds, Pick(pid)
      PROVE  RowsPlaced' /\ TargetPlaced'
    <2>1. /\ UNCHANGED <<named, home, wanted, opened, row>> /\ Stored(pid)
          /\ uploader' = [phase |-> "settle", pid |-> pid, newId |-> NoId,
                          to |-> Place(row[pid].name, row[pid].parent)]
        BY <1>6 DEF Pick, memory, Stored
    <2>2. Place(row[pid].name, row[pid].parent) \in Places
        BY <1>0, <2>1 DEF RowsPlaced, Place, Places
    <2>3. uploader'.to \in Places
        BY <2>1, <2>2
    <2> QED
        BY <1>0, <2>1, <2>3 DEF RowsPlaced, TargetPlaced, Stored
<1>7. CASE Reread
    <2>1. /\ UNCHANGED <<named, home, wanted, opened, row>> /\ uploader.phase = "settle"
          /\ uploader' = Stage("send", IF row[uploader.pid] = NoRow THEN uploader.to
                                       ELSE Place(row[uploader.pid].name,
                                                  row[uploader.pid].parent), NoId)
        BY <1>7 DEF Reread, memory
    <2>2. uploader.pid \in PendingIds /\ uploader.to \in Places
        BY <1>0, <2>1 DEF Working, TargetPlaced
    <2>3. Stored(uploader.pid) =>
             Place(row[uploader.pid].name, row[uploader.pid].parent) \in Places
        BY <1>0, <2>2 DEF RowsPlaced, Place, Places
    <2>4. uploader'.to \in Places
        BY <2>1, <2>2, <2>3 DEF Stage, Stored
    <2> QED
        BY <1>0, <2>1, <2>4 DEF RowsPlaced, TargetPlaced, Stored
<1>8. ASSUME NEW new \in SpareIds, CreateFile(new)
      PROVE  RowsPlaced' /\ TargetPlaced'
    <2>1. /\ UNCHANGED <<named, home, wanted, opened, row>> /\ uploader.phase # "idle"
          /\ uploader' \in {Stage("finalize", uploader.to, new), Resting}
        BY <1>8 DEF CreateFile, memory
    <2>2. TargetPlaced'
        BY <1>0, <2>1, TargetKept
    <2> QED
        BY <1>0, <2>1, <2>2 DEF RowsPlaced, Stored
<1>9. CASE SendFails
    <2>1. /\ UNCHANGED <<named, home, wanted, opened, row>> /\ uploader.phase # "idle"
          /\ uploader' \in {Resting, Stage("abandon", uploader.to, NoId)}
        BY <1>9 DEF SendFails, memory
    <2>2. TargetPlaced'
        BY <1>0, <2>1, TargetKept
    <2> QED
        BY <1>0, <2>1, <2>2 DEF RowsPlaced, Stored
<1>10. CASE Finalize
    <2>1. /\ UNCHANGED <<named, home, wanted, opened>> /\ uploader.phase = "finalize"
          /\ uploader' = Stage("replace", uploader.to, uploader.newId)
        BY <1>10 DEF Finalize, memory
    <2>2. TargetPlaced'
        BY <1>0, <2>1, TargetKept
    <2>3. PICK old \in PendingIds, new \in SpareIds : old = uploader.pid /\ new = uploader.newId
        BY <1>0, <2>1 DEF Working
    <2>4. \/ row' = row
          \/ row' = [row EXCEPT ![old] = NoRow,
                       ![new] = [name |-> row[old].name, dirty |-> FALSE,
                                 parent |-> row[old].parent, ino |-> row[old].ino]]
        BY <1>10, <2>3 DEF Finalize
    <2>5. \A p \in PendingIds : row'[p] \in {row[p], NoRow}
        <3>1. \A p \in PendingIds : p # new
            BY <1>0, Kinds
        <3> QED
            BY <1>0, <2>4, <3>1
    <2>6. RowsPlaced'
        BY <1>0, <2>1, <2>5, RowsStay
    <2> QED
        BY <2>2, <2>6
<1>11. CASE Abandon
    <2>1. /\ UNCHANGED <<named, home, wanted, opened>> /\ uploader.phase = "abandon"
          /\ uploader' = Stage("forget", uploader.to, NoId)
          /\ row' \in {row, [row EXCEPT ![uploader.pid] = NoRow]}
        BY <1>11 DEF Abandon, memory
    <2>2. TargetPlaced'
        BY <1>0, <2>1, TargetKept
    <2>3. \A p \in PendingIds : row'[p] \in {row[p], NoRow}
        BY <1>0, <2>1
    <2>4. RowsPlaced'
        BY <1>0, <2>1, <2>3, RowsStay
    <2> QED
        BY <2>2, <2>4
<1>12. CASE Replace \/ Forget
    <2>1. /\ UNCHANGED <<opened, row>> /\ uploader' = Resting
          /\ home' = [home EXCEPT ![uploader.pid] = NoFolder]
          /\ named' = [named EXCEPT ![uploader.pid] = NoName]
        BY <1>12 DEF Replace, Forget
    <2>2. \A p \in opened : wanted'[p] = wanted[p]
        <3>1. CASE Replace
            BY <3>1 DEF Replace
        <3>2. CASE Forget
            <4>1. wanted' = [wanted EXCEPT ![uploader.pid] =
                                IF uploader.pid \in opened THEN @ ELSE NoRow]
                BY <3>2 DEF Forget
            <4> QED
                BY <1>0, <4>1
        <3> QED
            BY <1>12, <3>1, <3>2
    <2>3. \A p \in PendingIds : named'[p] # NoName =>
             home'[p] = home[p] /\ named'[p] = named[p]
        BY <1>0, <2>1
    <2> QED
        BY <1>0, <2>1, <2>2, <2>3 DEF RowsPlaced, TargetPlaced, Stored, Resting
<1>13. CASE Remount
    <2>1. /\ opened' = {} /\ row' = row /\ uploader' = Resting
          /\ \A p \in PendingIds : named'[p] = NoName
        BY <1>13 DEF Remount
    <2> QED
        BY <1>0, <2>1 DEF RowsPlaced, TargetPlaced, Stored, Resting
<1>14. CASE UNCHANGED <<named, home, wanted, opened, row, uploader>>
    BY <1>0, <1>14 DEF RowsPlaced, TargetPlaced, Stored
<1>15. CASE FetchStep
    BY <1>14, <1>15 DEF FetchStep, Ask, NumberListed, Merge, Install, memory
<1>16. CASE UploaderStep
    BY <1>6, <1>7, <1>8, <1>9, <1>10, <1>11, <1>12, <1>16 DEF UploaderStep
<1>17. ASSUME NEW d \in Folders, NEW name \in RawNames, NEW id \in DriveIds,
              RenameFile(id, d, name) \/ MoveElsewhere(id, d, name)
       PROVE  RowsPlaced' /\ TargetPlaced'
    BY <1>14, <1>17 DEF RenameFile, MoveElsewhere, memory
<1>18. ASSUME NEW id \in DriveIds, Unlink(id)
       PROVE  RowsPlaced' /\ TargetPlaced'
    BY <1>14, <1>18 DEF Unlink
<1>19. ASSUME NEW d \in Folders, NEW id \in Ids, Show(d, id)
       PROVE  RowsPlaced' /\ TargetPlaced'
    BY <1>14, <1>19 DEF Show, memory
<1>20. CASE UNCHANGED vars
    BY <1>14, <1>20 DEF vars, memory
<1> QED
    BY <1>1, <1>2, <1>3, <1>4, <1>5, <1>13, <1>15, <1>16, <1>17, <1>18, <1>19, <1>20
    DEF Next

\* What the uploader and rename_pending have to go by is kept.
LEMMA WorkingStep ==
    ASSUME ShapeInv, [Next]_vars
    PROVE  Working'
<1> DEFINE Renaming == rename # NoRename =>
              rename.pid \in PendingIds /\ rename.row \in Rows /\ rename.to \in Places
           Uploads ==
              /\ uploader.phase = "idle" => uploader = Resting
              /\ uploader.phase # "idle" => uploader.pid \in PendingIds
              /\ uploader.phase \in {"finalize", "replace"} => uploader.newId \in SpareIds
<1>0. /\ Typed /\ Working /\ Renaming /\ Uploads
      /\ Resting.phase = "idle" /\ row \in [Ids -> Rows \cup {NoRow}]
      /\ PendingIds \subseteq Ids
    BY Kinds, RestingState DEF ShapeInv, Working, Typed
<1>1. ASSUME rename' = rename \/ rename' = NoRename, Uploads'
      PROVE  Working'
    BY <1>0, <1>1 DEF Working
<1>2. ASSUME rename' = rename \/ rename' = NoRename, uploader' = uploader
      PROVE  Working'
    BY <1>0, <1>1, <1>2
<1>3. ASSUME NEW d \in Folders, NEW name \in RawNames, NEW pid \in PendingIds,
             Create(pid, d, name)
      PROVE  Working'
    BY <1>2, <1>3 DEF Create
<1>4. ASSUME NEW d \in Folders, NEW name \in RawNames, NEW pid \in PendingIds,
             RenamePending(pid, d, name)
      PROVE  Working'
    <2>1. /\ rename' = IF row[pid] = NoRow THEN NoRename
                       ELSE [pid |-> pid, row |-> row[pid], to |-> Place(name, d)]
          /\ UNCHANGED uploader
        BY <1>4 DEF RenamePending
    <2>2. row[pid] # NoRow => row[pid] \in Rows /\ Place(name, d) \in Places
        BY <1>0 DEF Place, Places
    <2>3. Renaming'
        BY <2>1, <2>2
    <2> QED
        BY <1>0, <2>1, <2>3 DEF Working
<1>5. ASSUME NEW pid \in PendingIds, Release(pid)
      PROVE  Working'
    BY <1>2, <1>5 DEF Release
<1>6. CASE StoreRenamed
    BY <1>2, <1>6 DEF StoreRenamed
<1>7. ASSUME NEW id \in DriveIds, Follow(id) \/ FollowRemoval(id)
      PROVE  Working'
    BY <1>2, <1>7 DEF Follow, FollowRemoval
<1>8. ASSUME NEW pid \in PendingIds, Pick(pid)
      PROVE  Working'
    <2>1. /\ UNCHANGED rename
          /\ uploader' = [phase |-> "settle", pid |-> pid, newId |-> NoId,
                          to |-> Place(row[pid].name, row[pid].parent)]
        BY <1>8 DEF Pick
    <2>2. uploader'.phase = "settle" /\ uploader'.pid = pid
        BY <2>1
    <2> QED
        BY <1>1, <2>1, <2>2
<1>9. ASSUME NEW phase \in {"send", "finalize", "replace", "abandon", "forget"},
             NEW to, NEW newId,
             uploader' = Stage(phase, to, newId), uploader.phase # "idle",
             phase \in {"finalize", "replace"} => newId \in SpareIds,
             UNCHANGED rename
      PROVE  Working'
    <2>1. /\ uploader'.phase = phase /\ uploader'.pid = uploader.pid
          /\ uploader'.newId = newId
        BY <1>9 DEF Stage
    <2>2. Uploads'
        BY <1>0, <1>9, <2>1
    <2> QED
        BY <1>1, <1>9, <2>2
<1>10. ASSUME uploader' = Resting, UNCHANGED rename \/ rename' = NoRename
       PROVE  Working'
    BY <1>0, <1>1, <1>10
<1>11. CASE Reread
    <2>1. /\ uploader.phase = "settle" /\ UNCHANGED rename
          /\ \E to : uploader' = Stage("send", to, NoId)
        BY <1>11 DEF Reread
    <2> QED
        BY <1>9, <2>1
<1>12. ASSUME NEW new \in SpareIds, CreateFile(new)
       PROVE  Working'
    <2>1. /\ uploader.phase = "send" /\ UNCHANGED rename
          /\ uploader' = Stage("finalize", uploader.to, new) \/ uploader' = Resting
        BY <1>12 DEF CreateFile
    <2> QED
        BY <1>9, <1>10, <2>1
<1>13. CASE SendFails
    <2>1. /\ uploader.phase = "send" /\ UNCHANGED rename
          /\ uploader' = Stage("abandon", uploader.to, NoId) \/ uploader' = Resting
        BY <1>13 DEF SendFails
    <2> QED
        BY <1>9, <1>10, <2>1
<1>14. CASE Finalize
    <2>1. /\ uploader.phase = "finalize" /\ UNCHANGED rename
          /\ uploader' = Stage("replace", uploader.to, uploader.newId)
        BY <1>14 DEF Finalize
    <2> QED
        BY <1>0, <1>9, <2>1
<1>15. CASE Abandon
    <2>1. /\ uploader.phase = "abandon" /\ UNCHANGED rename
          /\ uploader' = Stage("forget", uploader.to, NoId)
        BY <1>15 DEF Abandon
    <2> QED
        BY <1>9, <2>1
<1>16. CASE UploaderStep
    BY <1>8, <1>10, <1>11, <1>12, <1>13, <1>14, <1>15, <1>16
    DEF UploaderStep, Replace, Forget
<1>17. CASE Remount
    BY <1>10, <1>17 DEF Remount
<1>18. CASE FetchStep \/ UNCHANGED vars
    BY <1>2, <1>18 DEF FetchStep, Ask, NumberListed, Merge, Install, vars
<1>19. ASSUME NEW d \in Folders, NEW id \in Ids, Show(d, id)
       PROVE  Working'
    BY <1>2, <1>19 DEF Show
<1>20. ASSUME NEW id \in DriveIds,
              \/ Unlink(id)
              \/ \E d \in Folders, name \in RawNames :
                    RenameFile(id, d, name) \/ MoveElsewhere(id, d, name)
       PROVE  Working'
    BY <1>2, <1>20 DEF Unlink, RenameFile, MoveElsewhere
<1> QED
    BY <1>3, <1>4, <1>5, <1>6, <1>7, <1>16, <1>17, <1>18, <1>19, <1>20 DEF Next

\* The shape of the state is inductive, with every disturbance on.
LEMMA ShapeStep == ShapeInv /\ [Next]_vars => ShapeInv'
BY TypedStep, TypedTooStep, PlacedStep, WorkingStep DEF ShapeInv

\* The types are inductive.
LEMMA TypeStep ==
    ASSUME TypeInv, RenamesWait, IdsFresh, [Next]_vars
    PROVE  TypeInv'
<1>1. IndInv' /\ HandedOut'
    BY StepInv, HandedOutStep DEF TypeInv
<1> QED
    BY <1>1, Shape, TypedTooStep, PlacedStep DEF TypeInv

\* The types hold at the start.
LEMMA TypeInit == ASSUME Init PROVE TypeInv
<1>1. IndInv
    BY InitInv
<1>2. listing \in [Folders -> Listings]
    BY DEF Init, Listings
<1>3. NoFetch \in Fetches
    <2>1. <<>> \in Seq(Entries)
        OBVIOUS
    <2> QED
        BY <2>1 DEF NoFetch, Fetches
<1>4. shown \in ShownTo
    BY DEF Init, ShownTo
<1>5. TypedToo
    BY <1>2, <1>3, <1>4, BoundsAssumption DEF Init, TypedToo, NoFetch
<1>6. RowsPlaced /\ TargetPlaced /\ HandedOut
    <2>1. \A id \in Ids : ~Stored(id)
        BY DEF Init, Stored
    <2> QED
        BY <2>1, Kinds DEF Init, RowsPlaced, TargetPlaced, HandedOut, Resting
<1> QED
    BY <1>1, <1>5, <1>6 DEF TypeInv

\* Every variable keeps its type, whatever disturbs the client: inodes, listings,
\* fetches, names, rows and the stages of the uploader.
THEOREM NamespaceTyped == Spec => []TypeOK
<1>1. ShapeInv => TypeOK
    <2>1. SUFFICES ASSUME ShapeInv PROVE TypeOK
        OBVIOUS
    <2>2. \A d \in Folders : listing[d] = NoListing \/ listing[d] \in Seq(Entries)
        BY <2>1 DEF ShapeInv, TypedToo, Listings
    <2>3. /\ fetch.phase \in {"idle", "asked", "merged"}
          /\ fetch.parent \in Folders \cup {NoFolder} /\ fetch.files \in Seq(Entries)
        BY <2>1 DEF ShapeInv, TypedToo, Fetches
    <2>4. rename.pid \in PendingIds \cup {NoId}
        BY <2>1 DEF ShapeInv, Typed, RenameStates
    <2>5. /\ uploader.phase \in {"idle", "settle", "send", "finalize", "replace",
                                 "abandon", "forget"}
          /\ uploader.pid \in PendingIds \cup {NoId}
          /\ uploader.to \in Places \cup {NoRow}
        BY <2>1 DEF ShapeInv, Typed, UploaderStates
    <2>6. shown \in [Ids -> ShownNames \cup {NoName}]
        BY <2>1 DEF ShapeInv, TypedToo, ShownTo
    <2> QED
        BY <2>1, <2>2, <2>3, <2>4, <2>5, <2>6 DEF TypeOK, ShapeInv, TypedToo, Typed
<1>2. ShapeInv /\ [Next]_vars => ShapeInv'
    BY ShapeStep
<1>3. Init => ShapeInv
    BY TypeInit, Shape
<1> QED
    BY <1>1, <1>2, <1>3, PTL DEF Spec

-----------------------------------------------------------------------------
(* Placeholders are listed where they are.                                  *)

\* Neither listings nor placeholders change.
LEMMA PlacesKept ==
    ASSUME ListInv, UNCHANGED <<listing, fetch, named, home, wanted>>,
           mounted \subseteq mounted'
    PROVE  ListingsPlaced' /\ FetchPlaced' /\ HomesKnown'
BY DEF ListInv, ListingsPlaced, FetchPlaced, HomesKnown, Placed

\* What is seen of new files is seen of them already, or is made.
LEMMA SeenKept ==
    ASSUME SeenMade, \A id \in SpareIds : Made(id) => Made(id)',
           \A id \in SpareIds :
              \/ id \in IdsOf(fetch'.files) \/ shown'[id] # NoName
              \/ \E d \in Folders : id \in Entered(d)'
              => \/ id \in IdsOf(fetch.files) \/ shown[id] # NoName
                 \/ \E d \in Folders : id \in Entered(d)
                 \/ Made(id)'
    PROVE  SeenMade'
BY DEF SeenMade

\* Only create_file makes files on Drive.
LEMMA MadeKept ==
    ASSUME UNCHANGED copies
    PROVE  \A id \in SpareIds : Made(id)' <=> Made(id)
BY DEF Made

\* A name is given to what is in a listing already.
LEMMA SeenNamed ==
    ASSUME TypeInv, ListInv, UNCHANGED <<fetch, copies>>, NEW x \in Folders, Resolves(x),
           \A e \in Folders, id \in SpareIds : id \in Entered(e)' => id \in Entered(e)
    PROVE  SeenMade'
<1>1. \A a \in Ids : (a \notin Entered(x) \/ shown[a] # NoName) => shown'[a] = shown[a]
    BY ResolveEffect DEF TypeInv
<1>2. \A id \in SpareIds : shown'[id] # NoName => shown[id] # NoName \/ id \in Entered(x)
    BY <1>1, Kinds
<1> QED
    BY <1>2, SeenKept, MadeKept DEF ListInv

\* A placeholder under upload is where the upload takes it, or nowhere.
LEMMA UploadHome ==
    ASSUME TypeInv, ListInv,
           uploader.phase \in {"send", "finalize", "replace", "abandon", "forget"}
    PROVE  /\ uploader.pid \in PendingIds /\ uploader.to \in Places
           /\ uploader.to.parent \in Folders
           /\ home[uploader.pid] \in {uploader.to.parent, NoFolder}
<1>1. uploader.pid \in PendingIds /\ uploader.to \in Places
    BY DEF TypeInv, TargetPlaced, IndInv, Arrivals, UploaderStage
<1>2. uploader.to = wanted[uploader.pid]
    BY DEF ListInv, UploadPlaced
<1>3. home[uploader.pid] # NoFolder => home[uploader.pid] = uploader.to.parent
    <2>1. SUFFICES ASSUME home[uploader.pid] # NoFolder
                   PROVE  home[uploader.pid] = uploader.to.parent
        OBVIOUS
    <2>2. wanted[uploader.pid] = Place(named[uploader.pid], home[uploader.pid])
        BY <1>1, <2>1 DEF ListInv, HomesKnown
    <2>3. uploader.to = [name |-> named[uploader.pid], parent |-> home[uploader.pid]]
        BY <1>2, <2>2 DEF Place
    <2> QED
        BY <2>3
<1> QED
    BY <1>1, <1>3 DEF Places

\* Where placeholders are is a folder, and listings that are there are placed.
LEMMA EnteredHome ==
    ASSUME ListInv, NEW d \in Folders, listing[d] # NoListing, NEW pid \in PendingIds
    PROVE  pid \in Entered(d) <=> home[pid] = d
BY DEF ListInv, ListingsPlaced, Placed, Entered

\* A new placeholder is in no listing yet, and goes to that of its folder.
LEMMA ListCreate ==
    ASSUME TypeInv, ListInv, FetchesWait,
           NEW d \in Folders, NEW name \in RawNames, NEW pid \in PendingIds,
           Create(pid, d, name)
    PROVE  ListInv'
<1>1. /\ pid \notin mounted /\ mounted' = mounted \cup {pid}
      /\ fetch.phase # "merged" \/ fetch.parent # d
      /\ named' = [named EXCEPT ![pid] = name]
      /\ home' = [home EXCEPT ![pid] = d]
      /\ wanted' = [wanted EXCEPT ![pid] = Place(name, d)]
      /\ uploader.pid # pid
      /\ UNCHANGED <<fetch, shown, uploader, copies>>
    BY DEF Create, Quiet, FetchesWait, TypeInv, HandedOut
<1>2. /\ named \in [PendingIds -> RawNames \cup {NoName}]
      /\ home \in [PendingIds -> Folders \cup {NoFolder}]
      /\ wanted \in [PendingIds -> Places \cup {NoRow}]
      /\ TypedToo /\ ListingsPlaced /\ FetchPlaced /\ HomesKnown /\ UploadPlaced /\ SeenMade
    BY DEF TypeInv, IndInv, Typed, ListInv
<1>3. /\ home'[pid] = d /\ named'[pid] = name /\ wanted'[pid] = Place(name, d)
      /\ \A p \in PendingIds \ {pid} :
            home'[p] = home[p] /\ named'[p] = named[p] /\ wanted'[p] = wanted[p]
    BY <1>1, <1>2
<1>4. home[pid] = NoFolder
    BY <1>1, <1>2 DEF HomesKnown
<1>5. /\ \A e \in Folders : listing'[e] # NoListing <=> listing[e] # NoListing
      /\ \A e \in Folders : Entered(e)' =
            IF e = d /\ listing[e] # NoListing THEN Entered(e) \cup {pid}
            ELSE Entered(e)
      /\ \A e \in Folders : Once(e) => Once(e)'
    BY CreateEffect, Shape
<1>6. ListingsPlaced'
    <2>1. SUFFICES ASSUME NEW e \in Folders, listing'[e] # NoListing
                   PROVE  Placed(listing[e], e)'
        BY DEF ListingsPlaced
    <2>2. listing[e] # NoListing /\ Once(e)
        BY <1>2, <1>5, <2>1 DEF ListingsPlaced, Placed, Once
    <2>3. OnceEach(listing'[e])
        BY <1>5, <2>1, <2>2 DEF Once
    <2>4. IdsOf(listing'[e]) = Entered(e)'
        BY <2>1 DEF Entered
    <2>5. ASSUME NEW p \in PendingIds
          PROVE  p \in Entered(e)' <=> home'[p] = e
        <3>1. p \in Entered(e) <=> home[p] = e
            BY <2>2, EnteredHome
        <3>2. CASE p = pid
            BY <1>3, <1>4, <1>5, <2>2, <3>1, <3>2, NamesAssumption
        <3>3. CASE p # pid
            BY <1>3, <1>5, <2>2, <3>1, <3>3
        <3> QED
            BY <3>2, <3>3
    <2> QED
        BY <2>3, <2>4, <2>5 DEF Placed
<1>7. FetchPlaced'
    <2>1. fetch'.phase = "merged" => Placed(fetch.files, fetch.parent)'
        <3>1. SUFFICES ASSUME fetch.phase = "merged"
                       PROVE  Placed(fetch.files, fetch.parent)'
            BY <1>1
        <3>2. fetch.parent \in Folders /\ fetch.parent # d /\ Placed(fetch.files, fetch.parent)
            BY <1>1, <1>2, <3>1 DEF TypedToo, FetchPlaced
        <3>3. \A p \in PendingIds : home'[p] = fetch.parent <=> home[p] = fetch.parent
            BY <1>3, <1>4, <3>2, NamesAssumption
        <3> QED
            BY <1>1, <3>2, <3>3 DEF Placed
    <2> QED
        BY <1>1, <1>2, <2>1 DEF FetchPlaced
<1>8. HomesKnown'
    <2>1. name # NoName
        BY NoNameAssumption DEF ShownNames
    <2> QED
        BY <1>1, <1>2, <1>3, <2>1 DEF HomesKnown
<1>9. \A e \in Folders, id \in SpareIds : id \in Entered(e)' <=> id \in Entered(e)
    BY <1>5, Kinds
<1>10. UploadPlaced'
    <2>1. uploader.phase \in {"send", "finalize", "replace", "abandon", "forget"} =>
             uploader.pid \in PendingIds \ {pid} /\ uploader.to.parent \in Folders
        BY <1>1, UploadHome
    <2>2. uploader.phase \in {"finalize", "replace"} => uploader.newId \in SpareIds
        BY DEF TypeInv, IndInv, Arrivals, UploaderStage
    <2> QED
        BY <1>1, <1>2, <1>3, <1>9, <2>1, <2>2 DEF UploadPlaced
<1>11. SeenMade'
    BY <1>1, <1>2, <1>9, SeenKept, MadeKept
<1> QED
    BY <1>6, <1>7, <1>8, <1>10, <1>11 DEF ListInv

\* A renamed placeholder leaves one listing and goes to the other.
LEMMA ListRenamePending ==
    ASSUME TypeInv, ListInv, RenamesWait, FetchesWait,
           NEW d \in Folders, NEW name \in RawNames, NEW pid \in PendingIds,
           RenamePending(pid, d, name)
    PROVE  ListInv'
<1>1. /\ fetch.phase # "merged" \/ (fetch.parent # d /\ fetch.parent # home[pid])
      /\ named' = [named EXCEPT ![pid] = name]
      /\ home' = [home EXCEPT ![pid] = d]
      /\ wanted' = [wanted EXCEPT ![pid] = Place(name, d)]
      /\ uploader.phase = "idle" \/ uploader.pid # pid
      /\ home[pid] # NoFolder
      /\ UNCHANGED <<fetch, uploader, mounted, copies>>
    BY DEF RenamePending, Quiet, FetchesWait, RenamesWait, Uploading
<1>2. /\ named \in [PendingIds -> RawNames \cup {NoName}]
      /\ home \in [PendingIds -> Folders \cup {NoFolder}]
      /\ wanted \in [PendingIds -> Places \cup {NoRow}]
      /\ TypedToo /\ ListingsPlaced /\ FetchPlaced /\ HomesKnown /\ UploadPlaced /\ SeenMade
    BY DEF TypeInv, IndInv, Typed, ListInv
<1>3. /\ home'[pid] = d /\ named'[pid] = name /\ wanted'[pid] = Place(name, d)
      /\ \A p \in PendingIds \ {pid} :
            home'[p] = home[p] /\ named'[p] = named[p] /\ wanted'[p] = wanted[p]
    BY <1>1, <1>2
<1>4. PICK from \in Folders : from = home[pid]
    BY <1>1, <1>2
<1>5. /\ \A e \in Folders : listing'[e] # NoListing <=> listing[e] # NoListing
      /\ \A e \in Folders : Entered(e)' =
            IF e = d /\ listing[e] # NoListing THEN Entered(e) \cup {pid}
            ELSE IF e = from THEN Entered(e) \ {pid} ELSE Entered(e)
      /\ \A e \in Folders :
            Once(e) /\ (e = d => e = from \/ pid \notin Entered(e)) => Once(e)'
    BY <1>4, RenamePendingEffect, Shape
<1>6. ListingsPlaced'
    <2>1. SUFFICES ASSUME NEW e \in Folders, listing'[e] # NoListing
                   PROVE  Placed(listing[e], e)'
        BY DEF ListingsPlaced
    <2>2. listing[e] # NoListing /\ Once(e)
        BY <1>2, <1>5, <2>1 DEF ListingsPlaced, Placed, Once
    <2>3. \A p \in PendingIds : p \in Entered(e) <=> home[p] = e
        BY <2>2, EnteredHome
    <2>4. OnceEach(listing'[e])
        BY <1>4, <1>5, <2>1, <2>2, <2>3 DEF Once
    <2>5. IdsOf(listing'[e]) = Entered(e)'
        BY <2>1 DEF Entered
    <2>6. ASSUME NEW p \in PendingIds
          PROVE  p \in Entered(e)' <=> home'[p] = e
        <3>1. CASE p = pid
            BY <1>3, <1>4, <1>5, <2>2, <2>3, <3>1
        <3>2. CASE p # pid
            BY <1>3, <1>5, <2>2, <2>3, <3>2
        <3> QED
            BY <3>1, <3>2
    <2> QED
        BY <2>4, <2>5, <2>6 DEF Placed
<1>7. FetchPlaced'
    <2>1. fetch'.phase = "merged" => Placed(fetch.files, fetch.parent)'
        <3>1. SUFFICES ASSUME fetch.phase = "merged"
                       PROVE  Placed(fetch.files, fetch.parent)'
            BY <1>1
        <3>2. /\ fetch.parent \in Folders /\ fetch.parent # d /\ fetch.parent # from
              /\ Placed(fetch.files, fetch.parent)
            BY <1>1, <1>2, <1>4, <3>1 DEF TypedToo, FetchPlaced
        <3>3. \A p \in PendingIds : home'[p] = fetch.parent <=> home[p] = fetch.parent
            BY <1>3, <1>4, <3>2
        <3> QED
            BY <1>1, <3>2, <3>3 DEF Placed
    <2> QED
        BY <1>1, <1>2, <2>1 DEF FetchPlaced
<1>8. HomesKnown'
    <2>1. name # NoName
        BY NoNameAssumption DEF ShownNames
    <2> QED
        BY <1>1, <1>2, <1>3, <2>1 DEF HomesKnown
<1>9. \A e \in Folders, id \in SpareIds : id \in Entered(e)' <=> id \in Entered(e)
    BY <1>5, Kinds
<1>10. UploadPlaced'
    <2>1. uploader.phase \in {"send", "finalize", "replace", "abandon", "forget"} =>
             uploader.pid \in PendingIds \ {pid} /\ uploader.to.parent \in Folders
        BY <1>1, UploadHome
    <2>2. uploader.phase \in {"finalize", "replace"} => uploader.newId \in SpareIds
        BY DEF TypeInv, IndInv, Arrivals, UploaderStage
    <2> QED
        BY <1>1, <1>2, <1>3, <1>9, <2>1, <2>2 DEF UploadPlaced
<1>11. SeenMade'
    <2>1. Resolves(from)
        BY <1>4, ResolvesWhereFound DEF TypeInv, IndInv
    <2> QED
        BY <1>1, <1>9, <2>1, SeenNamed
<1> QED
    BY <1>6, <1>7, <1>8, <1>10, <1>11 DEF ListInv

\* Listings are dropped, files move.
LEMMA ListDropped ==
    ASSUME TypeInv, ListInv, NEW S \in SUBSET Folders,
           listing' = [e \in Folders |-> IF e \in S THEN NoListing ELSE listing[e]],
           NEW x \in Folders, Resolves(x),
           UNCHANGED <<named, home, fetch, uploader, mounted, wanted, copies>>
    PROVE  ListInv'
<1>1. /\ \A e \in Folders : listing'[e] # NoListing =>
            listing'[e] = listing[e] /\ listing[e] # NoListing /\ e \notin S
      /\ \A e \in Folders : Entered(e)' = IF e \in S THEN {} ELSE Entered(e)
    BY DroppedEffect DEF TypeInv
<1>2. ListingsPlaced /\ FetchPlaced /\ HomesKnown /\ UploadPlaced /\ SeenMade
    BY DEF ListInv
<1>3. ListingsPlaced'
    BY <1>1, <1>2 DEF ListingsPlaced, Placed
<1>4. FetchPlaced' /\ HomesKnown'
    BY <1>2 DEF FetchPlaced, HomesKnown, Placed
<1>5. UploadPlaced'
    <2>1. uploader.phase \in {"finalize", "replace"} => uploader.to.parent \in Folders
        BY UploadHome
    <2> QED
        BY <1>1, <1>2, <2>1 DEF UploadPlaced
<1>6. SeenMade'
    BY <1>1, SeenNamed
<1> QED
    BY <1>3, <1>4, <1>5, <1>6 DEF ListInv

\* rename() of a file drops listings, unlink() too.
LEMMA ListRenameFile ==
    ASSUME TypeInv, ListInv,
           NEW d \in Folders, NEW name \in RawNames, NEW id \in DriveIds,
           RenameFile(id, d, name)
    PROVE  ListInv'
<1>1. /\ drive[id] # NoRow
      /\ UNCHANGED <<named, home, fetch, uploader, mounted, wanted, copies>>
    BY DEF RenameFile
<1>2. drive[id].parent \in Folders /\ Resolves(drive[id].parent)
    BY ResolvesWhereFound DEF TypeInv, IndInv
<1>3. listing' = [e \in Folders |->
                    IF e \in {drive[id].parent, d} THEN NoListing ELSE listing[e]]
    BY <1>2, RenameFileEffect DEF TypeInv
<1>4. {drive[id].parent, d} \in SUBSET Folders
    BY <1>2
<1> QED
    BY <1>1, <1>2, <1>3, <1>4, ListDropped

\* A file that is removed takes the listing of its folder along.
LEMMA ListUnlink ==
    ASSUME TypeInv, ListInv, NEW id \in DriveIds, Unlink(id)
    PROVE  ListInv'
<1>1. /\ drive[id] # NoRow
      /\ UNCHANGED <<named, home, fetch, uploader, mounted, wanted, copies>>
    BY DEF Unlink
<1>2. drive[id].parent \in Folders /\ Resolves(drive[id].parent)
    BY ResolvesWhereFound DEF TypeInv, IndInv
<1>3. listing' = [e \in Folders |->
                    IF e \in {drive[id].parent} THEN NoListing ELSE listing[e]]
    BY <1>2, UnlinkEffect DEF TypeInv
<1>4. {drive[id].parent} \in SUBSET Folders
    BY <1>2
<1> QED
    BY <1>1, <1>2, <1>3, <1>4, ListDropped

\* Names do not move anything.
LEMMA ListShow ==
    ASSUME TypeInv, ListInv, NEW d \in Folders, NEW id \in Ids, Show(d, id)
    PROVE  ListInv'
<1>1. UNCHANGED <<listing, fetch, named, home, wanted, mounted, uploader, copies>>
    BY DEF Show, memory
<1>2. Resolves(d)
    BY ResolvesWhereFound DEF TypeInv, IndInv
<1>3. ListingsPlaced' /\ FetchPlaced' /\ HomesKnown'
    BY <1>1, PlacesKept
<1>4. \A e \in Folders : Entered(e)' = Entered(e)
    BY <1>1 DEF Entered
<1>5. UploadPlaced'
    <2>1. uploader.phase \in {"finalize", "replace"} => uploader.to.parent \in Folders
        BY UploadHome
    <2> QED
        BY <1>1, <1>4, <2>1 DEF UploadPlaced, ListInv
<1>6. SeenMade'
    BY <1>1, <1>2, <1>4, SeenNamed
<1> QED
    BY <1>3, <1>5, <1>6 DEF ListInv

\* A fetch that begins sees no file that is just arriving.
LEMMA ListAsk ==
    ASSUME TypeInv, ListInv, FetchesWait, NEW d \in Folders, Ask(d)
    PROVE  ListInv'
<1>1. /\ ~Arriving(d)
      /\ UNCHANGED <<listing, named, home, shown, wanted, mounted, uploader, copies>>
    BY DEF Ask, FetchesWait, memory
<1>2. /\ fetch'.phase = "asked" /\ fetch'.parent = d
      /\ OnceEach(fetch'.files)
      /\ IdsOf(fetch'.files) =
            {id \in DriveIds : drive[id] # NoRow /\ drive[id].parent = d}
    BY AskEffect, Shape
<1>3. ListingsPlaced /\ FetchPlaced /\ HomesKnown /\ UploadPlaced /\ SeenMade
    BY DEF ListInv
<1>4. \A e \in Folders : Entered(e)' = Entered(e)
    BY <1>1 DEF Entered
<1>5. ListingsPlaced' /\ HomesKnown'
    BY <1>1, <1>3 DEF ListingsPlaced, HomesKnown, Placed
<1>6. FetchPlaced'
    BY <1>2 DEF FetchPlaced
<1>7. UploadPlaced'
    <2>1. uploader.phase \in {"finalize", "replace"} =>
             uploader.to.parent \in Folders /\ uploader.to.parent # d
        BY <1>1, UploadHome DEF Arriving
    <2> QED
        BY <1>1, <1>2, <1>3, <1>4, <2>1 DEF UploadPlaced
<1>8. SeenMade'
    <2>1. \A id \in SpareIds : id \in IdsOf(fetch'.files) => Made(id)
        BY <1>2 DEF TypeInv, IndInv, Arrivals, CreatedOnes
    <2> QED
        BY <1>1, <1>3, <1>4, <2>1, SeenKept, MadeKept
<1> QED
    BY <1>5, <1>6, <1>7, <1>8 DEF ListInv

\* The answer gets the placeholders of the folder, those and no others.
LEMMA ListMerge ==
    ASSUME TypeInv, ListInv, Merge
    PROVE  ListInv'
<1>1. UNCHANGED <<listing, named, home, shown, wanted, mounted, uploader, copies>>
    BY DEF Merge, memory
<1>2. PICK d \in Folders : d = fetch.parent
    BY MergeEffect, Shape
<1>3. /\ fetch.phase = "asked"
      /\ fetch'.phase = "merged" /\ fetch'.parent = d
      /\ OnceEach(fetch.files) => OnceEach(fetch'.files)
      /\ IdsOf(fetch'.files) =
            IdsOf(fetch.files) \cup (Entered(d) \cap PendingIds) \cup
            {pid \in PendingIds : home[pid] = d /\ named[pid] # NoName}
    BY <1>2, MergeEffect, Shape
<1>4. ListingsPlaced /\ FetchPlaced /\ HomesKnown /\ UploadPlaced /\ SeenMade
    BY DEF ListInv
<1>5. \A e \in Folders : Entered(e)' = Entered(e)
    BY <1>1 DEF Entered
<1>6. ListingsPlaced' /\ HomesKnown'
    BY <1>1, <1>4 DEF ListingsPlaced, HomesKnown, Placed
<1>7. FetchPlaced'
    <2>1. OnceEach(fetch.files) /\ IdsOf(fetch.files) \subseteq DriveIds
        BY <1>3, <1>4 DEF FetchPlaced
    <2>2. ASSUME NEW pid \in PendingIds
          PROVE  pid \in IdsOf(fetch'.files) <=> home'[pid] = d
        <3>1. pid \notin IdsOf(fetch.files)
            BY <2>1, Kinds
        <3>2. home[pid] = d => named[pid] # NoName
            BY <1>4, NamesAssumption DEF HomesKnown
        <3>3. pid \in Entered(d) => home[pid] = d
            BY <1>4 DEF Entered, ListingsPlaced, Placed
        <3> QED
            BY <1>1, <1>3, <3>1, <3>2, <3>3
    <2> QED
        BY <1>3, <2>1, <2>2 DEF FetchPlaced, Placed
<1>8. UploadPlaced'
    <2>1. uploader.phase \in {"finalize", "replace"} => uploader.to.parent \in Folders
        BY UploadHome
    <2> QED
        BY <1>1, <1>2, <1>3, <1>4, <1>5, <2>1 DEF UploadPlaced
<1>9. SeenMade'
    <2>1. \A id \in SpareIds : id \in IdsOf(fetch'.files) => id \in IdsOf(fetch.files)
        BY <1>3, Kinds
    <2> QED
        BY <1>1, <1>4, <1>5, <2>1, SeenKept, MadeKept
<1> QED
    BY <1>6, <1>7, <1>8, <1>9 DEF ListInv

\* A listing that takes the place of another has the same placeholders.
LEMMA ListInstall ==
    ASSUME TypeInv, ListInv, Install
    PROVE  ListInv'
<1>1. UNCHANGED <<named, home, shown, wanted, mounted, uploader, copies>>
    BY DEF Install
<1>2. PICK d \in Folders : d = fetch.parent
    BY InstallEffect DEF TypeInv
<1>3. /\ fetch.phase = "merged" /\ fetch' = NoFetch
      /\ \A e \in Folders :
            listing'[e] = IF e = d THEN fetch.files ELSE listing[e]
      /\ \A e \in Folders :
            Entered(e)' = IF e = d THEN IdsOf(fetch.files) ELSE Entered(e)
    BY <1>2, InstallEffect DEF TypeInv
<1>4. ListingsPlaced /\ FetchPlaced /\ HomesKnown /\ UploadPlaced /\ SeenMade
    BY DEF ListInv
<1>5. ListingsPlaced'
    <2>1. Placed(fetch.files, d)
        BY <1>2, <1>3, <1>4 DEF FetchPlaced
    <2> QED
        BY <1>1, <1>3, <1>4, <2>1 DEF ListingsPlaced, Placed
<1>6. HomesKnown'
    BY <1>1, <1>4 DEF HomesKnown
<1>7. FetchPlaced'
    BY <1>3 DEF FetchPlaced, NoFetch
<1>8. UploadPlaced'
    <2>1. uploader.phase \in {"finalize", "replace"} =>
             uploader.to.parent \in Folders /\ fetch'.parent # uploader.to.parent
        BY <1>3, UploadHome, NamesAssumption DEF NoFetch
    <2> QED
        BY <1>1, <1>2, <1>3, <1>4, <2>1 DEF UploadPlaced
<1>9. SeenMade'
    <2>1. IdsOf(fetch'.files) = {}
        BY <1>3 DEF NoFetch, IdsOf
    <2> QED
        BY <1>1, <1>3, <1>4, <2>1, SeenKept, MadeKept
<1> QED
    BY <1>5, <1>6, <1>7, <1>8, <1>9 DEF ListInv

\* The file that Drive creates is in no listing yet.
LEMMA ListCreateFile ==
    ASSUME TypeInv, ListInv, FetchesWait, NEW new \in SpareIds, CreateFile(new)
    PROVE  ListInv'
<1>1. /\ uploader.phase = "send"
      /\ \A pid \in PendingIds : new \notin copies[pid]
      /\ fetch.parent # uploader.to.parent
      /\ copies' = [copies EXCEPT ![uploader.pid] = @ \cup {new}]
      /\ uploader' \in {Stage("finalize", uploader.to, new), Resting}
      /\ UNCHANGED <<listing, fetch, named, home, shown, mounted, wanted>>
    BY DEF CreateFile, NoFetchUnderWay, FetchesWait, memory
<1>2. PICK pid \in PendingIds : pid = uploader.pid
    BY <1>1, UploadHome
<1>3. copies \in [PendingIds -> SUBSET DriveIds]
    BY DEF TypeInv, IndInv, Typed
<1>4. ListingsPlaced' /\ FetchPlaced' /\ HomesKnown'
    BY <1>1, PlacesKept
<1>5. \A e \in Folders : Entered(e)' = Entered(e)
    BY <1>1 DEF Entered
<1>6. ~Made(new)
    BY <1>1 DEF Made
<1>7. UploadPlaced'
    <2>1. CASE uploader' = Resting
        BY <2>1 DEF UploadPlaced, Resting
    <2>2. CASE uploader' = Stage("finalize", uploader.to, new)
        <3>1. /\ uploader'.pid = uploader.pid /\ uploader'.to = uploader.to
              /\ uploader'.newId = new
            BY <2>2 DEF Stage
        <3>2. uploader.to = wanted[uploader.pid] /\ uploader.to.parent \in Folders
            BY <1>1, UploadHome DEF ListInv, UploadPlaced
        <3>3. new \notin Entered(uploader.to.parent)
            BY <1>6, <3>2 DEF ListInv, SeenMade
        <3> QED
            BY <1>1, <1>5, <3>1, <3>2, <3>3 DEF UploadPlaced
    <2> QED
        BY <1>1, <2>1, <2>2
<1>8. SeenMade'
    <2>1. \A p \in PendingIds : copies[p] \subseteq copies'[p]
        BY <1>1, <1>2, <1>3
    <2>2. \A id \in SpareIds : Made(id) => Made(id)'
        BY <2>1 DEF Made
    <2> QED
        BY <1>1, <1>5, <2>2, SeenKept DEF ListInv
<1> QED
    BY <1>4, <1>7, <1>8 DEF ListInv

\* What both ends of an upload do to the placeholder.
LEMMA GivenUp ==
    ASSUME TypeInv, ListInv, NEW pid \in PendingIds, pid = uploader.pid,
           home' = [home EXCEPT ![pid] = NoFolder],
           named' = [named EXCEPT ![pid] = NoName],
           \A p \in PendingIds \ {pid} : wanted'[p] = wanted[p],
           UNCHANGED <<fetch, mounted>>,
           fetch.phase = "merged" => home[pid] # fetch.parent
    PROVE  /\ home'[pid] = NoFolder /\ \A p \in PendingIds \ {pid} : home'[p] = home[p]
           /\ FetchPlaced' /\ HomesKnown'
<1>1. /\ home \in [PendingIds -> Folders \cup {NoFolder}]
      /\ named \in [PendingIds -> RawNames \cup {NoName}]
      /\ FetchPlaced /\ HomesKnown /\ TypedToo
    BY DEF TypeInv, ListInv, IndInv, Typed
<1>2. /\ home'[pid] = NoFolder /\ \A p \in PendingIds \ {pid} : home'[p] = home[p]
      /\ \A p \in PendingIds \ {pid} : named'[p] = named[p]
    BY <1>1
<1>3. HomesKnown'
    BY <1>1, <1>2 DEF HomesKnown
<1>4. fetch.phase = "merged" => Placed(fetch.files, fetch.parent)'
    <2>1. SUFFICES ASSUME fetch.phase = "merged"
                   PROVE  Placed(fetch.files, fetch.parent)'
        OBVIOUS
    <2>2. fetch.parent # NoFolder /\ Placed(fetch.files, fetch.parent)
        BY <1>1, <2>1, NamesAssumption DEF FetchPlaced, TypedToo
    <2> QED
        BY <1>2, <2>1, <2>2 DEF Placed
<1>5. FetchPlaced'
    BY <1>1, <1>4 DEF FetchPlaced
<1> QED
    BY <1>2, <1>3, <1>5

\* The placeholder goes, the file is there instead.
LEMMA ListReplace ==
    ASSUME TypeInv, ListInv, FetchesWait, Replace
    PROVE  ListInv'
<1>1. /\ uploader.phase = "replace"
      /\ fetch.phase # "merged" \/ fetch.parent # uploader.to.parent
      /\ home' = [home EXCEPT ![uploader.pid] = NoFolder]
      /\ named' = [named EXCEPT ![uploader.pid] = NoName]
      /\ uploader' = Resting
      /\ UNCHANGED <<fetch, shown, mounted, wanted, copies>>
    BY DEF Replace, Quiet, FetchesWait
<1>2. /\ uploader.pid \in PendingIds /\ uploader.to.parent \in Folders
      /\ home[uploader.pid] \in {uploader.to.parent, NoFolder}
      /\ uploader.newId \in SpareIds /\ uploader.newId \in copies[uploader.pid]
      /\ uploader.newId \notin Entered(uploader.to.parent)
    <2>1. uploader.newId \in SpareIds /\ uploader.newId \in copies[uploader.pid]
        BY <1>1 DEF TypeInv, IndInv, Arrivals, UploaderStage
    <2>2. uploader.newId \notin Entered(uploader.to.parent)
        BY <1>1 DEF ListInv, UploadPlaced
    <2> QED
        BY <1>1, <2>1, <2>2, UploadHome
<1>3. PICK old \in PendingIds, new \in SpareIds, d \in Folders :
         old = uploader.pid /\ new = uploader.newId /\ d = uploader.to.parent
    BY <1>2
<1>4. /\ \A e \in Folders : listing'[e] # NoListing <=> listing[e] # NoListing
      /\ \A e \in Folders \ {d} :
            listing'[e] = listing[e] /\ Entered(e)' = Entered(e)
      /\ listing[d] # NoListing /\ new \notin Entered(d) /\ Once(d) =>
            /\ Entered(d)' = (Entered(d) \ {old}) \cup {new}
            /\ OnceEach(listing'[d])
    BY <1>3, ReplaceEffect, Shape
<1>5. fetch.phase = "merged" => home[old] # fetch.parent
    BY <1>1, <1>2, <1>3, NamesAssumption DEF TypeInv, TypedToo
<1>6. /\ home'[old] = NoFolder /\ \A p \in PendingIds \ {old} : home'[p] = home[p]
      /\ FetchPlaced' /\ HomesKnown'
    BY <1>1, <1>3, <1>5, GivenUp
<1>7. \A e \in Folders : listing[e] # NoListing => Once(e)
    BY DEF ListInv, ListingsPlaced, Placed, Once
<1>8. ListingsPlaced'
    <2>1. SUFFICES ASSUME NEW e \in Folders, listing'[e] # NoListing
                   PROVE  Placed(listing[e], e)'
        BY DEF ListingsPlaced
    <2>2. listing[e] # NoListing /\ Once(e)
        BY <1>4, <1>7, <2>1
    <2>3. \A p \in PendingIds : p \in Entered(e) <=> home[p] = e
        BY <2>2, EnteredHome
    <2>4. IdsOf(listing'[e]) = Entered(e)'
        BY <2>1 DEF Entered
    <2>5. new \notin PendingIds /\ e # NoFolder
        BY Kinds, NamesAssumption
    <2>6. CASE e = d
        <3>1. Entered(e)' = (Entered(e) \ {old}) \cup {new} /\ OnceEach(listing'[e])
            BY <1>2, <1>3, <1>4, <2>2, <2>6
        <3>2. \A p \in PendingIds : p \in Entered(e)' <=> home'[p] = e
            BY <1>6, <2>3, <2>5, <3>1
        <3> QED
            BY <2>4, <3>1, <3>2 DEF Placed
    <2>7. CASE e # d
        <3>1. listing'[e] = listing[e] /\ Entered(e)' = Entered(e) /\ OnceEach(listing'[e])
            BY <1>4, <2>2, <2>7 DEF Once
        <3>2. old \notin Entered(e)
            BY <1>2, <1>3, <2>3, <2>5, <2>7
        <3>3. \A p \in PendingIds : p \in Entered(e)' <=> home'[p] = e
            BY <1>6, <2>3, <2>5, <3>1, <3>2
        <3> QED
            BY <2>4, <3>1, <3>3 DEF Placed
    <2> QED
        BY <2>6, <2>7
<1>9. UploadPlaced'
    BY <1>1 DEF UploadPlaced, Resting
<1>10. SeenMade'
    <2>1. Made(new)'
        BY <1>1, <1>2, <1>3 DEF Made
    <2>2. \A e \in Folders, id \in SpareIds :
             id \in Entered(e)' => id \in Entered(e) \/ Made(id)'
        <3>1. SUFFICES ASSUME NEW e \in Folders, NEW id \in SpareIds, id \in Entered(e)'
                       PROVE  id \in Entered(e) \/ Made(id)'
            OBVIOUS
        <3>2. listing[e] # NoListing /\ Once(e)
            BY <1>4, <1>7, <3>1 DEF Entered
        <3>3. CASE e # d
            BY <1>4, <3>1, <3>3
        <3>4. CASE e = d
            <4>1. Entered(e)' = (Entered(e) \ {old}) \cup {new}
                BY <1>2, <1>3, <1>4, <3>2, <3>4
            <4> QED
                BY <2>1, <3>1, <4>1
        <3> QED
            BY <3>3, <3>4
    <2> QED
        BY <1>1, <2>2, SeenKept, MadeKept DEF ListInv
<1> QED
    BY <1>6, <1>8, <1>9, <1>10 DEF ListInv

\* The placeholder of an upload that is given up goes.
LEMMA ListForget ==
    ASSUME TypeInv, ListInv, FetchesWait, Forget
    PROVE  ListInv'
<1>1. /\ uploader.phase = "forget"
      /\ fetch.phase # "merged" \/ fetch.parent # uploader.to.parent
      /\ home' = [home EXCEPT ![uploader.pid] = NoFolder]
      /\ named' = [named EXCEPT ![uploader.pid] = NoName]
      /\ wanted' = [wanted EXCEPT ![uploader.pid] =
                       IF uploader.pid \in opened THEN @ ELSE NoRow]
      /\ uploader' = Resting
      /\ UNCHANGED <<fetch, shown, mounted, copies>>
    BY DEF Forget, Quiet, FetchesWait
<1>2. /\ uploader.pid \in PendingIds /\ uploader.to.parent \in Folders
      /\ home[uploader.pid] \in {uploader.to.parent, NoFolder}
    BY <1>1, UploadHome
<1>3. PICK pid \in PendingIds, d \in Folders :
         pid = uploader.pid /\ d = uploader.to.parent
    BY <1>2
<1>4. /\ \A e \in Folders : listing'[e] # NoListing <=> listing[e] # NoListing
      /\ \A e \in Folders :
            Entered(e)' = IF e = d THEN Entered(e) \ {pid} ELSE Entered(e)
      /\ \A e \in Folders : Once(e) => Once(e)'
    BY <1>3, ForgetEffect, Shape
<1>5. fetch.phase = "merged" => home[pid] # fetch.parent
    BY <1>1, <1>2, <1>3, NamesAssumption DEF TypeInv, TypedToo
<1>6. \A p \in PendingIds \ {pid} : wanted'[p] = wanted[p]
    BY <1>1, <1>3 DEF TypeInv, IndInv, Typed
<1>7. /\ home'[pid] = NoFolder /\ \A p \in PendingIds \ {pid} : home'[p] = home[p]
      /\ FetchPlaced' /\ HomesKnown'
    BY <1>1, <1>3, <1>5, <1>6, GivenUp
<1>8. ListingsPlaced'
    <2>1. SUFFICES ASSUME NEW e \in Folders, listing'[e] # NoListing
                   PROVE  Placed(listing[e], e)'
        BY DEF ListingsPlaced
    <2>2. listing[e] # NoListing
        BY <1>4, <2>1
    <2>3. \A p \in PendingIds : p \in Entered(e) <=> home[p] = e
        BY <2>2, EnteredHome
    <2>4. IdsOf(listing'[e]) = Entered(e)'
        BY <2>1 DEF Entered
    <2>5. OnceEach(listing'[e])
        <3>1. Once(e)
            BY DEF ListInv, ListingsPlaced, Placed, Once
        <3> QED
            BY <1>4, <2>1, <3>1 DEF Once
    <2>6. \A p \in PendingIds : p \in Entered(e)' <=> home'[p] = e
        BY <1>2, <1>3, <1>4, <1>7, <2>3, NamesAssumption
    <2> QED
        BY <2>4, <2>5, <2>6 DEF Placed
<1>9. UploadPlaced'
    BY <1>1 DEF UploadPlaced, Resting
<1>10. SeenMade'
    BY <1>1, <1>4, SeenKept, MadeKept DEF ListInv
<1> QED
    BY <1>7, <1>8, <1>9, <1>10 DEF ListInv

\* After a restart there are no listings, and no folders of placeholders.
LEMMA ListRemount ==
    ASSUME ListInv, Remount
    PROVE  ListInv'
<1>1. /\ listing' = [d \in Folders |-> NoListing] /\ fetch' = NoFetch
      /\ home' = [pid \in PendingIds |-> NoFolder] /\ uploader' = Resting
      /\ UNCHANGED <<shown, copies>>
    BY DEF Remount
<1>2. \A d \in Folders : listing'[d] = NoListing /\ Entered(d)' = {}
    BY <1>1 DEF Entered
<1>3. ListingsPlaced' /\ FetchPlaced'
    BY <1>1, <1>2 DEF ListingsPlaced, FetchPlaced, NoFetch
<1>4. HomesKnown' /\ UploadPlaced'
    BY <1>1 DEF HomesKnown, UploadPlaced, Resting
<1>5. SeenMade'
    <2>1. IdsOf(fetch'.files) = {}
        BY <1>1 DEF NoFetch, IdsOf
    <2> QED
        BY <1>1, <1>2, <2>1, SeenKept, MadeKept DEF ListInv
<1> QED
    BY <1>3, <1>4, <1>5 DEF ListInv

\* The steps that touch no listing leave the placeholders where they are.
LEMMA ListAside ==
    ASSUME TypeInv, ListInv, TypeInv', Aside
    PROVE  ListInv'
<1>1. UNCHANGED <<named, home, listing, fetch, shown, mounted, wanted, copies>>
    BY AsideKeeps
<1>2. ListingsPlaced' /\ FetchPlaced' /\ HomesKnown'
    BY <1>1, PlacesKept
<1>3. \A e \in Folders : Entered(e)' = Entered(e)
    BY <1>1 DEF Entered
<1>4. UploadPlaced'
    <2>1. CASE uploader' = uploader
        <3>1. uploader.phase \in {"finalize", "replace"} => uploader.to.parent \in Folders
            BY UploadHome
        <3> QED
            BY <1>1, <1>3, <2>1, <3>1 DEF UploadPlaced, ListInv
    <2>2. CASE uploader'.phase \in {"idle", "settle"}
        BY <2>2 DEF UploadPlaced
    <2>3. CASE uploader'.phase = "send"
        BY <2>3 DEF UploadPlaced, TypeInv, IndInv, Arrivals, UploaderStage
    <2>4. CASE /\ uploader.phase \in {"send", "abandon"}
               /\ uploader'.phase \in {"abandon", "forget"}
               /\ uploader'.to = uploader.to /\ uploader'.pid = uploader.pid
        BY <1>1, <2>4 DEF UploadPlaced, ListInv
    <2>5. CASE /\ uploader.phase = "finalize" /\ uploader'.phase = "replace"
               /\ uploader'.to = uploader.to /\ uploader'.pid = uploader.pid
               /\ uploader'.newId = uploader.newId
        <3>1. uploader.to.parent \in Folders
            BY <2>5, UploadHome
        <3> QED
            BY <1>1, <1>3, <2>5, <3>1 DEF UploadPlaced, ListInv
    <2>6. CASE \E pid \in PendingIds : Release(pid) \/ Pick(pid)
        BY <2>1, <2>2, <2>6 DEF Release, Pick
    <2>7. CASE \E id \in DriveIds : Follow(id) \/ FollowRemoval(id) \/ NumberListed(id)
        BY <2>1, <2>7 DEF Follow, FollowRemoval, NumberListed
    <2>8. CASE StoreRenamed \/ UNCHANGED vars
        BY <2>1, <2>8 DEF StoreRenamed, vars
    <2>9. CASE Reread
        BY <2>3, <2>9 DEF Reread, Stage
    <2>10. CASE SendFails
        BY <2>2, <2>4, <2>10 DEF SendFails, Stage, Resting
    <2>11. CASE Finalize
        BY <2>5, <2>11 DEF Finalize, Stage
    <2>12. CASE Abandon
        BY <2>4, <2>12 DEF Abandon, Stage
    <2> QED
        BY <2>6, <2>7, <2>8, <2>9, <2>10, <2>11, <2>12 DEF Aside
<1>5. SeenMade'
    BY <1>1, <1>3, SeenKept, MadeKept DEF ListInv
<1> QED
    BY <1>2, <1>4, <1>5 DEF ListInv

\* What other clients do changes no listing.
LEMMA ListMoveElsewhere ==
    ASSUME TypeInv, ListInv,
           NEW d \in Folders, NEW name \in RawNames, NEW id \in DriveIds,
           MoveElsewhere(id, d, name)
    PROVE  ListInv'
<1>1. UNCHANGED <<named, home, listing, fetch, shown, mounted, wanted, uploader, copies>>
    BY DEF MoveElsewhere, memory
<1>2. ListingsPlaced' /\ FetchPlaced' /\ HomesKnown'
    BY <1>1, PlacesKept
<1>3. \A e \in Folders : Entered(e)' = Entered(e)
    BY <1>1 DEF Entered
<1>4. UploadPlaced'
    <2>1. uploader.phase \in {"finalize", "replace"} => uploader.to.parent \in Folders
        BY UploadHome
    <2> QED
        BY <1>1, <1>3, <2>1 DEF UploadPlaced, ListInv
<1>5. SeenMade'
    BY <1>1, <1>3, SeenKept, MadeKept DEF ListInv
<1> QED
    BY <1>2, <1>4, <1>5 DEF ListInv

\* The placeholders are listed where they are after every step.
LEMMA ListStep ==
    ASSUME TypeInv, ListInv, RenamesWait, FetchesWait, TypeInv', [Next]_vars
    PROVE  ListInv'
<1>1. CASE FetchStep
    <2>1. ASSUME NEW id \in DriveIds, NumberListed(id) PROVE ListInv'
        BY <2>1, ListAside DEF Aside
    <2> QED
        BY <1>1, <2>1, ListAsk, ListMerge, ListInstall DEF FetchStep
<1>2. CASE UploaderStep
    <2>1. CASE Reread \/ SendFails \/ Finalize \/ Abandon
        BY <2>1, ListAside DEF Aside
    <2>2. ASSUME NEW pid \in PendingIds, Pick(pid) PROVE ListInv'
        BY <2>2, ListAside DEF Aside
    <2> QED
        BY <1>2, <2>1, <2>2, ListCreateFile, ListReplace, ListForget DEF UploaderStep
<1>3. ASSUME NEW d \in Folders, NEW name \in RawNames, NEW pid \in PendingIds,
             Create(pid, d, name) \/ RenamePending(pid, d, name)
      PROVE  ListInv'
    BY <1>3, ListCreate, ListRenamePending
<1>4. ASSUME NEW d \in Folders, NEW name \in RawNames, NEW id \in DriveIds,
             RenameFile(id, d, name) \/ MoveElsewhere(id, d, name)
      PROVE  ListInv'
    BY <1>4, ListRenameFile, ListMoveElsewhere
<1>5. ASSUME NEW pid \in PendingIds, Release(pid) PROVE ListInv'
    BY <1>5, ListAside DEF Aside
<1>6. ASSUME NEW id \in DriveIds, Unlink(id) \/ Follow(id) \/ FollowRemoval(id)
      PROVE  ListInv'
    <2>1. CASE Unlink(id)
        BY <2>1, ListUnlink
    <2>2. CASE Follow(id) \/ FollowRemoval(id)
        BY <2>2, ListAside DEF Aside
    <2> QED
        BY <1>6, <2>1, <2>2
<1>7. ASSUME NEW d \in Folders, NEW id \in Ids, Show(d, id) PROVE ListInv'
    BY <1>7, ListShow
<1>8. CASE StoreRenamed \/ UNCHANGED vars
    BY <1>8, ListAside DEF Aside
<1>9. CASE Remount
    BY <1>9, ListRemount
<1> QED
    BY <1>1, <1>2, <1>3, <1>4, <1>5, <1>6, <1>7, <1>8, <1>9 DEF Next

\* There are no listings at the start.
LEMMA ListInit == ASSUME Init PROVE ListInv
<1>1. /\ listing = [d \in Folders |-> NoListing] /\ fetch = NoFetch
      /\ home = [pid \in PendingIds |-> NoFolder] /\ uploader = Resting
      /\ shown = [id \in Ids |-> NoName]
    BY DEF Init
<1>2. \A d \in Folders : listing[d] = NoListing /\ Entered(d) = {}
    BY <1>1 DEF Entered
<1>3. ListingsPlaced /\ FetchPlaced /\ HomesKnown /\ UploadPlaced
    BY <1>1, <1>2 DEF ListingsPlaced, FetchPlaced, NoFetch, HomesKnown, UploadPlaced, Resting
<1>4. SeenMade
    <2>1. IdsOf(fetch.files) = {}
        BY <1>1 DEF NoFetch, IdsOf
    <2> QED
        BY <1>1, <1>2, <2>1, Kinds DEF SeenMade
<1> QED
    BY <1>3, <1>4 DEF ListInv

\* A placeholder is in the listing of its folder, once, and in no other:
\* whatever the user creates, renames or removes, whatever is uploaded, fails to
\* be or is given up, and whenever the file system starts anew, as long as no
\* listing is on its way while its folder gets or loses a file (FetchesWait), no
\* placeholder is renamed while it is uploaded (RenamesWait), and no placeholder
\* id is given out again (IdsFresh).
THEOREM PlaceholdersStayListed ==
    ASSUME RenamesWait, IdsFresh, FetchesWait
    PROVE  Spec => []PlaceholdersListed
<1>1. ASSUME TypeInv, ListInv
      PROVE  PlaceholdersListed
    <2>1. SUFFICES ASSUME NEW pid \in PendingIds, NEW d \in Folders, listing[d] # NoListing
                   PROVE  Cardinality(Positions(listing[d], pid)) =
                             IF home[pid] = d THEN 1 ELSE 0
        BY DEF PlaceholdersListed
    <2>2. OnceEach(listing[d]) /\ (pid \in IdsOf(listing[d]) <=> home[pid] = d)
        BY <1>1, <2>1 DEF ListInv, ListingsPlaced, Placed
    <2>3. CASE home[pid] = d
        <3>1. PICK i \in DOMAIN listing[d] : listing[d][i].id = pid
            BY <2>2, <2>3 DEF IdsOf
        <3>2. Positions(listing[d], pid) = {i}
            BY <2>2, <3>1 DEF Positions, OnceEach
        <3> QED
            BY <2>3, <3>2, FS_Singleton
    <2>4. CASE home[pid] # d
        <3>1. Positions(listing[d], pid) = {}
            BY <2>2, <2>4 DEF Positions, IdsOf
        <3> QED
            BY <2>4, <3>1, FS_EmptySet
    <2> QED
        BY <2>3, <2>4
<1>2. TypeInv /\ ListInv /\ [Next]_vars => TypeInv' /\ ListInv'
    BY TypeStep, ListStep
<1>3. Init => TypeInv /\ ListInv
    BY TypeInit, ListInit
<1> QED
    BY <1>1, <1>2, <1>3, PTL DEF Spec

-----------------------------------------------------------------------------
(* No name is shown twice, and no file vanishes.                            *)

\* A placeholder id gets a name or a copy only after it was given out.
LEMMA UnseenStep ==
    ASSUME TypeInv, ListInv, Unseen, IdsFresh, [Next]_vars
    PROVE  Unseen'
<1>1. ASSUME mounted \subseteq mounted', UNCHANGED <<shown, copies>>
      PROVE  Unseen'
    BY <1>1 DEF Unseen
<1>2. ASSUME UNCHANGED <<mounted, copies>>, NEW d \in Folders, Resolves(d)
      PROVE  Unseen'
    <2>1. SUFFICES ASSUME NEW pid \in PendingIds \ mounted
                   PROVE  shown'[pid] = NoName
        BY <1>2 DEF Unseen
    <2>2. /\ listing[d] # NoListing /\ pid \in Ids
          /\ pid \notin Entered(d) => shown'[pid] = shown[pid]
        BY <1>2, ResolveEffect, Kinds DEF TypeInv
    <2>3. pid \notin Entered(d)
        BY <2>2, EnteredHome, NamesAssumption DEF ListInv, HomesKnown
    <2> QED
        BY <2>2, <2>3 DEF Unseen
<1>3. CASE Aside
    BY <1>1, <1>3, AsideKeeps
<1>4. ASSUME NEW new \in SpareIds, CreateFile(new)
      PROVE  Unseen'
    <2>1. /\ uploader.phase = "send" /\ UNCHANGED <<shown, mounted>>
          /\ copies' = [copies EXCEPT ![uploader.pid] = @ \cup {new}]
        BY <1>4 DEF CreateFile
    <2>2. uploader.pid \in mounted
        BY <2>1, UploadHome DEF TypeInv, HandedOut
    <2>3. \A pid \in PendingIds \ mounted : copies'[pid] = copies[pid]
        BY <2>1, <2>2 DEF TypeInv, IndInv, Typed
    <2> QED
        BY <2>1, <2>3 DEF Unseen
<1>5. CASE UploaderStep
    <2>1. CASE Reread \/ SendFails \/ Finalize \/ Abandon
        BY <1>3, <2>1 DEF Aside
    <2>2. ASSUME NEW pid \in PendingIds, Pick(pid) PROVE Unseen'
        BY <1>3, <2>2 DEF Aside
    <2>3. CASE Replace \/ Forget
        BY <1>1, <2>3 DEF Replace, Forget
    <2> QED
        BY <1>4, <1>5, <2>1, <2>2, <2>3 DEF UploaderStep
<1>6. CASE FetchStep
    BY <1>1, <1>6 DEF FetchStep, Ask, NumberListed, Merge, Install
<1>7. ASSUME NEW d \in Folders, NEW name \in RawNames, NEW pid \in PendingIds,
             Create(pid, d, name) \/ RenamePending(pid, d, name)
      PROVE  Unseen'
    <2>1. CASE Create(pid, d, name)
        BY <1>1, <2>1 DEF Create
    <2>2. CASE RenamePending(pid, d, name)
        <3>1. home[pid] \in Folders /\ Resolves(home[pid])
            BY <2>2, ResolvesWhereFound DEF TypeInv, IndInv
        <3>2. UNCHANGED <<mounted, copies>>
            BY <2>2 DEF RenamePending
        <3> QED
            BY <1>2, <3>1, <3>2
    <2> QED
        BY <1>7, <2>1, <2>2
<1>8. ASSUME NEW id \in DriveIds,
             \/ Unlink(id)
             \/ \E d \in Folders, name \in RawNames : RenameFile(id, d, name)
      PROVE  Unseen'
    <2>1. drive[id].parent \in Folders /\ Resolves(drive[id].parent)
        BY <1>8, ResolvesWhereFound DEF TypeInv, IndInv
    <2>2. UNCHANGED <<mounted, copies>>
        BY <1>8 DEF Unlink, RenameFile
    <2> QED
        BY <1>2, <2>1, <2>2
<1>9. ASSUME NEW d \in Folders, NEW id \in Ids, Show(d, id)
      PROVE  Unseen'
    <2>1. Resolves(d)
        BY <1>9, ResolvesWhereFound DEF TypeInv, IndInv
    <2>2. UNCHANGED <<mounted, copies>>
        BY <1>9 DEF Show
    <2> QED
        BY <1>2, <2>1, <2>2
<1>10. ASSUME NEW d \in Folders, NEW name \in RawNames, NEW id \in DriveIds,
              MoveElsewhere(id, d, name)
       PROVE  Unseen'
    BY <1>1, <1>10 DEF MoveElsewhere
<1>11. CASE Remount
    BY <1>1, <1>11 DEF Remount, IdsFresh
<1>12. ASSUME NEW pid \in PendingIds, Release(pid) PROVE Unseen'
    BY <1>3, <1>12 DEF Aside
<1>13. ASSUME NEW id \in DriveIds, Follow(id) \/ FollowRemoval(id) PROVE Unseen'
    BY <1>3, <1>13 DEF Aside
<1>14. CASE StoreRenamed \/ UNCHANGED vars
    BY <1>3, <1>14 DEF Aside
<1> QED
    BY <1>5, <1>6, <1>7, <1>8, <1>9, <1>10, <1>11, <1>12, <1>13, <1>14 DEF Next

\* Every file stays in its folder, but for x, which is new in d or goes there: if it
\* has a name, no other file of d has it, and the listing of d has x.
LEMMA NamesMove ==
    ASSUME OneFolder, ShownEntered(shown'), DifferentNames(shown'), NEW x, NEW d,
           x \in Ids =>
              /\ \A e \in Folders : In(x, e)' => e = d
              /\ shown'[x] # NoName =>
                    /\ listing'[d] # NoListing => x \in Entered(d)'
                    /\ \A o \in Ids \ {x} : In(o, d)' => shown'[o] # shown'[x],
           \A id \in Ids \ {x}, e \in Folders : In(id, e)' => In(id, e),
           \A e \in Folders : listing'[e] # NoListing => listing[e] # NoListing,
           \A id \in Ids \ {x}, e \in Folders :
              In(id, e)' /\ listing'[e] # NoListing /\ id \in Entered(e) =>
                 id \in Entered(e)'
    PROVE  OneFolder' /\ ShownEntered(shown)' /\ DifferentNames(shown)'
<1>1. OneFolder'
    <2>1. SUFFICES ASSUME NEW id \in Ids, NEW e \in Folders, NEW f \in Folders,
                          In(id, e)', In(id, f)'
                   PROVE  e = f
        BY DEF OneFolder
    <2>2. CASE id = x
        BY <2>1, <2>2
    <2>3. CASE id # x
        BY <2>1, <2>3 DEF OneFolder
    <2> QED
        BY <2>2, <2>3
<1>2. ShownEntered(shown)'
    <2>1. SUFFICES ASSUME NEW id \in Ids, NEW e \in Folders, listing'[e] # NoListing,
                          In(id, e)', shown'[id] # NoName
                   PROVE  id \in Entered(e)'
        BY DEF ShownEntered
    <2>2. CASE id = x
        BY <2>1, <2>2
    <2>3. CASE id # x
        <3>1. In(id, e) /\ listing[e] # NoListing
            BY <2>1, <2>3
        <3>2. id \in Entered(e)
            BY <2>1, <3>1 DEF ShownEntered
        <3> QED
            BY <2>1, <2>3, <3>2
    <2> QED
        BY <2>2, <2>3
<1>3. DifferentNames(shown)'
    <2>1. SUFFICES ASSUME NEW a \in Ids, NEW b \in Ids, NEW e \in Folders,
                          In(a, e)', In(b, e)', a # b, shown'[a] # NoName
                   PROVE  shown'[a] # shown'[b]
        BY DEF DifferentNames
    <2>2. CASE a = x \/ b = x
        BY <2>1, <2>2
    <2>3. CASE a # x /\ b # x
        <3>1. In(a, e) /\ In(b, e)
            BY <2>1, <2>3
        <3> QED
            BY <2>1, <3>1 DEF DifferentNames
    <2> QED
        BY <2>2, <2>3
<1> QED
    BY <1>1, <1>2, <1>3

\* The same when no name is given, and x has not been shown yet.
LEMMA NamesStay ==
    ASSUME ShownInv, UNCHANGED shown, NEW x, NEW d,
           x \in Ids => shown[x] = NoName /\ \A e \in Folders : In(x, e)' => e = d,
           \A id \in Ids \ {x}, e \in Folders : In(id, e)' => In(id, e),
           \A e \in Folders : listing'[e] # NoListing => listing[e] # NoListing,
           \A id \in Ids \ {x}, e \in Folders :
              In(id, e)' /\ listing'[e] # NoListing /\ id \in Entered(e) =>
                 id \in Entered(e)'
    PROVE  OneFolder' /\ ShownEntered(shown)' /\ DifferentNames(shown)'
<1>1. OneFolder /\ ShownEntered(shown') /\ DifferentNames(shown')
    BY DEF ShownInv, ShownEntered, DifferentNames
<1>2. x \in Ids => shown'[x] = NoName
    OBVIOUS
<1> QED
    BY <1>1, <1>2, NamesMove

\* What Drive has of a file that is arriving, and its name, stay.
LEMMA ArrivedKept ==
    ASSUME Arrived, UNCHANGED <<drive, shown>>,
           uploader'.phase \in {"finalize", "replace"} =>
              /\ uploader.phase \in {"finalize", "replace"}
              /\ uploader'.newId = uploader.newId /\ uploader'.to = uploader.to
    PROVE  Arrived'
BY DEF Arrived

\* What an upload brings is in the folder it was to be in, and not listed.
LEMMA NewArrival ==
    ASSUME TypeInv, ListInv, ShownInv, uploader.phase \in {"finalize", "replace"}
    PROVE  /\ uploader.pid \in PendingIds /\ uploader.newId \in SpareIds
           /\ uploader.newId \in DriveIds
           /\ uploader.to \in Places /\ uploader.to.parent \in Folders
           /\ OnDrive(uploader.newId, uploader.to.parent)
           /\ uploader.newId \notin Entered(uploader.to.parent)
           /\ shown[uploader.newId] = NoName
<1>1. uploader.newId \in SpareIds
    BY DEF TypeInv, IndInv, Arrivals, UploaderStage
<1>2. /\ uploader.pid \in PendingIds /\ uploader.to \in Places
      /\ uploader.to.parent \in Folders
    BY UploadHome
<1>3. drive[uploader.newId] = uploader.to /\ shown[uploader.newId] = NoName
    BY DEF ShownInv, Arrived
<1>4. uploader.newId \notin Entered(uploader.to.parent)
    BY DEF ListInv, UploadPlaced
<1> QED
    BY <1>1, <1>2, <1>3, <1>4, Kinds DEF OnDrive

\* A placeholder is in one folder, or in none.
PlaceholdersIn ==
    \A pid \in PendingIds, e \in Folders : In(pid, e) <=> home[pid] = e
LEMMA PlaceholderIn == TypeInv /\ ListInv => PlaceholdersIn
<1> SUFFICES ASSUME TypeInv, ListInv, NEW pid \in PendingIds, NEW e \in Folders
             PROVE  In(pid, e) <=> home[pid] = e
    BY DEF PlaceholdersIn
<1>1. pid \notin DriveIds /\ e # NoFolder
    BY Kinds, NamesAssumption
<1>2. pid \in Entered(e) => home[pid] = e
    <2>1. pid \in Entered(e) => listing[e] # NoListing
        BY DEF Entered
    <2> QED
        BY <2>1, EnteredHome
<1>3. fetch.parent = e /\ pid \in IdsOf(fetch.files) => home[pid] = e
    <2>1. SUFFICES ASSUME fetch.parent = e, pid \in IdsOf(fetch.files)
                   PROVE  home[pid] = e
        OBVIOUS
    <2>2. fetch # NoFetch
        BY <1>1, <2>1 DEF NoFetch
    <2>3. fetch.phase \in {"asked", "merged"}
        BY <2>2 DEF TypeInv, TypedToo, Fetches, ListInv, FetchPlaced
    <2>4. CASE fetch.phase = "asked"
        BY <1>1, <2>1, <2>4 DEF ListInv, FetchPlaced
    <2>5. CASE fetch.phase = "merged"
        BY <2>1, <2>5 DEF ListInv, FetchPlaced, Placed
    <2> QED
        BY <2>3, <2>4, <2>5
<1> QED
    BY <1>1, <1>2, <1>3 DEF In, OnDrive

\* The same after a step.
LEMMA PlaceholderInNext == TypeInv' /\ ListInv' => PlaceholdersIn'
BY PlaceholderIn, PTL

\* A new placeholder has no name yet.
LEMMA ShownCreate ==
    ASSUME TypeInv, ListInv, ShownInv, Unseen, TypeInv', ListInv',
           NEW d \in Folders, NEW name \in RawNames, NEW pid \in PendingIds,
           Create(pid, d, name)
    PROVE  ShownInv'
<1>1. /\ shown[pid] = NoName /\ home' = [home EXCEPT ![pid] = d]
      /\ UNCHANGED <<drive, fetch, shown, uploader>>
    BY DEF Create, Unseen
<1>2. /\ home'[pid] = d /\ \A p \in PendingIds \ {pid} : home'[p] = home[p]
    BY <1>1 DEF TypeInv, IndInv, Typed
<1>3. /\ \A e \in Folders : listing'[e] # NoListing <=> listing[e] # NoListing
      /\ \A e \in Folders : Entered(e)' =
            IF e = d /\ listing[e] # NoListing THEN Entered(e) \cup {pid}
            ELSE Entered(e)
    BY CreateEffect, Shape
<1>4. pid \in Ids
    BY Kinds
<1>5. \A e \in Folders : In(pid, e)' => e = d
    BY <1>2, PlaceholderInNext DEF PlaceholdersIn
<1>6. ASSUME NEW id \in Ids \ {pid}, NEW e \in Folders
      PROVE  /\ In(id, e)' <=> In(id, e)
             /\ id \in Entered(e)' <=> id \in Entered(e)
    <2>1. id \in Entered(e)' <=> id \in Entered(e)
        BY <1>3
    <2>2. id \in PendingIds => home'[id] = home[id]
        BY <1>2
    <2> QED
        BY <1>1, <2>1, <2>2 DEF In, OnDrive
<1>7. OneFolder' /\ ShownEntered(shown)' /\ DifferentNames(shown)'
    BY <1>1, <1>3, <1>5, <1>6, NamesStay
<1>8. FetchWhole' /\ Arrived'
    BY <1>1 DEF ShownInv, FetchWhole, OnDrive, Arrived
<1> QED
    BY <1>7, <1>8 DEF ShownInv

\* resolve gives no name that another file of the folder has, and none to a file
\* that is arriving.
LEMMA ResolvedNames ==
    ASSUME TypeInv, ListInv, ShownInv, NEW d \in Folders, Resolves(d)
    PROVE  /\ ShownEntered(shown') /\ DifferentNames(shown')
           /\ uploader.phase \in {"finalize", "replace"} =>
                 shown'[uploader.newId] = NoName
<1>1. /\ listing[d] # NoListing /\ Entered(d) \in SUBSET Ids
      /\ \A a \in Ids : (a \notin Entered(d) \/ shown[a] # NoName) => shown'[a] = shown[a]
      /\ NamesDiffer(shown, Entered(d)) => NamesDiffer(shown', Entered(d))
    BY ResolveEffect DEF TypeInv
<1>2. /\ OneFolder /\ ShownEntered(shown) /\ DifferentNames(shown)
      /\ \A a \in Entered(d) : In(a, d)
    BY DEF ShownInv, In
<1>3. ASSUME NEW a \in Ids, NEW e \in Folders, In(a, e), shown[a] = NoName, shown'[a] # NoName
      PROVE  a \in Entered(d) /\ e = d
    <2>1. a \in Entered(d)
        BY <1>1, <1>3
    <2> QED
        BY <1>2, <1>3, <2>1 DEF OneFolder
<1>4. ShownEntered(shown')
    <2>1. SUFFICES ASSUME NEW a \in Ids, NEW e \in Folders, listing[e] # NoListing,
                          In(a, e), shown'[a] # NoName
                   PROVE  a \in Entered(e)
        BY DEF ShownEntered
    <2>2. CASE shown[a] = NoName
        BY <1>3, <2>1, <2>2
    <2>3. CASE shown[a] # NoName
        BY <1>2, <2>1, <2>3 DEF ShownEntered
    <2> QED
        BY <2>2, <2>3
<1>5. DifferentNames(shown')
    <2>1. SUFFICES ASSUME NEW a \in Ids, NEW b \in Ids, NEW e \in Folders,
                          In(a, e), In(b, e), a # b, shown'[a] # NoName
                   PROVE  shown'[a] # shown'[b]
        BY DEF DifferentNames
    <2>2. NamesDiffer(shown', Entered(d))
        <3>1. NamesDiffer(shown, Entered(d))
            BY <1>1, <1>2 DEF DifferentNames, NamesDiffer
        <3> QED
            BY <1>1, <3>1
    <2>3. CASE e # d
        <3>1. a \notin Entered(d) /\ b \notin Entered(d)
            BY <1>2, <2>1, <2>3 DEF OneFolder
        <3>2. shown'[a] = shown[a] /\ shown'[b] = shown[b]
            BY <1>1, <3>1
        <3> QED
            BY <1>2, <2>1, <3>2 DEF DifferentNames
    <2>4. CASE e = d
        <3>1. ASSUME NEW c \in Ids, In(c, d), c \notin Entered(d)
              PROVE  shown'[c] = NoName
            BY <1>1, <1>2, <3>1 DEF ShownEntered
        <3>2. a \in Entered(d)
            BY <2>1, <2>4, <3>1
        <3> QED
            BY <2>1, <2>2, <2>4, <3>1, <3>2 DEF NamesDiffer
    <2> QED
        BY <2>3, <2>4
<1>6. uploader.phase \in {"finalize", "replace"} => shown'[uploader.newId] = NoName
    <2>1. SUFFICES ASSUME uploader.phase \in {"finalize", "replace"}
                   PROVE  shown'[uploader.newId] = NoName
        OBVIOUS
    <2>2. /\ uploader.newId \in DriveIds /\ uploader.newId \notin Entered(uploader.to.parent)
          /\ uploader.to.parent \in Folders /\ shown[uploader.newId] = NoName
          /\ OnDrive(uploader.newId, uploader.to.parent)
        BY <2>1, NewArrival
    <2>3. In(uploader.newId, uploader.to.parent) /\ uploader.newId \in Ids
        BY <2>2, Kinds DEF In
    <2> QED
        BY <1>3, <2>2, <2>3
<1> QED
    BY <1>4, <1>5, <1>6

\* What is in a folder while no fetch is under way.
LEMMA InWithoutFetch ==
    ASSUME fetch = NoFetch, NEW d \in Folders, NEW id \in Ids, In(id, d)
    PROVE  InFolder(id, d)
<1>1. fetch.parent # d
    BY NamesAssumption DEF NoFetch
<1>2. id \in Entered(d) => Listed(d, id)
    BY DEF Entered, IdsOf, Listed, Has, Positions
<1> QED
    BY <1>1, <1>2 DEF In, OnDrive, InFolder

\* A placeholder is renamed where it is, or moves to where its name is free.
LEMMA ShownRenamePending ==
    ASSUME TypeInv, ListInv, ShownInv, FilesStay, TypeInv', ListInv',
           NEW d \in Folders, NEW name \in RawNames, NEW pid \in PendingIds,
           RenamePending(pid, d, name)
    PROVE  ShownInv'
<1>1. PICK from \in Folders : from = home[pid] /\ Resolves(from)
    BY ResolvesWhereFound DEF TypeInv, IndInv
<1>2. /\ home' = [home EXCEPT ![pid] = d]
      /\ \/ d = from
         \/ /\ fetch = NoFetch
            /\ \A o \in Ids \ {pid} : InFolder(o, d) => shown'[o] # shown'[pid]
      /\ UNCHANGED <<drive, fetch, uploader>>
    BY <1>1 DEF RenamePending, Moves, FilesStay
<1>3. /\ home'[pid] = d /\ \A p \in PendingIds \ {pid} : home'[p] = home[p]
    BY <1>2 DEF TypeInv, IndInv, Typed
<1>4. /\ \A e \in Folders : listing'[e] # NoListing <=> listing[e] # NoListing
      /\ \A e \in Folders : Entered(e)' =
            IF e = d /\ listing[e] # NoListing THEN Entered(e) \cup {pid}
            ELSE IF e = from THEN Entered(e) \ {pid} ELSE Entered(e)
    BY <1>1, RenamePendingEffect, Shape
<1>5. /\ ShownEntered(shown') /\ DifferentNames(shown')
      /\ uploader.phase \in {"finalize", "replace"} => shown'[uploader.newId] = NoName
    BY <1>1, ResolvedNames
<1>6. /\ pid \in Ids /\ In(pid, from)
      /\ \A e \in Folders : In(pid, e)' => e = d
    <2>1. \A e \in Folders : In(pid, e)' => e = d
        BY <1>3, PlaceholderInNext DEF PlaceholdersIn
    <2> QED
        BY <1>1, <2>1, Kinds DEF In
<1>7. ASSUME NEW id \in Ids \ {pid}, NEW e \in Folders
      PROVE  /\ In(id, e)' <=> In(id, e)
             /\ id \in Entered(e)' <=> id \in Entered(e)
    <2>1. id \in Entered(e)' <=> id \in Entered(e)
        BY <1>4
    <2>2. id \in PendingIds => home'[id] = home[id]
        BY <1>3
    <2> QED
        BY <1>2, <2>1, <2>2 DEF In, OnDrive
<1>8. ASSUME shown'[pid] # NoName, NEW o \in Ids \ {pid}, In(o, d)'
      PROVE  shown'[o] # shown'[pid]
    <2>1. In(o, d)
        BY <1>7, <1>8
    <2>2. CASE d = from
        BY <1>5, <1>6, <1>8, <2>1, <2>2 DEF DifferentNames
    <2>3. CASE d # from
        BY <1>2, <2>1, <2>3, InWithoutFetch
    <2> QED
        BY <2>2, <2>3
<1>9. listing'[d] # NoListing => pid \in Entered(d)'
    BY <1>4
<1>10. OneFolder' /\ ShownEntered(shown)' /\ DifferentNames(shown)'
    BY <1>4, <1>5, <1>6, <1>7, <1>8, <1>9, NamesMove DEF ShownInv
<1>11. FetchWhole' /\ Arrived'
    BY <1>2, <1>5 DEF ShownInv, FetchWhole, OnDrive, Arrived
<1> QED
    BY <1>10, <1>11 DEF ShownInv

\* A file of Drive gets another name where it is, or goes to d, where its name is
\* free.
LEMMA ShownMoved ==
    ASSUME TypeInv, ListInv, ShownInv, NEW d \in Folders, NEW name \in RawNames,
           NEW id \in DriveIds, drive[id] # NoRow,
           ShownEntered(shown'), DifferentNames(shown'),
           uploader.phase \in {"finalize", "replace"} => shown'[uploader.newId] = NoName,
           \/ d = drive[id].parent
           \/ /\ fetch = NoFetch /\ \A e \in Folders : id \notin Entered(e)'
              /\ shown'[id] # NoName =>
                    /\ listing'[d] = NoListing
                    /\ \A o \in Ids \ {id} : InFolder(o, d) => shown'[o] # shown'[id],
           \A pid \in PendingIds : Uploading(pid) => id # uploader.newId,
           drive' = [drive EXCEPT ![id] = Place(name, d)],
           UNCHANGED <<home, fetch, uploader>>,
           \A e \in Folders : listing'[e] # NoListing => listing[e] # NoListing,
           \A e \in Folders : Entered(e)' \subseteq Entered(e),
           \A e \in Folders : listing'[e] # NoListing => Entered(e)' = Entered(e)
    PROVE  ShownInv'
<1>1. /\ id \in Ids /\ id \notin PendingIds /\ NoId \notin Ids
      /\ drive'[id] = Place(name, d) /\ drive'[id].parent = d /\ drive'[id] # NoRow
      /\ \A o \in DriveIds \ {id} : drive'[o] = drive[o]
    <2>1. Place(name, d) \in Places
        BY DEF Place, Places
    <2> QED
        BY <2>1, Kinds DEF TypeInv, IndInv, Typed
<1>2. \A o \in Ids \ {id}, e \in Folders : In(o, e)' => In(o, e)
    BY <1>1 DEF In, OnDrive
<1>3. ASSUME d = drive[id].parent
      PROVE  OneFolder' /\ FetchWhole' /\ ShownEntered(shown)' /\ DifferentNames(shown)'
    <2>1. \A o \in DriveIds, e \in Folders : OnDrive(o, e)' <=> OnDrive(o, e)
        BY <1>1, <1>3 DEF OnDrive
    <2>2. \A o \in Ids, e \in Folders : In(o, e)' => In(o, e)
        <3>1. \A e \in Folders : In(id, e)' => In(id, e)
            BY <1>1, <2>1 DEF In
        <3> QED
            BY <1>2, <3>1
    <2>3. OneFolder' /\ ShownEntered(shown)' /\ DifferentNames(shown)'
        BY <1>1, <2>2, NamesMove DEF ShownInv
    <2>4. FetchWhole'
        BY <2>1 DEF ShownInv, FetchWhole
    <2> QED
        BY <2>3, <2>4
<1>4. ASSUME fetch = NoFetch, \A e \in Folders : id \notin Entered(e)',
             shown'[id] # NoName =>
                /\ listing'[d] = NoListing
                /\ \A o \in Ids \ {id} : InFolder(o, d) => shown'[o] # shown'[id]
      PROVE  OneFolder' /\ FetchWhole' /\ ShownEntered(shown)' /\ DifferentNames(shown)'
    <2>1. \A e \in Folders : fetch.parent # e
        BY <1>4, NamesAssumption DEF NoFetch
    <2>2. \A e \in Folders : In(id, e)' => e = d
        BY <1>1, <1>4, <2>1 DEF In, OnDrive
    <2>3. ASSUME shown'[id] # NoName, NEW o \in Ids \ {id}, In(o, d)'
          PROVE  shown'[o] # shown'[id]
        BY <1>2, <1>4, <2>3, InWithoutFetch
    <2>4. OneFolder' /\ ShownEntered(shown)' /\ DifferentNames(shown)'
        BY <1>2, <1>4, <2>2, <2>3, NamesMove DEF ShownInv
    <2>5. FetchWhole'
        BY <2>1 DEF FetchWhole
    <2> QED
        BY <2>4, <2>5
<1>5. OneFolder' /\ FetchWhole' /\ ShownEntered(shown)' /\ DifferentNames(shown)'
    BY <1>3, <1>4
<1>6. Arrived'
    <2>1. SUFFICES ASSUME uploader.phase \in {"finalize", "replace"}
                   PROVE  /\ drive'[uploader.newId] = uploader.to
                          /\ shown'[uploader.newId] = NoName
        BY DEF Arrived
    <2>2. uploader.newId \in DriveIds /\ uploader.pid \in PendingIds
        BY <2>1, NewArrival
    <2>3. id # uploader.newId
        BY <2>1, <2>2 DEF Uploading
    <2> QED
        BY <1>1, <2>1, <2>2, <2>3 DEF ShownInv, Arrived
<1> QED
    BY <1>5, <1>6 DEF ShownInv

\* rename() of a file Drive has.
LEMMA ShownRenameFile ==
    ASSUME TypeInv, ListInv, ShownInv, FilesStay,
           NEW d \in Folders, NEW name \in RawNames, NEW id \in DriveIds,
           RenameFile(id, d, name)
    PROVE  ShownInv'
<1>1. PICK from \in Folders : from = drive[id].parent /\ Resolves(from)
    BY ResolvesWhereFound DEF TypeInv, IndInv
<1>2. /\ drive[id] # NoRow
      /\ \/ d = from
         \/ /\ fetch = NoFetch
            /\ \A o \in Ids \ {id} : InFolder(o, d) => shown'[o] # shown'[id]
      /\ \A pid \in PendingIds : Uploading(pid) => id # uploader.newId
      /\ drive' = [drive EXCEPT ![id] = Place(name, d)]
      /\ UNCHANGED <<home, fetch, uploader>>
    BY <1>1 DEF RenameFile, Moves, FilesStay
<1>3. listing' = [e \in Folders |-> IF e \in {from, d} THEN NoListing ELSE listing[e]]
    BY <1>1, RenameFileEffect DEF TypeInv
<1>4. /\ \A e \in Folders : listing'[e] # NoListing =>
            listing[e] # NoListing /\ e \notin {from, d}
      /\ \A e \in Folders : Entered(e)' = IF e \in {from, d} THEN {} ELSE Entered(e)
    <2> DEFINE gone == {from, d}
    <2>1. /\ gone \in SUBSET Folders /\ TypedToo
          /\ listing' = [e \in Folders |-> IF e \in gone THEN NoListing ELSE listing[e]]
        BY <1>3 DEF TypeInv
    <2> HIDE DEF gone
    <2>2. /\ \A e \in Folders : listing'[e] # NoListing =>
                listing[e] # NoListing /\ e \notin gone
          /\ \A e \in Folders : Entered(e)' = IF e \in gone THEN {} ELSE Entered(e)
        BY <2>1, DroppedEffect
    <2> QED
        BY <2>2 DEF gone
<1>5. ASSUME NEW e \in Folders, id \in Entered(e)
      PROVE  e = from
    <2>1. In(id, from) /\ In(id, e) /\ id \in Ids
        BY <1>1, <1>2, <1>5, Kinds DEF In, OnDrive
    <2> QED
        BY <2>1 DEF ShownInv, OneFolder
<1>6. /\ \A e \in Folders : listing'[e] # NoListing => listing[e] # NoListing
      /\ \A e \in Folders : Entered(e)' \subseteq Entered(e)
      /\ \A e \in Folders : listing'[e] # NoListing => Entered(e)' = Entered(e)
      /\ \A e \in Folders : id \notin Entered(e)'
      /\ listing'[d] = NoListing
    BY <1>4, <1>5
<1>7. /\ ShownEntered(shown') /\ DifferentNames(shown')
      /\ uploader.phase \in {"finalize", "replace"} => shown'[uploader.newId] = NoName
    BY <1>1, ResolvedNames
<1> QED
    BY <1>1, <1>2, <1>6, <1>7, ShownMoved

\* Another client renames a file, or moves one that has no name yet and is in no
\* listing.
LEMMA ShownMoveElsewhere ==
    ASSUME TypeInv, ListInv, ShownInv, FilesStay,
           NEW d \in Folders, NEW name \in RawNames, NEW id \in DriveIds,
           MoveElsewhere(id, d, name)
    PROVE  ShownInv'
<1>1. /\ drive[id] # NoRow
      /\ \/ d = drive[id].parent
         \/ shown[id] = NoName /\ fetch = NoFetch /\ \A e \in Folders : ~Listed(e, id)
      /\ \A pid \in PendingIds : Uploading(pid) => id # uploader.newId
      /\ drive' = [drive EXCEPT ![id] = Place(name, d)]
      /\ UNCHANGED <<home, listing, fetch, shown, uploader>>
    BY DEF MoveElsewhere, FilesStay, memory
<1>2. \A e \in Folders : ~Listed(e, id) => id \notin Entered(e)
    BY DEF Listed, Has, Positions, Entered, IdsOf
<1>3. \A e \in Folders : Entered(e)' = Entered(e)
    BY <1>1 DEF Entered
<1>4. /\ ShownEntered(shown') /\ DifferentNames(shown')
      /\ uploader.phase \in {"finalize", "replace"} => shown'[uploader.newId] = NoName
    BY <1>1 DEF ShownInv, ShownEntered, DifferentNames, Arrived
<1>5. \/ d = drive[id].parent
      \/ /\ fetch = NoFetch /\ \A e \in Folders : id \notin Entered(e)'
         /\ shown'[id] = NoName
    BY <1>1, <1>2, <1>3
<1> QED
    BY <1>1, <1>3, <1>4, <1>5, ShownMoved

\* A file that is removed is in no folder.
LEMMA ShownUnlink ==
    ASSUME TypeInv, ListInv, ShownInv, NEW id \in DriveIds, Unlink(id)
    PROVE  ShownInv'
<1>1. /\ drive[id] # NoRow /\ Listed(drive[id].parent, id)
      /\ drive' = [drive EXCEPT ![id] = NoRow]
      /\ UNCHANGED <<home, fetch, uploader>>
    BY DEF Unlink
<1>2. PICK from \in Folders : from = drive[id].parent /\ Resolves(from)
    BY ResolvesWhereFound DEF TypeInv, IndInv
<1>3. listing' = [e \in Folders |-> IF e \in {from} THEN NoListing ELSE listing[e]]
    BY <1>2, UnlinkEffect DEF TypeInv
<1>4. /\ \A e \in Folders : listing'[e] # NoListing =>
            listing[e] # NoListing /\ e \notin {from}
      /\ \A e \in Folders : Entered(e)' = IF e \in {from} THEN {} ELSE Entered(e)
    <2> DEFINE gone == {from}
    <2>1. /\ gone \in SUBSET Folders /\ TypedToo
          /\ listing' = [e \in Folders |-> IF e \in gone THEN NoListing ELSE listing[e]]
        BY <1>3 DEF TypeInv
    <2> HIDE DEF gone
    <2>2. /\ \A e \in Folders : listing'[e] # NoListing =>
                listing[e] # NoListing /\ e \notin gone
          /\ \A e \in Folders : Entered(e)' = IF e \in gone THEN {} ELSE Entered(e)
        BY <2>1, DroppedEffect
    <2> QED
        BY <2>2 DEF gone
<1>5. /\ drive'[id] = NoRow
      /\ \A o \in DriveIds \ {id} : drive'[o] = drive[o]
    BY <1>1 DEF TypeInv, IndInv, Typed
<1>6. \A o \in DriveIds, e \in Folders : OnDrive(o, e)' => OnDrive(o, e)
    BY <1>5 DEF OnDrive
<1>7. \A o \in Ids, e \in Folders : In(o, e)' => In(o, e)
    BY <1>1, <1>4, <1>6 DEF In, OnDrive
<1>8. /\ ShownEntered(shown') /\ DifferentNames(shown')
      /\ uploader.phase \in {"finalize", "replace"} => shown'[uploader.newId] = NoName
    BY <1>2, ResolvedNames
<1>9. OneFolder' /\ ShownEntered(shown)' /\ DifferentNames(shown)'
    <2>1. NoId \notin Ids
        BY Kinds
    <2> QED
        BY <1>4, <1>7, <1>8, <2>1, NamesMove DEF ShownInv
<1>10. FetchWhole'
    BY <1>1, <1>6 DEF ShownInv, FetchWhole
<1>11. Arrived'
    <2>1. SUFFICES ASSUME uploader.phase \in {"finalize", "replace"}
                   PROVE  /\ drive'[uploader.newId] = uploader.to
                          /\ shown'[uploader.newId] = NoName
        BY <1>1 DEF Arrived
    <2>2. /\ uploader.newId \in DriveIds /\ uploader.newId \notin Entered(uploader.to.parent)
          /\ OnDrive(uploader.newId, uploader.to.parent)
        BY <2>1, NewArrival
    <2>3. id \in Entered(from)
        BY <1>1, <1>2 DEF Listed, Has, Positions, Entered, IdsOf
    <2>4. id # uploader.newId
        BY <1>2, <2>2, <2>3 DEF OnDrive
    <2> QED
        BY <1>5, <1>8, <2>1, <2>2, <2>4 DEF ShownInv, Arrived
<1> QED
    BY <1>9, <1>10, <1>11 DEF ShownInv

\* lookup() and readdir() move nothing.
LEMMA ShownShow ==
    ASSUME TypeInv, ListInv, ShownInv, NEW d \in Folders, NEW id \in Ids, Show(d, id)
    PROVE  ShownInv'
<1>1. UNCHANGED <<drive, home, listing, fetch, uploader>> /\ Resolves(d)
    BY ResolvesWhereFound DEF Show, memory, TypeInv, IndInv
<1>2. /\ ShownEntered(shown') /\ DifferentNames(shown')
      /\ uploader.phase \in {"finalize", "replace"} => shown'[uploader.newId] = NoName
    BY <1>1, ResolvedNames
<1>3. /\ \A e \in Folders : Entered(e)' = Entered(e)
      /\ \A a \in Ids, e \in Folders : In(a, e)' <=> In(a, e)
    BY <1>1 DEF In, OnDrive, Entered
<1>4. OneFolder' /\ ShownEntered(shown)' /\ DifferentNames(shown)'
    <2>1. NoId \notin Ids
        BY Kinds
    <2> QED
        BY <1>1, <1>2, <1>3, <2>1, NamesMove DEF ShownInv
<1>5. FetchWhole' /\ Arrived'
    BY <1>1, <1>2 DEF ShownInv, FetchWhole, OnDrive, Arrived
<1> QED
    BY <1>4, <1>5 DEF ShownInv

\* The answer of Drive has all files of the folder.
LEMMA ShownAsk ==
    ASSUME TypeInv, ListInv, ShownInv, NEW d \in Folders, Ask(d)
    PROVE  ShownInv'
<1>1. UNCHANGED <<drive, home, listing, shown, uploader>>
    BY DEF Ask, memory
<1>2. /\ fetch'.parent = d
      /\ IdsOf(fetch'.files) =
            {id \in DriveIds : drive[id] # NoRow /\ drive[id].parent = d}
    BY AskEffect, Shape
<1>3. \A e \in Folders : Entered(e)' = Entered(e)
    BY <1>1 DEF Entered
<1>4. \A o \in Ids, e \in Folders : In(o, e)' => In(o, e)
    BY <1>1, <1>2, <1>3 DEF In, OnDrive
<1>5. OneFolder' /\ ShownEntered(shown)' /\ DifferentNames(shown)'
    <2>1. NoId \notin Ids
        BY Kinds
    <2> QED
        BY <1>1, <1>3, <1>4, <2>1, NamesStay
<1>6. FetchWhole' /\ Arrived'
    BY <1>1, <1>2 DEF ShownInv, FetchWhole, OnDrive, Arrived
<1> QED
    BY <1>5, <1>6 DEF ShownInv

\* The placeholders of the folder are in the folder.
LEMMA ShownMerge ==
    ASSUME TypeInv, ListInv, ShownInv, Merge
    PROVE  ShownInv'
<1>1. UNCHANGED <<drive, home, listing, shown, uploader>>
    BY DEF Merge, memory
<1>2. PICK d \in Folders : d = fetch.parent
    BY MergeEffect, Shape
<1>3. /\ fetch'.parent = d
      /\ IdsOf(fetch'.files) =
            IdsOf(fetch.files) \cup (Entered(d) \cap PendingIds) \cup
            {pid \in PendingIds : home[pid] = d /\ named[pid] # NoName}
    BY <1>2, MergeEffect, Shape
<1>4. \A e \in Folders : Entered(e)' = Entered(e)
    BY <1>1 DEF Entered
<1>5. \A o \in Ids, e \in Folders : In(o, e)' => In(o, e)
    BY <1>1, <1>2, <1>3, <1>4 DEF In, OnDrive
<1>6. OneFolder' /\ ShownEntered(shown)' /\ DifferentNames(shown)'
    <2>1. NoId \notin Ids
        BY Kinds
    <2> QED
        BY <1>1, <1>4, <1>5, <2>1, NamesStay
<1>7. FetchWhole' /\ Arrived'
    BY <1>1, <1>2, <1>3 DEF ShownInv, FetchWhole, OnDrive, Arrived
<1> QED
    BY <1>6, <1>7 DEF ShownInv

\* A listing that takes the place of another has all files of the folder.
LEMMA ShownInstall ==
    ASSUME TypeInv, ListInv, ShownInv, Install
    PROVE  ShownInv'
<1>1. UNCHANGED <<drive, home, shown, uploader>>
    BY DEF Install
<1>2. PICK d \in Folders : d = fetch.parent
    BY InstallEffect DEF TypeInv
<1>3. /\ fetch.phase = "merged" /\ fetch' = NoFetch
      /\ \A e \in Folders :
            listing'[e] = IF e = d THEN fetch.files ELSE listing[e]
      /\ \A e \in Folders :
            Entered(e)' = IF e = d THEN IdsOf(fetch.files) ELSE Entered(e)
    BY <1>2, InstallEffect DEF TypeInv
<1>4. \A e \in Folders : fetch'.parent # e
    BY <1>3, NamesAssumption DEF NoFetch
<1>5. OneFolder /\ FetchWhole /\ ShownEntered(shown) /\ DifferentNames(shown) /\ Arrived
    BY DEF ShownInv
<1>6. \A o \in Ids, e \in Folders : In(o, e)' => In(o, e)
    BY <1>1, <1>2, <1>3, <1>4 DEF In, OnDrive
<1>7. OneFolder' /\ DifferentNames(shown)'
    BY <1>1, <1>5, <1>6 DEF OneFolder, DifferentNames
<1>8. ShownEntered(shown)'
    <2>1. SUFFICES ASSUME NEW id \in Ids, NEW e \in Folders, listing'[e] # NoListing,
                          In(id, e)', shown[id] # NoName
                   PROVE  id \in Entered(e)'
        BY <1>1 DEF ShownEntered
    <2>2. CASE e # d
        BY <1>3, <1>5, <1>6, <2>1, <2>2 DEF ShownEntered
    <2>3. CASE e = d
        <3>1. id \in DriveIds /\ OnDrive(id, d) => id \in IdsOf(fetch.files)
            BY <1>2, <1>5 DEF FetchWhole
        <3>2. id \in PendingIds /\ home[id] = d => id \in IdsOf(fetch.files)
            BY <1>2, <1>3 DEF ListInv, FetchPlaced, Placed
        <3>3. \/ OnDrive(id, d)' \/ (id \in PendingIds /\ home'[id] = d)
              \/ id \in Entered(d)'
            BY <1>4, <2>1, <2>3 DEF In
        <3>4. OnDrive(id, d)' => id \in DriveIds /\ OnDrive(id, d)
            BY <1>1 DEF OnDrive
        <3> QED
            BY <1>1, <1>3, <2>3, <3>1, <3>2, <3>3, <3>4
    <2> QED
        BY <2>2, <2>3
<1>9. FetchWhole' /\ Arrived'
    BY <1>1, <1>4, <1>5 DEF FetchWhole, Arrived
<1> QED
    BY <1>7, <1>8, <1>9 DEF ShownInv

\* The file that Drive creates has no name yet.
LEMMA ShownCreateFile ==
    ASSUME TypeInv, ListInv, ShownInv, FetchesWait, NEW new \in SpareIds, CreateFile(new)
    PROVE  ShownInv'
<1>1. /\ uploader.phase = "send"
      /\ \A pid \in PendingIds : new \notin copies[pid]
      /\ fetch.parent # uploader.to.parent
      /\ drive' = [drive EXCEPT ![new] = uploader.to]
      /\ uploader' \in {Stage("finalize", uploader.to, new), Resting}
      /\ UNCHANGED <<home, listing, fetch, shown>>
    BY DEF CreateFile, NoFetchUnderWay, FetchesWait, memory
<1>2. /\ uploader.to.parent \in Folders /\ uploader.to \in Places
      /\ new \in DriveIds /\ new \in Ids /\ new \notin PendingIds
    BY <1>1, UploadHome, Kinds
<1>3. /\ drive'[new] = uploader.to
      /\ \A o \in DriveIds \ {new} : drive'[o] = drive[o]
    BY <1>1, <1>2 DEF TypeInv, IndInv, Typed
<1>4. /\ shown[new] = NoName /\ new \notin IdsOf(fetch.files)
      /\ \A e \in Folders : new \notin Entered(e)
    <2>1. ~Made(new)
        BY <1>1 DEF Made
    <2> QED
        BY <2>1 DEF ListInv, SeenMade
<1>5. \A e \in Folders : Entered(e)' = Entered(e)
    BY <1>1 DEF Entered
<1>6. \A e \in Folders : In(new, e)' => e = uploader.to.parent
    BY <1>1, <1>2, <1>3, <1>4, <1>5 DEF In, OnDrive
<1>7. \A o \in Ids \ {new}, e \in Folders : In(o, e)' => In(o, e)
    BY <1>1, <1>3, <1>5 DEF In, OnDrive
<1>8. OneFolder' /\ ShownEntered(shown)' /\ DifferentNames(shown)'
    BY <1>1, <1>4, <1>5, <1>6, <1>7, NamesStay
<1>9. FetchWhole'
    <2>1. SUFFICES ASSUME NEW id \in DriveIds, NEW d \in Folders, fetch.parent = d,
                          OnDrive(id, d)'
                   PROVE  id \in IdsOf(fetch.files)
        BY <1>1 DEF FetchWhole
    <2>2. id # new
        BY <1>1, <1>3, <2>1 DEF OnDrive
    <2>3. OnDrive(id, d)
        BY <1>3, <2>1, <2>2 DEF OnDrive
    <2> QED
        BY <2>1, <2>3 DEF ShownInv, FetchWhole
<1>10. Arrived'
    BY <1>1, <1>3, <1>4 DEF Arrived, Stage, Resting
<1> QED
    BY <1>8, <1>9, <1>10 DEF ShownInv

\* The file is where its placeholder was, and was there for Drive before.
LEMMA ShownReplace ==
    ASSUME TypeInv, ListInv, ShownInv, Replace, TypeInv', ListInv'
    PROVE  ShownInv'
<1>1. /\ uploader.phase = "replace"
      /\ home' = [home EXCEPT ![uploader.pid] = NoFolder]
      /\ uploader' = Resting
      /\ UNCHANGED <<drive, fetch, shown>>
    BY DEF Replace
<1>2. PICK old \in PendingIds, new \in SpareIds, d \in Folders :
         /\ old = uploader.pid /\ new = uploader.newId /\ d = uploader.to.parent
         /\ OnDrive(new, d) /\ new \notin Entered(d)
    BY <1>1, NewArrival
<1>3. /\ \A e \in Folders : listing'[e] # NoListing <=> listing[e] # NoListing
      /\ \A e \in Folders \ {d} :
            listing'[e] = listing[e] /\ Entered(e)' = Entered(e)
      /\ listing[d] # NoListing /\ new \notin Entered(d) /\ Once(d) =>
            Entered(d)' = (Entered(d) \ {old}) \cup {new}
    BY <1>2, ReplaceEffect, Shape
<1>4. Entered(d)' \subseteq (Entered(d) \ {old}) \cup {new}
      /\ (listing[d] # NoListing => Entered(d)' = (Entered(d) \ {old}) \cup {new})
    <2>1. listing[d] # NoListing => Once(d)
        BY DEF ListInv, ListingsPlaced, Placed, Once
    <2>2. listing[d] = NoListing => Entered(d)' = {}
        BY <1>3 DEF Entered
    <2> QED
        BY <1>2, <1>3, <2>1, <2>2
<1>5. /\ home'[old] = NoFolder /\ \A p \in PendingIds \ {old} : home'[p] = home[p]
    BY <1>1, <1>2 DEF TypeInv, IndInv, Typed
<1>6. \A e \in Folders : ~In(old, e)'
    BY <1>5, PlaceholderInNext, NamesAssumption DEF PlaceholdersIn
<1>7. ASSUME NEW o \in Ids, NEW e \in Folders, In(o, e)'
      PROVE  /\ In(o, e)
             /\ listing'[e] # NoListing /\ o \in Entered(e) => o \in Entered(e)'
    <2>1. o # old
        BY <1>6, <1>7
    <2>2. o \in Entered(e)' => In(o, e)
        BY <1>2, <1>3, <1>4 DEF In
    <2>3. In(o, e)
        BY <1>1, <1>5, <1>7, <2>1, <2>2 DEF In, OnDrive
    <2>4. listing'[e] # NoListing /\ o \in Entered(e) => o \in Entered(e)'
        BY <1>3, <1>4, <2>1
    <2> QED
        BY <2>3, <2>4
<1>8. OneFolder' /\ ShownEntered(shown)' /\ DifferentNames(shown)'
    <2>1. NoId \notin Ids
        BY Kinds
    <2> QED
        BY <1>1, <1>3, <1>7, <2>1, NamesStay
<1>9. FetchWhole' /\ Arrived'
    BY <1>1 DEF ShownInv, FetchWhole, OnDrive, Arrived, Resting
<1> QED
    BY <1>8, <1>9 DEF ShownInv

\* A placeholder that is given up is in no folder.
LEMMA ShownForget ==
    ASSUME TypeInv, ListInv, ShownInv, Forget, TypeInv', ListInv'
    PROVE  ShownInv'
<1>1. /\ uploader.phase = "forget"
      /\ home' = [home EXCEPT ![uploader.pid] = NoFolder]
      /\ uploader' = Resting
      /\ UNCHANGED <<drive, fetch, shown>>
    BY DEF Forget
<1>2. PICK pid \in PendingIds, d \in Folders :
         pid = uploader.pid /\ d = uploader.to.parent
    BY <1>1, UploadHome
<1>3. /\ \A e \in Folders : listing'[e] # NoListing <=> listing[e] # NoListing
      /\ \A e \in Folders :
            Entered(e)' = IF e = d THEN Entered(e) \ {pid} ELSE Entered(e)
    BY <1>2, ForgetEffect, Shape
<1>4. /\ home'[pid] = NoFolder /\ \A p \in PendingIds \ {pid} : home'[p] = home[p]
    BY <1>1, <1>2 DEF TypeInv, IndInv, Typed
<1>5. \A e \in Folders : ~In(pid, e)'
    BY <1>4, PlaceholderInNext, NamesAssumption DEF PlaceholdersIn
<1>6. ASSUME NEW o \in Ids, NEW e \in Folders, In(o, e)'
      PROVE  /\ In(o, e)
             /\ listing'[e] # NoListing /\ o \in Entered(e) => o \in Entered(e)'
    <2>1. o # pid
        BY <1>5, <1>6
    <2>2. In(o, e)
        BY <1>1, <1>3, <1>4, <1>6, <2>1 DEF In, OnDrive
    <2> QED
        BY <1>3, <2>1, <2>2
<1>7. OneFolder' /\ ShownEntered(shown)' /\ DifferentNames(shown)'
    <2>1. NoId \notin Ids
        BY Kinds
    <2> QED
        BY <1>1, <1>3, <1>6, <2>1, NamesStay
<1>8. FetchWhole' /\ Arrived'
    BY <1>1 DEF ShownInv, FetchWhole, OnDrive, Arrived, Resting
<1> QED
    BY <1>7, <1>8 DEF ShownInv

\* A restart keeps the names, and drops what it listed.
LEMMA ShownRemount ==
    ASSUME ShownInv, Remount
    PROVE  ShownInv'
<1>1. /\ listing' = [e \in Folders |-> NoListing] /\ fetch' = NoFetch
      /\ home' = [pid \in PendingIds |-> NoFolder] /\ uploader' = Resting
      /\ UNCHANGED <<drive, shown>>
    BY DEF Remount
<1>2. /\ \A e \in Folders : listing'[e] = NoListing /\ Entered(e)' = {}
      /\ \A e \in Folders : fetch'.parent # e /\ e # NoFolder
    BY <1>1, NamesAssumption DEF Entered, NoFetch
<1>3. \A o \in Ids, e \in Folders : In(o, e)' => In(o, e)
    BY <1>1, <1>2 DEF In, OnDrive
<1>4. OneFolder' /\ ShownEntered(shown)' /\ DifferentNames(shown)'
    <2>1. NoId \notin Ids
        BY Kinds
    <2> QED
        BY <1>1, <1>2, <1>3, <2>1, NamesStay
<1>5. FetchWhole' /\ Arrived'
    BY <1>1, <1>2 DEF FetchWhole, Arrived, Resting
<1> QED
    BY <1>4, <1>5 DEF ShownInv

\* The other steps move no file.
LEMMA ShownAside ==
    ASSUME ShownInv, Aside
    PROVE  ShownInv'
<1>1. UNCHANGED <<drive, home, listing, fetch, shown>>
    BY AsideKeeps
<1>2. \A e \in Folders : Entered(e)' = Entered(e)
    BY <1>1 DEF Entered
<1>3. \A o \in Ids, e \in Folders : In(o, e)' <=> In(o, e)
    BY <1>1, <1>2 DEF In, OnDrive
<1>4. OneFolder' /\ ShownEntered(shown)' /\ DifferentNames(shown)'
    <2>1. NoId \notin Ids
        BY Kinds
    <2> QED
        BY <1>1, <1>2, <1>3, <2>1, NamesStay
<1>5. FetchWhole'
    BY <1>1 DEF ShownInv, FetchWhole, OnDrive
<1>6. Arrived'
    <2>1. CASE uploader' = uploader
        BY <1>1, <2>1 DEF ShownInv, Arrived
    <2>2. CASE uploader'.phase \notin {"finalize", "replace"}
        BY <2>2 DEF Arrived
    <2>3. CASE Finalize
        BY <1>1, <2>3, ArrivedKept DEF Finalize, Stage, ShownInv
    <2>4. CASE \E pid \in PendingIds : Release(pid) \/ Pick(pid)
        BY <2>1, <2>2, <2>4 DEF Release, Pick
    <2>5. CASE \E id \in DriveIds : Follow(id) \/ FollowRemoval(id) \/ NumberListed(id)
        BY <2>1, <2>5 DEF Follow, FollowRemoval, NumberListed
    <2>6. CASE StoreRenamed \/ UNCHANGED vars
        BY <2>1, <2>6 DEF StoreRenamed, vars
    <2>7. CASE Reread \/ SendFails \/ Abandon
        BY <2>2, <2>7 DEF Reread, SendFails, Abandon, Stage, Resting
    <2> QED
        BY <2>3, <2>4, <2>5, <2>6, <2>7 DEF Aside
<1> QED
    BY <1>4, <1>5, <1>6 DEF ShownInv

\* Names differ after every step.
LEMMA ShownStep ==
    ASSUME TypeInv, ListInv, ShownInv, Unseen, FetchesWait, FilesStay, TypeInv', ListInv',
           [Next]_vars
    PROVE  ShownInv'
<1>1. CASE FetchStep
    <2>1. ASSUME NEW id \in DriveIds, NumberListed(id) PROVE ShownInv'
        BY <2>1, ShownAside DEF Aside
    <2> QED
        BY <1>1, <2>1, ShownAsk, ShownMerge, ShownInstall DEF FetchStep
<1>2. CASE UploaderStep
    <2>1. CASE Reread \/ SendFails \/ Finalize \/ Abandon
        BY <2>1, ShownAside DEF Aside
    <2>2. ASSUME NEW pid \in PendingIds, Pick(pid) PROVE ShownInv'
        BY <2>2, ShownAside DEF Aside
    <2> QED
        BY <1>2, <2>1, <2>2, ShownCreateFile, ShownReplace, ShownForget DEF UploaderStep
<1>3. ASSUME NEW d \in Folders, NEW name \in RawNames, NEW pid \in PendingIds,
             Create(pid, d, name) \/ RenamePending(pid, d, name)
      PROVE  ShownInv'
    BY <1>3, ShownCreate, ShownRenamePending
<1>4. ASSUME NEW d \in Folders, NEW name \in RawNames, NEW id \in DriveIds,
             RenameFile(id, d, name) \/ MoveElsewhere(id, d, name)
      PROVE  ShownInv'
    BY <1>4, ShownRenameFile, ShownMoveElsewhere
<1>5. ASSUME NEW pid \in PendingIds, Release(pid) PROVE ShownInv'
    BY <1>5, ShownAside DEF Aside
<1>6. ASSUME NEW id \in DriveIds, Unlink(id) \/ Follow(id) \/ FollowRemoval(id)
      PROVE  ShownInv'
    <2>1. CASE Unlink(id)
        BY <2>1, ShownUnlink
    <2>2. CASE Follow(id) \/ FollowRemoval(id)
        BY <2>2, ShownAside DEF Aside
    <2> QED
        BY <1>6, <2>1, <2>2
<1>7. ASSUME NEW d \in Folders, NEW id \in Ids, Show(d, id) PROVE ShownInv'
    BY <1>7, ShownShow
<1>8. CASE StoreRenamed \/ UNCHANGED vars
    BY <1>8, ShownAside DEF Aside
<1>9. CASE Remount
    BY <1>9, ShownRemount
<1> QED
    BY <1>1, <1>2, <1>3, <1>4, <1>5, <1>6, <1>7, <1>8, <1>9 DEF Next

\* No file has a name at the start.
LEMMA ShownInit == ASSUME Init PROVE ShownInv
<1>1. /\ listing = [d \in Folders |-> NoListing] /\ fetch = NoFetch
      /\ home = [pid \in PendingIds |-> NoFolder] /\ uploader = Resting
      /\ shown = [id \in Ids |-> NoName]
    BY DEF Init
<1>2. /\ \A e \in Folders : listing[e] = NoListing /\ Entered(e) = {}
      /\ \A e \in Folders : fetch.parent # e /\ e # NoFolder
    BY <1>1, NamesAssumption DEF Entered, NoFetch
<1>3. \A id \in Ids, e \in Folders : In(id, e) <=> OnDrive(id, e)
    BY <1>1, <1>2 DEF In
<1>4. OneFolder /\ DifferentNames(shown)
    BY <1>1, <1>3 DEF OneFolder, OnDrive, DifferentNames
<1> QED
    BY <1>1, <1>2, <1>4 DEF ShownInv, FetchWhole, ShownEntered, Arrived, Resting

\* The invariants that uniqueness of names needs.
Together == TypeInv /\ ListInv /\ ShownInv /\ Unseen

\* They are inductive together.
LEMMA TogetherStep ==
    ASSUME RenamesWait, IdsFresh, FetchesWait, FilesStay, Together, [Next]_vars
    PROVE  Together'
<1>1. TypeInv'
    BY TypeStep DEF Together
<1>2. ListInv'
    BY <1>1, ListStep DEF Together
<1>3. ShownInv'
    BY <1>1, <1>2, ShownStep DEF Together
<1>4. Unseen'
    BY UnseenStep DEF Together
<1> QED
    BY <1>1, <1>2, <1>3, <1>4 DEF Together

\* At the start no id has been given out.
LEMMA UnseenInit == ASSUME Init PROVE Unseen
BY Kinds DEF Init, Unseen

\* So they hold of every behaviour under the four hypotheses.
LEMMA TogetherInvariant ==
    ASSUME RenamesWait, IdsFresh, FetchesWait, FilesStay
    PROVE  Spec => []Together
<1>1. Init => Together
    BY TypeInit, ListInit, ShownInit, UnseenInit DEF Together
<1>2. Together /\ [Next]_vars => Together'
    BY TogetherStep
<1> QED
    BY <1>1, <1>2, PTL DEF Spec

\* A folder shows no name twice, whatever Drive and the placeholders have in it,
\* and whatever is created, renamed or uploaded: the kernel's view of a folder is
\* then a function from names to files.  That is as long as no listing is on its
\* way while its folder gets or loses a file (FetchesWait), a file that was shown
\* goes to another folder only where its name is free (FilesStay), no placeholder
\* is renamed while it is uploaded (RenamesWait), and no placeholder id is given
\* out again (IdsFresh).
THEOREM NamesStayUnique ==
    ASSUME RenamesWait, IdsFresh, FetchesWait, FilesStay
    PROVE  Spec => []UniqueNames
<1>1. Together => UniqueNames
    <2>1. SUFFICES ASSUME Together, NEW d \in Folders, listing[d] # NoListing,
                          NEW i \in DOMAIN listing[d], NEW j \in DOMAIN listing[d],
                          i # j, shown[listing[d][i].id] # NoName
                   PROVE  shown[listing[d][i].id] # shown[listing[d][j].id]
        BY DEF UniqueNames
    <2>2. listing[d] \in Seq(Entries) /\ Entered(d) = IdsOf(listing[d])
        BY <2>1 DEF Together, TypeInv, TypedToo, Listings, Entered
    <2>3. listing[d][i].id # listing[d][j].id
        BY <2>1 DEF Together, ListInv, ListingsPlaced, Placed, OnceEach
    <2>4. /\ listing[d][i].id \in Entered(d) /\ listing[d][j].id \in Entered(d)
          /\ Entered(d) \in SUBSET Ids
        BY <2>1, <2>2, IdsTyped DEF IdsOf
    <2> QED
        BY <2>1, <2>3, <2>4 DEF Together, ShownInv, DifferentNames, In
<1> QED
    BY <1>1, TogetherInvariant, PTL

\* A file of d that the listing of d shows is in the next listing of d.
StaysListed ==
    \A d \in Folders, id \in DriveIds :
        OnDrive(id, d) /\ id \in Entered(d) /\ listing'[d] # NoListing =>
            id \in Entered(d)'

\* Every step keeps what a listing shows of the files of Drive.
LEMMA StaysListedStep ==
    ASSUME Together, FetchesWait, [Next]_vars
    PROVE  StaysListed
<1>0. TypeInv /\ ListInv /\ ShownInv /\ TypedToo /\ \A id \in DriveIds : id \notin PendingIds
    BY Kinds DEF Together, TypeInv
<1>1. ASSUME NEW d \in Folders, NEW name \in RawNames, NEW pid \in PendingIds,
             Create(pid, d, name) \/ RenamePending(pid, d, name)
      PROVE  StaysListed
    <2>1. CASE Create(pid, d, name)
        <3>1. \A e \in Folders : Entered(e)' =
                 IF e = d /\ listing[e] # NoListing THEN Entered(e) \cup {pid}
                 ELSE Entered(e)
            BY <1>0, <2>1, CreateEffect, Shape
        <3> QED
            BY <3>1 DEF StaysListed
    <2>2. CASE RenamePending(pid, d, name)
        <3>1. \A e \in Folders : Entered(e)' =
                 IF e = d /\ listing[e] # NoListing THEN Entered(e) \cup {pid}
                 ELSE IF e = home[pid] THEN Entered(e) \ {pid} ELSE Entered(e)
            BY <1>0, <2>2, RenamePendingEffect, Shape
        <3> QED
            BY <1>0, <3>1 DEF StaysListed
    <2> QED
        BY <1>1, <2>1, <2>2
<1>2. ASSUME NEW S \in SUBSET Folders,
             listing' = [e \in Folders |-> IF e \in S THEN NoListing ELSE listing[e]]
      PROVE  StaysListed
    <2>1. /\ \A e \in Folders : listing'[e] # NoListing => e \notin S
          /\ \A e \in Folders : Entered(e)' = IF e \in S THEN {} ELSE Entered(e)
        BY <1>0, <1>2, DroppedEffect
    <2> QED
        BY <2>1 DEF StaysListed
<1>3. ASSUME NEW d \in Folders, NEW name \in RawNames, NEW id \in DriveIds,
             RenameFile(id, d, name)
      PROVE  StaysListed
    <2>1. drive[id] # NoRow
        BY <1>3 DEF RenameFile
    <2>2. drive[id].parent \in Folders
        BY <1>0, <2>1, OnDriveTyped DEF TypeInv, IndInv
    <2>3. listing' = [e \in Folders |->
                        IF e \in {drive[id].parent, d} THEN NoListing ELSE listing[e]]
        BY <1>0, <1>3, <2>2, RenameFileEffect
    <2>4. {drive[id].parent, d} \in SUBSET Folders
        BY <2>2
    <2> QED
        BY <1>2, <2>3, <2>4
<1>4. ASSUME NEW id \in DriveIds, Unlink(id)
      PROVE  StaysListed
    <2>1. drive[id] # NoRow
        BY <1>4 DEF Unlink
    <2>2. drive[id].parent \in Folders
        BY <1>0, <2>1, OnDriveTyped DEF TypeInv, IndInv
    <2>3. listing' = [e \in Folders |->
                        IF e \in {drive[id].parent} THEN NoListing ELSE listing[e]]
        BY <1>0, <1>4, <2>2, UnlinkEffect
    <2>4. {drive[id].parent} \in SUBSET Folders
        BY <2>2
    <2> QED
        BY <1>2, <2>3, <2>4
<1>5. CASE Install
    <2>1. PICK d \in Folders : d = fetch.parent
        BY <1>0, <1>5, InstallEffect
    <2>2. \A e \in Folders :
             Entered(e)' = IF e = d THEN IdsOf(fetch.files) ELSE Entered(e)
        BY <1>0, <1>5, <2>1, InstallEffect
    <2>3. \A id \in DriveIds : OnDrive(id, d) => id \in IdsOf(fetch.files)
        BY <1>0, <2>1 DEF ShownInv, FetchWhole
    <2> QED
        BY <2>2, <2>3 DEF StaysListed
<1>6. CASE Replace
    <2>1. uploader.phase = "replace"
        BY <1>6 DEF Replace
    <2>2. PICK old \in PendingIds, new \in SpareIds, d \in Folders :
             /\ old = uploader.pid /\ new = uploader.newId /\ d = uploader.to.parent
             /\ new \notin Entered(d)
        BY <1>0, <2>1, NewArrival
    <2>3. /\ \A e \in Folders : listing'[e] # NoListing <=> listing[e] # NoListing
          /\ \A e \in Folders \ {d} : Entered(e)' = Entered(e)
          /\ listing[d] # NoListing /\ new \notin Entered(d) /\ Once(d) =>
                Entered(d)' = (Entered(d) \ {old}) \cup {new}
        BY <1>0, <1>6, <2>2, ReplaceEffect, Shape
    <2>4. listing[d] # NoListing => Once(d)
        BY <1>0 DEF ListInv, ListingsPlaced, Placed, Once
    <2> QED
        BY <1>0, <2>2, <2>3, <2>4 DEF StaysListed
<1>7. CASE Forget
    <2>1. uploader.phase = "forget"
        BY <1>7 DEF Forget
    <2>2. PICK pid \in PendingIds, d \in Folders :
             pid = uploader.pid /\ d = uploader.to.parent
        BY <1>0, <2>1, UploadHome
    <2>3. \A e \in Folders :
             Entered(e)' = IF e = d THEN Entered(e) \ {pid} ELSE Entered(e)
        BY <1>0, <1>7, <2>2, ForgetEffect, Shape
    <2> QED
        BY <1>0, <2>3 DEF StaysListed
<1>8. CASE Remount
    <2>1. listing' = [e \in Folders |-> IF e \in Folders THEN NoListing ELSE listing[e]]
        BY <1>8 DEF Remount
    <2> QED
        BY <1>2, <2>1
<1>9. CASE UNCHANGED listing
    BY <1>9 DEF StaysListed, Entered
<1>10. CASE Aside
    BY <1>9, <1>10, AsideKeeps
<1>11. CASE FetchStep
    <2>1. ASSUME NEW id \in DriveIds, NumberListed(id) PROVE StaysListed
        BY <1>10, <2>1 DEF Aside
    <2> QED
        BY <1>5, <1>9, <1>11, <2>1 DEF FetchStep, Ask, Merge, memory
<1>12. CASE UploaderStep
    <2>1. CASE Reread \/ SendFails \/ Finalize \/ Abandon
        BY <1>10, <2>1 DEF Aside
    <2>2. ASSUME NEW pid \in PendingIds, Pick(pid) PROVE StaysListed
        BY <1>10, <2>2 DEF Aside
    <2>3. ASSUME NEW new \in SpareIds, CreateFile(new) PROVE StaysListed
        BY <1>9, <2>3 DEF CreateFile, memory
    <2> QED
        BY <1>6, <1>7, <1>12, <2>1, <2>2, <2>3 DEF UploaderStep
<1>13. ASSUME NEW d \in Folders, NEW name \in RawNames, NEW id \in DriveIds,
              MoveElsewhere(id, d, name)
       PROVE  StaysListed
    BY <1>9, <1>13 DEF MoveElsewhere, memory
<1>14. ASSUME NEW pid \in PendingIds, Release(pid) PROVE StaysListed
    BY <1>10, <1>14 DEF Aside
<1>15. ASSUME NEW id \in DriveIds, Follow(id) \/ FollowRemoval(id) PROVE StaysListed
    BY <1>10, <1>15 DEF Aside
<1>16. ASSUME NEW d \in Folders, NEW id \in Ids, Show(d, id) PROVE StaysListed
    BY <1>9, <1>16 DEF Show, memory
<1>17. CASE StoreRenamed \/ UNCHANGED vars
    BY <1>10, <1>17 DEF Aside
<1> QED
    BY <1>1, <1>3, <1>4, <1>8, <1>11, <1>12, <1>13, <1>14, <1>15, <1>16, <1>17
    DEF Next

\* A file that a listing shows, and that Drive still has there, does not vanish
\* when another listing of the folder takes its place: what was created, renamed
\* or uploaded in the meantime is not lost by a fetch.  The hypotheses are those
\* of NamesStayUnique.
THEOREM ListedFilesStay ==
    ASSUME RenamesWait, IdsFresh, FetchesWait, FilesStay
    PROVE  Spec => NeverVanishes
<1> DEFINE Stays ==
       \A d \in Folders, id \in DriveIds :
          (/\ Listed(d, id) /\ listing'[d] # NoListing
           /\ drive[id] # NoRow /\ drive[id].parent = d /\ drive'[id] = drive[id])
              => Has(listing'[d], id)
<1>1. Together /\ [Next]_vars => Stays
    <2>1. SUFFICES ASSUME Together, [Next]_vars, NEW d \in Folders, NEW id \in DriveIds,
                          Listed(d, id), listing'[d] # NoListing,
                          drive[id] # NoRow, drive[id].parent = d
                   PROVE  Has(listing'[d], id)
        OBVIOUS
    <2>2. id \in Entered(d) /\ OnDrive(id, d)
        BY <2>1 DEF Listed, Has, Positions, Entered, IdsOf, OnDrive
    <2>3. id \in Entered(d)'
        BY <2>1, <2>2, StaysListedStep DEF StaysListed
    <2> QED
        BY <2>1, <2>3 DEF Has, Positions, Entered, IdsOf
<1>2. NeverVanishes <=> [][Stays]_vars
    BY PTL DEF NeverVanishes
<1> QED
    BY <1>1, <1>2, TogetherInvariant, PTL DEF Spec

-----------------------------------------------------------------------------
(* A file is not in the way of its own name.                                *)

\* A step makes no copies, and no placeholder outlives the upload of its own.
LEMMA CopiesKept ==
    ASSUME CopiesArrive, UNCHANGED copies,
           \A pid \in PendingIds : home'[pid] # NoFolder => home[pid] # NoFolder,
           \A pid \in PendingIds :
              /\ home'[pid] # NoFolder /\ uploader.pid = pid
              /\ uploader.phase \in {"finalize", "replace"}
              => /\ uploader'.phase \in {"finalize", "replace"}
                 /\ uploader'.pid = uploader.pid /\ uploader'.newId = uploader.newId
    PROVE  CopiesArrive'
BY DEF CopiesArrive

\* The answer of create_file is not lost: the upload goes on with the file.
LEMMA CopiesCreateFile ==
    ASSUME TypeInv, ListInv, CopiesArrive, AnswersArrive,
           NEW new \in SpareIds, CreateFile(new)
    PROVE  CopiesArrive'
<1>1. /\ uploader.phase = "send"
      /\ copies' = [copies EXCEPT ![uploader.pid] = @ \cup {new}]
      /\ uploader' = Stage("finalize", uploader.to, new)
      /\ UNCHANGED home
    BY DEF CreateFile, AnswersArrive, memory
<1>2. uploader.pid \in PendingIds /\ copies \in [PendingIds -> SUBSET DriveIds]
    BY <1>1, UploadHome DEF TypeInv, IndInv, Typed
<1>3. /\ copies'[uploader.pid] = copies[uploader.pid] \cup {new}
      /\ \A p \in PendingIds \ {uploader.pid} : copies'[p] = copies[p]
    BY <1>1, <1>2
<1>4. \A p \in PendingIds : home[p] # NoFolder => copies[p] = {}
    BY <1>1 DEF CopiesArrive
<1> QED
    BY <1>1, <1>2, <1>3, <1>4 DEF CopiesArrive, Stage

\* A placeholder does not outlive its upload, after any step.
LEMMA CopiesStep ==
    ASSUME TypeInv, ListInv, Unseen, CopiesArrive, AnswersArrive, [Next]_vars
    PROVE  CopiesArrive'
<1>0. /\ home \in [PendingIds -> Folders \cup {NoFolder}]
      /\ \A pid \in PendingIds : \A folder : home' = [home EXCEPT ![pid] = folder] =>
            \A p \in PendingIds : home'[p] = IF p = pid THEN folder ELSE home[p]
    BY DEF TypeInv, IndInv, Typed
<1>1. ASSUME NEW d \in Folders, NEW name \in RawNames, NEW pid \in PendingIds,
             Create(pid, d, name)
      PROVE  CopiesArrive'
    <2>1. /\ copies[pid] = {} /\ home' = [home EXCEPT ![pid] = d]
          /\ UNCHANGED <<uploader, copies>>
        BY <1>1 DEF Create, Unseen
    <2>2. \A p \in PendingIds : home'[p] = IF p = pid THEN d ELSE home[p]
        BY <1>0, <2>1
    <2> QED
        BY <2>1, <2>2 DEF CopiesArrive
<1>2. ASSUME NEW d \in Folders, NEW name \in RawNames, NEW pid \in PendingIds,
             RenamePending(pid, d, name)
      PROVE  CopiesArrive'
    <2>1. /\ home[pid] # NoFolder /\ home' = [home EXCEPT ![pid] = d]
          /\ UNCHANGED <<uploader, copies>>
        BY <1>2 DEF RenamePending
    <2>2. \A p \in PendingIds : home'[p] # NoFolder => home[p] # NoFolder
        BY <1>0, <2>1
    <2> QED
        BY <2>1, <2>2, CopiesKept
<1>3. CASE Replace \/ Forget
    <2>1. /\ uploader.phase \in {"replace", "forget"}
          /\ home' = [home EXCEPT ![uploader.pid] = NoFolder]
          /\ uploader' = Resting /\ UNCHANGED copies
        BY <1>3 DEF Replace, Forget
    <2>2. uploader.pid \in PendingIds
        BY <2>1, UploadHome
    <2>3. \A p \in PendingIds :
             home'[p] = IF p = uploader.pid THEN NoFolder ELSE home[p]
        BY <1>0, <2>1, <2>2
    <2> QED
        BY <2>1, <2>3, CopiesKept
<1>4. CASE Remount
    BY <1>4 DEF Remount, CopiesArrive
<1>5. CASE UNCHANGED <<home, uploader, copies>>
    BY <1>5, CopiesKept
<1>6. CASE Aside
    <2>1. UNCHANGED <<home, copies>>
        BY <1>6, AsideKeeps
    <2>2. CASE UNCHANGED uploader
        BY <1>5, <2>1, <2>2
    <2>3. CASE uploader.phase \notin {"finalize", "replace"}
        BY <2>1, <2>3, CopiesKept
    <2>4. CASE Finalize
        BY <2>1, <2>4, CopiesKept DEF Finalize, Stage
    <2>5. CASE \E pid \in PendingIds : Release(pid) \/ Pick(pid)
        BY <2>2, <2>3, <2>5 DEF Release, Pick, Resting
    <2>6. CASE \E id \in DriveIds : Follow(id) \/ FollowRemoval(id) \/ NumberListed(id)
        BY <2>2, <2>6 DEF Follow, FollowRemoval, NumberListed
    <2>7. CASE StoreRenamed \/ UNCHANGED vars
        BY <2>2, <2>7 DEF StoreRenamed, vars
    <2>8. CASE Reread \/ SendFails \/ Abandon
        BY <2>3, <2>8 DEF Reread, SendFails, Abandon
    <2> QED
        BY <1>6, <2>4, <2>5, <2>6, <2>7, <2>8 DEF Aside
<1>7. CASE FetchStep
    <2>1. ASSUME NEW id \in DriveIds, NumberListed(id) PROVE CopiesArrive'
        BY <1>6, <2>1 DEF Aside
    <2> QED
        BY <1>5, <1>7, <2>1 DEF FetchStep, Ask, Merge, Install, memory
<1>8. CASE UploaderStep
    <2>1. CASE Reread \/ SendFails \/ Finalize \/ Abandon
        BY <1>6, <2>1 DEF Aside
    <2>2. ASSUME NEW pid \in PendingIds, Pick(pid) PROVE CopiesArrive'
        BY <1>6, <2>2 DEF Aside
    <2> QED
        BY <1>3, <1>8, <2>1, <2>2, CopiesCreateFile DEF UploaderStep
<1>9. ASSUME NEW d \in Folders, NEW name \in RawNames, NEW id \in DriveIds,
             RenameFile(id, d, name) \/ MoveElsewhere(id, d, name)
      PROVE  CopiesArrive'
    BY <1>5, <1>9 DEF RenameFile, MoveElsewhere, memory
<1>10. ASSUME NEW pid \in PendingIds, Release(pid) PROVE CopiesArrive'
    BY <1>6, <1>10 DEF Aside
<1>11. ASSUME NEW id \in DriveIds, Unlink(id) \/ Follow(id) \/ FollowRemoval(id)
       PROVE  CopiesArrive'
    <2>1. CASE Unlink(id)
        BY <1>5, <2>1 DEF Unlink
    <2>2. CASE Follow(id) \/ FollowRemoval(id)
        BY <1>6, <2>2 DEF Aside
    <2> QED
        BY <1>11, <2>1, <2>2
<1>12. ASSUME NEW d \in Folders, NEW id \in Ids, Show(d, id) PROVE CopiesArrive'
    BY <1>5, <1>12 DEF Show, memory
<1>13. CASE StoreRenamed \/ UNCHANGED vars
    BY <1>6, <1>13 DEF Aside
<1> QED
    BY <1>1, <1>2, <1>4, <1>7, <1>8, <1>9, <1>10, <1>11, <1>12, <1>13 DEF Next

\* The suffixes that a step gives.
SuffixNeeded ==
    \A id \in Ids :
        shown[id] = NoName /\ shown'[id] \notin RawNames \cup {NoName} =>
           \E d \in Folders, o \in Ids \ {id} :
              /\ Listed(d, id) /\ Listed(d, o)
              /\ shown'[o] = Front(shown'[id])
              /\ o \in PendingIds => id \notin copies[o]

\* Where names are given the upload is over.
LEMMA SuffixNeededStep ==
    ASSUME TypeInv, ListInv, CopiesArrive, [Next]_vars
    PROVE  SuffixNeeded
<1>1. ASSUME NEW d \in Folders, Resolves(d)
      PROVE  SuffixNeeded
    <2>1. /\ listing[d] # NoListing /\ Entered(d) \in SUBSET Ids
          /\ \A a \in Ids : (a \notin Entered(d) \/ shown[a] # NoName) =>
                shown'[a] = shown[a]
          /\ \A a \in Entered(d) :
                shown[a] = NoName /\ shown'[a] \notin RawNames \cup {NoName} =>
                   \E o \in Entered(d) \ {a} : shown'[o] = Front(shown'[a])
        BY <1>1, ResolveEffect DEF TypeInv
    <2>2. \A a \in Entered(d) : Listed(d, a)
        BY <2>1 DEF Listed, Has, Positions, Entered, IdsOf
    <2>3. SUFFICES ASSUME NEW id \in Ids, shown[id] = NoName,
                          shown'[id] \notin RawNames \cup {NoName}
                   PROVE  \E o \in Ids \ {id} :
                             /\ Listed(d, id) /\ Listed(d, o)
                             /\ shown'[o] = Front(shown'[id])
                             /\ o \in PendingIds => id \notin copies[o]
        BY DEF SuffixNeeded
    <2>4. id \in Entered(d)
        BY <2>1, <2>3
    <2>5. PICK o \in Entered(d) \ {id} : shown'[o] = Front(shown'[id])
        BY <2>1, <2>3, <2>4
    <2>6. ASSUME o \in PendingIds, id \in copies[o]
          PROVE  FALSE
        <3>1. home[o] = d /\ d # NoFolder
            BY <2>1, <2>5, <2>6, EnteredHome, NamesAssumption
        <3>2. /\ uploader.phase \in {"finalize", "replace"}
              /\ uploader.pid = o /\ uploader.newId = id
            BY <2>6, <3>1 DEF CopiesArrive
        <3>3. uploader.to.parent = d
            BY <3>1, <3>2, UploadHome
        <3>4. id \notin Entered(d)
            BY <3>2, <3>3 DEF ListInv, UploadPlaced
        <3> QED
            BY <2>4, <3>4
    <2> QED
        BY <2>1, <2>2, <2>4, <2>5, <2>6
<1>2. CASE UNCHANGED shown
    BY <1>2 DEF SuffixNeeded
<1>3. ASSUME NEW d \in Folders, NEW name \in RawNames, NEW pid \in PendingIds,
             Create(pid, d, name) \/ RenamePending(pid, d, name)
      PROVE  SuffixNeeded
    <2>1. CASE Create(pid, d, name)
        BY <1>2, <2>1 DEF Create
    <2>2. CASE RenamePending(pid, d, name)
        BY <1>1, <2>2, ResolvesWhereFound DEF TypeInv, IndInv
    <2> QED
        BY <1>3, <2>1, <2>2
<1>4. ASSUME NEW d \in Folders, NEW name \in RawNames, NEW id \in DriveIds,
             RenameFile(id, d, name) \/ MoveElsewhere(id, d, name)
      PROVE  SuffixNeeded
    <2>1. CASE RenameFile(id, d, name)
        BY <1>1, <2>1, ResolvesWhereFound DEF TypeInv, IndInv
    <2>2. CASE MoveElsewhere(id, d, name)
        BY <1>2, <2>2 DEF MoveElsewhere
    <2> QED
        BY <1>4, <2>1, <2>2
<1>5. ASSUME NEW pid \in PendingIds, Release(pid) PROVE SuffixNeeded
    BY <1>2, <1>5 DEF Release
<1>6. ASSUME NEW id \in DriveIds, Unlink(id) \/ Follow(id) \/ FollowRemoval(id)
      PROVE  SuffixNeeded
    <2>1. CASE Unlink(id)
        BY <1>1, <2>1, ResolvesWhereFound DEF TypeInv, IndInv
    <2>2. CASE Follow(id) \/ FollowRemoval(id)
        BY <1>2, <2>2 DEF Follow, FollowRemoval
    <2> QED
        BY <1>6, <2>1, <2>2
<1>7. CASE FetchStep
    BY <1>2, <1>7 DEF FetchStep, Ask, NumberListed, Merge, Install
<1>8. CASE UploaderStep
    BY <1>2, <1>8
    DEF UploaderStep, Pick, Reread, SendFails, Finalize, Replace, Abandon, Forget,
        CreateFile
<1>9. CASE StoreRenamed \/ Remount \/ UNCHANGED vars
    BY <1>2, <1>9 DEF StoreRenamed, Remount, vars
<1>10. ASSUME NEW d \in Folders, NEW id \in Ids, Show(d, id) PROVE SuffixNeeded
    BY <1>1, <1>10, ResolvesWhereFound DEF TypeInv, IndInv
<1> QED
    BY <1>3, <1>4, <1>5, <1>6, <1>7, <1>8, <1>9, <1>10 DEF Next

\* A file gets a suffix only because another file of the folder has its name,
\* never because its own placeholder has it: the listing changes hands before
\* the real file is ever shown (replace_pending_id, resolve).  That is as long as
\* no listing is on its way while its folder gets or loses a file (FetchesWait),
\* no answer of create_file is lost (AnswersArrive), no placeholder is renamed
\* while it is uploaded (RenamesWait), and no placeholder id is given out again
\* (IdsFresh); a file may go to where its name is shown.
THEOREM OwnNamesAreFree ==
    ASSUME RenamesWait, IdsFresh, FetchesWait, AnswersArrive
    PROVE  Spec => OwnNameIsFree
<1> DEFINE Both == TypeInv /\ ListInv /\ Unseen /\ CopiesArrive
<1>1. Init => Both
    <2>1. Init => CopiesArrive
        BY DEF Init, CopiesArrive
    <2> QED
        BY <2>1, TypeInit, ListInit, UnseenInit
<1>2. Both /\ [Next]_vars => Both'
    BY TypeStep, ListStep, UnseenStep, CopiesStep
<1>3. Both /\ [Next]_vars => SuffixNeeded
    BY SuffixNeededStep
<1>4. OwnNameIsFree <=> [][SuffixNeeded]_vars
    BY PTL DEF OwnNameIsFree, SuffixNeeded
<1> QED
    BY <1>1, <1>2, <1>3, <1>4, PTL DEF Spec

=============================================================================
