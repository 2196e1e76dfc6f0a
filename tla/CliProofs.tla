------------------------------ MODULE CliProofs ------------------------------
(***************************************************************************)
(* Proofs about the commands of greentic-dw-cli, for any command lines,    *)
(* documents, catalogs, files and numbers of commands.                     *)
(***************************************************************************)
EXTENDS Cli, FiniteSetTheorems, SequenceTheorems, TLAPS

-----------------------------------------------------------------------------
(* Folds over sequences.  What a fold returns is found in a table of its   *)
(* values for the sets of positions; that there is one, for any number of  *)
(* positions, follows from there being no least number without.            *)

\* The two folds of the program: the components of a path are put or popped
\* one after the other (normalize_path), provider overrides put into a map
\* (apply_overrides).
Fold(what, acc, item) ==
  IF what = "path" THEN PopOrPush(acc, item) ELSE Put(acc, item.capability, item.provider)

\* What the table says of one set of positions: the last one is folded in last.
TableEntry(what, base, s, g, t) ==
  IF t = {} THEN base ELSE Fold(what, g[t \ {Max(t)}], s[Max(t)])

\* g is the table for the first n positions of s.
Table(what, base, s, n, g) ==
  g = [t \in SUBSET (1 .. n) |-> TableEntry(what, base, s, g, t)]

\* Every non-empty set of numbers has a least element.
LEMMA LeastNumber ==
  ASSUME NEW T \in SUBSET Nat, T # {} PROVE \E n \in T : \A m \in T : n <= m
<1>1. PICK n \in T : ~ \E y \in T : <<y, n>> \in OpToRel(<, Nat)
  BY WFMin, NatLessThanWellFounded
<1>2. ASSUME NEW m \in T PROVE n <= m
  <2>1. <<m, n>> \notin OpToRel(<, Nat)
    BY <1>1
  <2>2. ~(m < n)
    BY <2>1 DEF OpToRel
  <2>3. QED
    BY <2>2
<1>3. QED
  BY <1>2

\* The greatest position of a set that has n and nothing above it is n.
LEMMA MaxOf ==
  ASSUME NEW t, NEW n \in Nat, t \subseteq 1 .. n, n \in t PROVE Max(t) = n
<1>1. \A y \in t : n >= y
  OBVIOUS
<1>2. \A x \in t : (\A y \in t : x >= y) => x = n
  BY <1>1
<1>3. QED
  BY <1>1, <1>2 DEF Max

\* There is a table for every number of positions.
LEMMA TablesExist ==
  ASSUME NEW what, NEW base, NEW s
  PROVE  \A n \in Nat : \E g : Table(what, base, s, n, g)
<1> DEFINE Bad == {n \in Nat : ~ \E g : Table(what, base, s, n, g)}
<1> SUFFICES ASSUME Bad # {} PROVE FALSE
  OBVIOUS
<1>1. PICK n \in Bad : \A m \in Bad : n <= m
  BY LeastNumber
<1>2. n \in Nat /\ ~ \E g : Table(what, base, s, n, g)
  BY <1>1
<1>3. CASE n = 0
  <2>1. SUBSET (1 .. n) = {{}}
    BY <1>3
  <2>2. Table(what, base, s, n, [t \in {{}} |-> base])
    BY <2>1 DEF Table, TableEntry
  <2>3. QED
    BY <1>2, <2>2
<1>4. CASE n # 0
  <2>1. n - 1 \in Nat /\ n - 1 \notin Bad
    BY <1>1, <1>2, <1>4
  <2>2. PICK h : Table(what, base, s, n - 1, h)
    BY <2>1
  <2> DEFINE g == [t \in SUBSET (1 .. n) |->
                     IF n \in t THEN Fold(what, h[t \ {n}], s[n]) ELSE h[t]]
  <2>3. ASSUME NEW t \in SUBSET (1 .. n) PROVE g[t] = TableEntry(what, base, s, g, t)
    <3>1. CASE n \in t
      <4>1. Max(t) = n
        BY <1>2, <3>1, MaxOf
      <4>2. t \ {n} \in SUBSET (1 .. n) /\ n \notin t \ {n}
        OBVIOUS
      <4>3. g[t \ {n}] = h[t \ {n}] /\ g[t] = Fold(what, h[t \ {n}], s[n])
        BY <3>1, <4>2
      <4> HIDE DEF g
      <4>4. QED
        BY <3>1, <4>1, <4>3 DEF TableEntry
    <3>2. CASE n \notin t
      <4>1. t \in SUBSET (1 .. (n - 1))
        BY <1>2, <3>2
      <4>2. h[t] = TableEntry(what, base, s, h, t)
        BY <2>2, <4>1 DEF Table
      <4>3. t \ {Max(t)} \in SUBSET (1 .. n) /\ n \notin t \ {Max(t)}
        BY <3>2
      <4>4. g[t] = h[t] /\ g[t \ {Max(t)}] = h[t \ {Max(t)}]
        BY <3>2, <4>3
      <4> HIDE DEF g
      <4>5. QED
        BY <4>2, <4>4 DEF TableEntry
    <3>3. QED
      BY <3>1, <3>2
  <2>4. Table(what, base, s, n, g)
    BY <2>3 DEF Table
  <2>5. QED
    BY <1>2, <2>4
<1>5. QED
  BY <1>3, <1>4

\* The rows of a table, one below the other.
TableRows(what, base, s, n, g) ==
  /\ g[1 .. 0] = base
  /\ \A k \in 1 .. n : g[1 .. k] = Fold(what, g[1 .. (k - 1)], s[k])

\* A table has them.
LEMMA TableRow ==
  ASSUME NEW what, NEW base, NEW s, NEW n \in Nat, NEW g, Table(what, base, s, n, g)
  PROVE  TableRows(what, base, s, n, g)
<1>1. 1 .. 0 = {} /\ {} \in SUBSET (1 .. n)
  OBVIOUS
<1>2. g[1 .. 0] = base
  BY <1>1 DEF Table, TableEntry
<1>3. ASSUME NEW k \in 1 .. n PROVE g[1 .. k] = Fold(what, g[1 .. (k - 1)], s[k])
  <2>1. 1 .. k \in SUBSET (1 .. n) /\ 1 .. k # {} /\ k \in Nat /\ k \in 1 .. k
    OBVIOUS
  <2>2. Max(1 .. k) = k
    BY <2>1, MaxOf
  <2>3. (1 .. k) \ {k} = 1 .. (k - 1)
    BY <2>1
  <2>4. g[1 .. k] = TableEntry(what, base, s, g, 1 .. k)
    BY <2>1 DEF Table
  <2>5. QED
    BY <2>1, <2>2, <2>3, <2>4 DEF TableEntry
<1>4. QED
  BY <1>2, <1>3 DEF TableRows

\* The folds of the program are found in tables.
LEMMA PathFold ==
  ASSUME NEW s, NEW n, DOMAIN s = 1 .. n, \E g : Table("path", <<>>, s, n, g)
  PROVE  \E g : Table("path", <<>>, s, n, g) /\ FoldLeft(PopOrPush, <<>>, s) = g[1 .. n]
<1> DEFINE P(g) == g = [t \in SUBSET DOMAIN s |->
                          IF t = {} THEN <<>> ELSE PopOrPush(g[t \ {Max(t)}], s[Max(t)])]
<1>1. FoldLeft(PopOrPush, <<>>, s) = (CHOOSE g : P(g))[DOMAIN s]
  BY DEF FoldLeft, MapThenFoldSet
<1>2. \A g : P(g) <=> Table("path", <<>>, s, n, g)
  BY DEF Table, TableEntry, Fold
<1> HIDE DEF P
<1>3. P(CHOOSE g : P(g))
  BY <1>2
<1>4. QED
  BY <1>1, <1>2, <1>3

\* The same for overrides.
LEMMA PutFold ==
  ASSUME NEW s, NEW n, NEW base, DOMAIN s = 1 .. n, \E g : Table("put", base, s, n, g)
  PROVE  \E g : /\ Table("put", base, s, n, g)
                /\ FoldLeft(LAMBDA map, o : Put(map, o.capability, o.provider), base, s)
                     = g[1 .. n]
<1> DEFINE P(g) == g = [t \in SUBSET DOMAIN s |->
                          IF t = {} THEN base
                          ELSE Put(g[t \ {Max(t)}], s[Max(t)].capability, s[Max(t)].provider)]
<1>1. FoldLeft(LAMBDA map, o : Put(map, o.capability, o.provider), base, s) = (CHOOSE g : P(g))[DOMAIN s]
  BY DEF FoldLeft, MapThenFoldSet
<1>2. \A g : P(g) <=> Table("put", base, s, n, g)
  BY DEF Table, TableEntry, Fold
<1> HIDE DEF P
<1>3. P(CHOOSE g : P(g))
  BY <1>2
<1>4. QED
  BY <1>1, <1>2, <1>3

\* The values of a fold after each of the first n positions.
Rows(what, base, s, n, r) ==
  /\ r[0] = base
  /\ \A k \in 1 .. n : r[k] = Fold(what, r[k - 1], s[k])

\* The rows are in the table.
LEMMA RowsOfTable ==
  ASSUME NEW what, NEW base, NEW s, NEW n \in Nat, NEW g, Table(what, base, s, n, g)
  PROVE  Rows(what, base, s, n, [k \in 0 .. n |-> g[1 .. k]])
<1>1. TableRows(what, base, s, n, g)
  BY TableRow
<1>2. g[1 .. 0] = base /\ \A k \in 1 .. n : g[1 .. k] = Fold(what, g[1 .. (k - 1)], s[k])
  BY <1>1 DEF TableRows
<1> DEFINE r == [k \in 0 .. n |-> g[1 .. k]]
<1>3. \A k \in 0 .. n : r[k] = g[1 .. k]
  OBVIOUS
<1> HIDE DEF r
<1>4. r[0] = base
  <2>1. 0 \in 0 .. n
    OBVIOUS
  <2>2. QED
    BY <1>2, <1>3, <2>1
<1>5. ASSUME NEW k \in 1 .. n PROVE r[k] = Fold(what, r[k - 1], s[k])
  <2>1. k \in 0 .. n /\ k - 1 \in 0 .. n
    OBVIOUS
  <2>2. QED
    BY <1>2, <1>3, <2>1
<1>6. Rows(what, base, s, n, r)
  BY <1>4, <1>5 DEF Rows
<1>7. QED
  BY <1>6 DEF r

\* Folds over sequences that begin alike begin alike.
LEMMA RowsAgree ==
  ASSUME NEW what, NEW base, NEW s, NEW t, NEW n \in Nat, \A i \in 1 .. n : s[i] = t[i],
         NEW q, NEW r, Rows(what, base, s, n, q), Rows(what, base, t, n, r)
  PROVE  q[n] = r[n]
<1> DEFINE Bad == {k \in Nat : k <= n /\ q[k] # r[k]}
<1> SUFFICES ASSUME Bad # {} PROVE FALSE
  OBVIOUS
<1>1. PICK k \in Bad : \A m \in Bad : k <= m
  BY LeastNumber
<1>2. k # 0
  BY <1>1 DEF Rows
<1>3. k - 1 \notin Bad /\ k - 1 \in Nat /\ k \in 1 .. n
  BY <1>1, <1>2
<1>4. q[k] = Fold(what, q[k - 1], s[k]) /\ r[k] = Fold(what, r[k - 1], t[k])
  BY <1>3 DEF Rows
<1>5. QED
  BY <1>1, <1>3, <1>4

-----------------------------------------------------------------------------
(* Paths.                                                                  *)

\* normalize_path on the components alone.
Normal(segments) == FoldLeft(PopOrPush, <<>>, segments)

\* The components of a path on disk before they are normalised.
Full(path) == IF path.absolute THEN path.segments ELSE Cwd \o path.segments

Paths(S) == [absolute : BOOLEAN, segments : Seq(S)]

\* The working directory is a path.
LEMMA CwdIn == ASSUME NEW S, STRING \subseteq S PROVE Cwd \in Seq(S)
BY CwdAssumption, SeqMonotonic

\* A normalised path is reached component by component.
LEMMA NormalRows ==
  ASSUME NEW S, NEW s \in Seq(S)
  PROVE  \E r : Rows("path", <<>>, s, Len(s), r) /\ Normal(s) = r[Len(s)]
<1>1. PICK n \in Nat : n = Len(s) /\ DOMAIN s = 1 .. n
  BY LenProperties
<1>2. PICK g : Table("path", <<>>, s, n, g) /\ FoldLeft(PopOrPush, <<>>, s) = g[1 .. n]
  BY <1>1, TablesExist, PathFold
<1>3. Rows("path", <<>>, s, n, [k \in 0 .. n |-> g[1 .. k]])
  BY <1>2, RowsOfTable
<1>4. [k \in 0 .. n |-> g[1 .. k]][n] = g[1 .. n]
  OBVIOUS
<1>5. QED
  BY <1>1, <1>2, <1>3, <1>4 DEF Normal

\* The last component is put or popped last.
LEMMA NormalAppend ==
  ASSUME NEW S, NEW s \in Seq(S), NEW x \in S, NEW t, t = Append(s, x)
  PROVE  Normal(t) = PopOrPush(Normal(s), x)
<1>1. PICK n \in Nat : n = Len(s)
  BY LenProperties
<1>2. t \in Seq(S) /\ Len(t) = n + 1 /\ t[n + 1] = x
  BY <1>1, AppendProperties
<1>3. \A i \in 1 .. n : s[i] = t[i]
  BY <1>1, AppendProperties
<1>4. PICK q : Rows("path", <<>>, s, n, q) /\ Normal(s) = q[n]
  BY <1>1, NormalRows
<1>5. PICK r : Rows("path", <<>>, t, n + 1, r) /\ Normal(t) = r[n + 1]
  BY <1>2, NormalRows
<1>6. Rows("path", <<>>, t, n, r)
  <2>1. \A k \in 1 .. n : k \in 1 .. (n + 1)
    OBVIOUS
  <2>2. QED
    BY <1>5, <2>1 DEF Rows
<1>7. q[n] = r[n]
  <2>1. Rows("path", <<>>, s, n, q)
    BY <1>4
  <2>2. QED
    BY ONLY <2>1, <1>3, <1>6, RowsAgree, n \in Nat
<1>8. n + 1 \in 1 .. (n + 1) /\ (n + 1) - 1 = n
  OBVIOUS
<1>9. r[n + 1] = Fold("path", r[n], t[n + 1])
  BY <1>5, <1>8 DEF Rows
<1>10. QED
  BY <1>2, <1>4, <1>5, <1>7, <1>9 DEF Fold

\* Of sequences there is always a shortest: empty, or longer than some other
\* sequence by one element.
LEMMA ShortestSequence ==
  ASSUME NEW S, NEW T \in SUBSET Seq(S), T # {}
  PROVE  \/ <<>> \in T
         \/ \E s \in Seq(S), x \in S : s \notin T /\ Append(s, x) \in T
<1> DEFINE Lengths == {Len(s) : s \in T}
<1>1. Lengths \in SUBSET Nat /\ Lengths # {}
  BY LenProperties
<1>2. PICK n \in Lengths : \A m \in Lengths : n <= m
  BY <1>1, LeastNumber
<1>3. PICK s \in T : Len(s) = n
  BY <1>2
<1>4. CASE s = <<>>
  BY <1>4
<1>5. CASE s # <<>>
  <2>1. PICK t \in Seq(S), x \in S : s = Append(t, x)
    BY <1>5, SequenceEmptyOrAppend
  <2>2. Len(t) \in Nat /\ n = Len(t) + 1
    BY <1>3, <2>1, AppendProperties, LenProperties
  <2>3. ~(n <= Len(t))
    BY <2>2
  <2>4. t \notin T
    BY <1>2, <2>3
  <2>5. QED
    BY <2>1, <2>4
<1>6. QED
  BY <1>4, <1>5

\* The first n elements of a longer sequence.
LEMMA Beginning ==
  ASSUME NEW S, NEW t, NEW n \in Nat, \A i \in 1 .. n : t[i] \in S
  PROVE  /\ SubSeq(t, 1, n) \in Seq(S)
         /\ Len(SubSeq(t, 1, n)) = n
         /\ \A i \in 1 .. n : SubSeq(t, 1, n)[i] = t[i]
<1>1. /\ SubSeq(t, 1, n) \in Seq(S)
      /\ Len(SubSeq(t, 1, n)) = IF 1 <= n THEN n - 1 + 1 ELSE 0
      /\ \A i \in 1 .. n - 1 + 1 : SubSeq(t, 1, n)[i] = t[1 + i - 1]
  BY SubSeqProperties
<1>2. QED
  BY <1>1

\* Without its last element, a sequence is the rest.
LEMMA FrontOfAppend ==
  ASSUME NEW S, NEW s \in Seq(S), NEW x \in S, NEW t, t = Append(s, x)
  PROVE  Front(t) = s /\ Last(t) = x /\ t # <<>> /\ t \in Seq(S)
<1>1. PICK n \in Nat : n = Len(s)
  BY LenProperties
<1>2. t \in Seq(S) /\ Len(t) = n + 1 /\ t[n + 1] = x /\ t # <<>> /\ \A i \in 1 .. n : t[i] = s[i]
  BY <1>1, AppendProperties
<1>3. \A i \in 1 .. n : t[i] \in S
  BY <1>1, <1>2, ElementOfSeq
<1>10. /\ SubSeq(t, 1, n) \in Seq(S)
       /\ Len(SubSeq(t, 1, n)) = n
       /\ \A i \in 1 .. n : SubSeq(t, 1, n)[i] = t[i]
  BY ONLY <1>3, n \in Nat, Beginning
<1>4. PICK u : u = SubSeq(t, 1, n) /\ u \in Seq(S) /\ Len(u) = n /\ \A i \in 1 .. n : u[i] = t[i]
  BY <1>10
<1>5. u = s
  BY <1>1, <1>2, <1>4, SeqEqual
<1>6. (n + 1) - 1 = n
  OBVIOUS
<1>7. QED
  BY <1>2, <1>4, <1>5, <1>6 DEF Front, Last

\* Nothing is left to normalise in the empty path.
LEMMA NormalEmpty == Normal(<<>>) = <<>>
<1>1. <<>> \in Seq(STRING) /\ Len(<<>>) = 0
  BY EmptySeq
<1>2. PICK r : Rows("path", <<>>, <<>>, 0, r) /\ Normal(<<>>) = r[0]
  BY <1>1, NormalRows
<1>3. QED
  BY <1>2 DEF Rows

\* A path stays a path when it is normalised.
LEMMA NormalType ==
  ASSUME NEW S, NEW s \in Seq(S) PROVE Normal(s) \in Seq(S)
<1> DEFINE Bad == {t \in Seq(S) : Normal(t) \notin Seq(S)}
<1> SUFFICES ASSUME Bad # {} PROVE FALSE
  OBVIOUS
<1>1. <<>> \notin Bad
  BY NormalEmpty, EmptySeq
<1>2. PICK t \in Seq(S), x \in S : t \notin Bad /\ Append(t, x) \in Bad
  BY <1>1, ShortestSequence
<1>3. PICK n : n = Normal(t) /\ n \in Seq(S)
  BY <1>2
<1>4. Normal(Append(t, x)) = PopOrPush(n, x)
  BY <1>3, NormalAppend
<1>5. n # <<>> => Front(n) \in Seq(S)
  <2> SUFFICES ASSUME n # <<>> PROVE Front(n) \in Seq(S)
    OBVIOUS
  <2>1. PICK u \in Seq(S), y \in S : n = Append(u, y)
    BY <1>3, SequenceEmptyOrAppend
  <2>2. QED
    BY <2>1, FrontOfAppend, ZenonT(60)
<1>6. Append(n, x) \in Seq(S)
  BY <1>3, AppendProperties
<1>7. PopOrPush(n, x) \in Seq(S)
  BY <1>3, <1>5, <1>6 DEF PopOrPush
<1>8. QED
  BY <1>2, <1>4, <1>7

\* A path without ".." is normalised.
LEMMA NormalOfClean ==
  ASSUME NEW S, NEW s \in Seq(S), \A i \in DOMAIN s : s[i] # ".." PROVE Normal(s) = s
<1> DEFINE Clean(t) == \A i \in 1 .. Len(t) : t[i] # ".."
           Bad == {t \in Seq(S) : Clean(t) /\ Normal(t) # t}
<1>1. ASSUME Bad # {} PROVE FALSE
  <2>1. <<>> \notin Bad
    BY NormalEmpty
  <2>2. PICK t \in Seq(S), x \in S : t \notin Bad /\ Append(t, x) \in Bad
    BY <1>1, <2>1, ShortestSequence
  <2>3. PICK n \in Nat : n = Len(t)
    BY LenProperties
  <2> DEFINE u == Append(t, x)
  <2>10. Clean(u) /\ Normal(u) # u
    BY <2>2
  <2>4. /\ Len(u) = n + 1 /\ u[n + 1] = x
        /\ \A i \in 1 .. n : u[i] = t[i]
    BY <2>3, AppendProperties
  <2>5. x # ".."
    BY <2>10, <2>4
  <2>6. Clean(t)
    BY <2>3, <2>10, <2>4
  <2>7. Normal(t) = t
    BY <2>2, <2>6
  <2>8. Normal(u) = PopOrPush(t, x)
    BY <2>7, NormalAppend
  <2>9. QED
    BY <2>10, <2>5, <2>8 DEF PopOrPush
<1>2. Clean(s)
  BY LenProperties
<1>3. QED
  BY <1>1, <1>2

\* Where a path leads is its normalised components.
LEMMA OnDiskIsNormal ==
  ASSUME NEW S, STRING \subseteq S, NEW path \in Paths(S)
  PROVE  /\ Full(path) \in Seq(S)
         /\ OnDisk(path) = Normal(Full(path))
         /\ OnDisk(path) \in Seq(S)
<1>1. path.segments \in Seq(S) /\ path.absolute \in BOOLEAN
  BY DEF Paths
<1>2. Full(path) \in Seq(S)
  BY <1>1, CwdIn, ConcatProperties DEF Full
<1>3. OnDisk(path) = Normal(Full(path))
  <2>1. CASE path.absolute
    <3>1. OnDisk(path) = Normalize(path).segments
      BY <2>1 DEF OnDisk, Join
    <3>2. Normalize(path).segments = Normal(path.segments)
      BY DEF Normalize, Normal, Paths
    <3>3. QED
      BY <2>1, <3>1, <3>2 DEF Full
  <2>2. CASE ~path.absolute
    <3> DEFINE joined == [absolute |-> TRUE, segments |-> Cwd \o path.segments]
    <3>1. Join(Rooted(Cwd), path) = joined
      BY <2>2 DEF Join, Rooted
    <3>2. Normalize(joined).segments = Normal(Cwd \o path.segments)
      BY DEF Normalize, Normal
    <3>3. QED
      BY <2>2, <3>1, <3>2 DEF Full, OnDisk
  <2>3. QED
    BY <1>1, <2>1, <2>2
<1>4. QED
  BY <1>2, <1>3, NormalType

\* One more component is put or popped on disk.
LEMMA OnDiskAppend ==
  ASSUME NEW S, STRING \subseteq S, NEW base \in Paths(S), NEW x \in S, NEW path \in Paths(S),
         path.absolute = base.absolute, path.segments = Append(base.segments, x)
  PROVE  OnDisk(path) = PopOrPush(OnDisk(base), x)
<1>1. base.segments \in Seq(S)
  BY DEF Paths
<1>2. Full(path) = Append(Full(base), x)
  <2>1. CASE base.absolute
    BY <2>1 DEF Full
  <2>2. CASE ~base.absolute
    <3>1. <<x>> \in Seq(S)
      OBVIOUS
    <3>2. path.segments = base.segments \o <<x>>
      BY <1>1, AppendIsConcat
    <3>3. Cwd \o (base.segments \o <<x>>) = (Cwd \o base.segments) \o <<x>>
      <4>1. \A U : \A s, t, u \in Seq(U) : s \o (t \o u) = (s \o t) \o u
        BY ConcatAssociative
      <4>2. QED
        <5>1. PICK c, b, e \in Seq(S) : c = Cwd /\ b = base.segments /\ e = <<x>>
          BY <1>1, <3>1, CwdIn
        <5>2. c \o (b \o e) = (c \o b) \o e
          BY <4>1
        <5>3. QED
          BY <5>1, <5>2, Zenon
    <3>4. Cwd \o base.segments \in Seq(S)
      BY <1>1, CwdIn, ConcatProperties
    <3>5. (Cwd \o base.segments) \o <<x>> = Append(Cwd \o base.segments, x)
      BY <3>4, AppendIsConcat
    <3>6. QED
      BY <2>2, <3>2, <3>3, <3>5 DEF Full
  <2>3. QED
    BY <2>1, <2>2
<1>3. PICK s \in Seq(S) : s = Full(base)
  BY OnDiskIsNormal
<1>4. PICK t \in Seq(S) : t = Full(path)
  BY OnDiskIsNormal
<1>5. Normal(t) = PopOrPush(Normal(s), x)
  BY <1>2, <1>3, <1>4, NormalAppend
<1>6. QED
  BY <1>3, <1>4, <1>5, OnDiskIsNormal

\* A path is its parent and a name.
LEMMA ParentAndName ==
  ASSUME NEW S, STRING \subseteq S, NEW path \in Paths(S), path.segments # <<>>
  PROVE  /\ Parent(path) \in Paths(S) /\ Last(path.segments) \in S
         /\ OnDisk(path) = PopOrPush(OnDisk(Parent(path)), Last(path.segments))
<1>1. PICK s \in Seq(S), x \in S : path.segments = Append(s, x)
  BY SequenceEmptyOrAppend DEF Paths
<1>2. Front(path.segments) = s /\ Last(path.segments) = x
  BY <1>1, FrontOfAppend
<1>3. Parent(path) = [absolute |-> path.absolute, segments |-> s]
  BY <1>2 DEF Parent, Paths
<1>4. Parent(path) \in Paths(S)
  BY <1>3 DEF Paths
<1>5. OnDisk(path) = PopOrPush(OnDisk(Parent(path)), x)
  <2>1. PICK base \in Paths(S) : base = Parent(path)
    BY <1>4
  <2>2. base.absolute = path.absolute /\ base.segments = s
    BY <1>3, <2>1
  <2>3. QED
    BY <1>1, <2>1, <2>2, OnDiskAppend
<1>6. QED
  BY <1>2, <1>4, <1>5

\* A file named in a directory lies there.
LEMMA NamedIn ==
  ASSUME NEW S, STRING \subseteq S, NEW base \in Paths(S), NEW x \in S, x # ".."
  PROVE  LET path == OnDisk(Join(base, Relative(<<x>>))) IN
         /\ Front(path) = OnDisk(base) /\ Last(path) = x
<1> DEFINE joined == [absolute |-> base.absolute, segments |-> Append(base.segments, x)]
<1>1. base.segments \in Seq(S) /\ base = [absolute |-> base.absolute, segments |-> base.segments]
  BY DEF Paths
<1>2. base.segments \o <<x>> = Append(base.segments, x)
  BY <1>1, AppendIsConcat
<1>3. Join(base, Relative(<<x>>)) = joined
  BY <1>1, <1>2 DEF Join, Relative
<1>4. Append(base.segments, x) \in Seq(S)
  BY <1>1, AppendProperties
<1>5. joined \in Paths(S)
  BY <1>4 DEF Paths
<1>6. OnDisk(joined) = PopOrPush(OnDisk(base), x)
  <2>1. PICK path \in Paths(S) : path = joined
    BY <1>5
  <2>2. path.absolute = base.absolute /\ path.segments = Append(base.segments, x)
    BY <2>1
  <2> HIDE DEF joined
  <2>3. QED
    BY <2>1, <2>2, OnDiskAppend
<1>7. PICK d \in Seq(S) : d = OnDisk(base)
  BY OnDiskIsNormal
<1>8. OnDisk(joined) = Append(d, x)
  BY <1>6, <1>7 DEF PopOrPush
<1>9. Front(OnDisk(joined)) = d /\ Last(OnDisk(joined)) = x
  <2>1. Front(Append(d, x)) = d /\ Last(Append(d, x)) = x
    BY FrontOfAppend
  <2>2. QED
    BY ONLY <1>8, <2>1
<1>10. QED
  BY <1>3, <1>7, <1>9

\* The empty path is the working directory.
LEMMA EmptyPathIsCwd == Relative(<<>>) \in Paths(STRING) /\ OnDisk(Relative(<<>>)) = Cwd
<1>1. <<>> \in Seq(STRING)
  BY EmptySeq
<1>2. Relative(<<>>) \in Paths(STRING)
  BY <1>1 DEF Relative, Paths
<1>3. Full(Relative(<<>>)) = Cwd
  BY CwdAssumption, ConcatEmptySeq DEF Full, Relative
<1>4. Normal(Cwd) = Cwd
  BY CwdAssumption, NormalOfClean
<1>5. QED
  BY <1>2, <1>3, <1>4, OnDiskIsNormal

-----------------------------------------------------------------------------
(* The inductive invariant of the worker's commands.                       *)

\* The packer's file and its documents have names, one after the other.
FileShaped(file) ==
  file.type = "spec" =>
    /\ file.pack # ".."
    /\ Len(file.documents) \in Nat
    /\ DOMAIN file.documents = 1 .. Len(file.documents)

FilesShaped(files) == \A p \in DOMAIN files : FileShaped(files[p])

\* A command runs from its first step on, and has an outcome when it has ended.
CommandFollowsStep ==
  /\ step \in {"none", "scaffold", "explain", "load", "check", "documents", "finalize", "ended"}
  /\ step # "none" => \E c \in WorkerCommands : command = <<c>>
  /\ step = "none" => command = <<>>
  /\ step = "ended" => outcome = <<outcome[1]>>
  /\ step # "ended" => outcome = <<>>
  /\ step = "scaffold" => command[1].do = "init"

\* Until the packer has run, or run_init has written, nothing has changed.
UntouchedSoFar ==
  /\ FilesShaped(disk) /\ FilesShaped(before)
  /\ step \in {"none", "scaffold", "explain", "load", "check", "documents"} => built = <<>>
  /\ step \in {"scaffold", "explain", "load", "check", "documents"} => disk = before
  /\ step = "ended" /\ built = <<>> => disk = before \/ command[1].do = "init"
  /\ step = "finalize" => built # <<>>

\* The spec that was read is the one that lay there when the command began.
SpecIsTheFile ==
  /\ OnDisk(SpecFile) \in DOMAIN before
  /\ before[OnDisk(SpecFile)].type = "spec"
  /\ spec = <<before[OnDisk(SpecFile)]>>

SpecFollowsStep ==
  /\ step = "load" => texts = <<>>
  /\ step \in {"check", "documents"} \/ built # <<>> => SpecIsTheFile
  /\ step = "check" => texts = <<>>

\* The documents read so far, each as it lay beside the spec.
TextsAreDocuments ==
  /\ spec[1].valid
  /\ IsList(texts) /\ Len(texts) <= Len(spec[1].documents)
  /\ \A i \in 1 .. Len(texts) :
       /\ DocumentPath(spec[1].documents[i]) \in DOMAIN before
       /\ texts[i].text = before[DocumentPath(spec[1].documents[i])]
       /\ texts[i].text.type # "binary"

DocumentsFollowStep == step = "documents" \/ built # <<>> => TextsAreDocuments

\* The files after the packer, and after the pack was moved.
Pack == [type |-> "pack", spec |-> spec[1], knowledge |-> texts]
Assembled == [p \in DOMAIN before \cup {built} |-> IF p = built THEN Pack ELSE before[p]]
Renamed(to) ==
  [p \in (DOMAIN Assembled \ {built}) \cup {to} |-> IF p = to THEN Pack ELSE Assembled[p]]

\* Where the pack lies and how the command ended.
PackFollowsStep ==
  built # <<>> =>
    /\ step \in {"finalize", "ended"}
    /\ built = PackPath /\ Len(texts) = Len(spec[1].documents)
    /\ \/ disk = Assembled /\ step = "finalize"
       \/ disk = Assembled /\ step = "ended" /\ outcome[1].error # {}
       \/ /\ disk = Assembled /\ step = "ended" /\ outcome[1].path = built
          /\ \A o \in command[1].out : NamesDirectory(o)
       \/ /\ step = "ended"
          /\ \E o \in command[1].out :
               /\ ~NamesDirectory(o)
               /\ outcome[1].path = OnDisk(o.path)
               /\ disk = Renamed(OnDisk(o.path))

WorkerInv ==
  /\ CommandFollowsStep /\ UntouchedSoFar /\ SpecFollowsStep
  /\ DocumentsFollowStep /\ PackFollowsStep

\* The invariant holds before the first command.
LEMMA WorkerInvInit == WorkerInit => WorkerInv
<1> SUFFICES ASSUME WorkerInit PROVE WorkerInv
  OBVIOUS
<1>1. disk = FirstDisk /\ before = FirstDisk /\ command = <<>> /\ step = "none"
      /\ texts = <<>> /\ built = <<>> /\ outcome = <<>>
  BY DEF WorkerInit
<1>2. FilesShaped(FirstDisk)
  BY WorkerAssumption DEF FilesShaped, FileShaped
<1>3. CommandFollowsStep
  BY <1>1 DEF CommandFollowsStep
<1>4. UntouchedSoFar
  BY <1>1, <1>2 DEF UntouchedSoFar
<1>5. SpecFollowsStep /\ DocumentsFollowStep /\ PackFollowsStep
  BY <1>1 DEF SpecFollowsStep, DocumentsFollowStep, PackFollowsStep
<1>6. QED
  BY <1>3, <1>4, <1>5 DEF WorkerInv

\* What the command, the spec and the texts determine stays with them.
LEMMA ReadingStays ==
  ASSUME UNCHANGED <<command, spec, before>>
  PROVE  /\ command[1]' = command[1] /\ SpecFile' = SpecFile
         /\ SpecIsTheFile' <=> SpecIsTheFile
         /\ PackPath' = PackPath
         /\ \A document : DocumentPath(document)' = DocumentPath(document)
         /\ texts' = texts => (TextsAreDocuments' <=> TextsAreDocuments)
<1>1. command[1]' = command[1] /\ SpecFile' = SpecFile
  BY DEF SpecFile
<1>2. SpecIsTheFile' <=> SpecIsTheFile
  BY <1>1 DEF SpecIsTheFile
<1>3. PackPath' = PackPath
  BY <1>1 DEF PackPath
<1>4. \A document : DocumentPath(document)' = DocumentPath(document)
  BY <1>1 DEF DocumentPath
<1>5. ASSUME texts' = texts PROVE TextsAreDocuments' <=> TextsAreDocuments
  <2>1. spec'[1] = spec[1] /\ before' = before /\ texts' = texts
    BY <1>5
  <2>2. \A i : DocumentPath(spec[1].documents[i])' = DocumentPath(spec[1].documents[i])
    BY <1>1 DEF DocumentPath
  <2>3. QED
    BY <2>1, <2>2 DEF TextsAreDocuments
<1>6. QED
  BY <1>1, <1>2, <1>3, <1>4, <1>5

\* And the pack with the place it was put.
LEMMA PackStays ==
  ASSUME UNCHANGED <<command, spec, before, texts, built>>
  PROVE  /\ Pack' = Pack /\ Assembled' = Assembled
         /\ \A to : Renamed(to)' = Renamed(to)
<1>1. Pack' = Pack
  BY DEF Pack
<1>2. Assembled' = Assembled
  BY <1>1 DEF Assembled
<1>3. QED
  BY <1>1, <1>2 DEF Renamed

\* A process starts on the files that are there.
LEMMA BeginKeeps ==
  ASSUME WorkerInv, Begin PROVE WorkerInv'
<1>1. PICK c \in WorkerCommands :
        /\ command' = <<c>>
        /\ step' = IF c.do = "init" THEN "scaffold"
                   ELSE IF c.schema \/ c.file = {} THEN "explain" ELSE "load"
  BY DEF Begin
<1>2. /\ before' = disk /\ disk' = disk
      /\ texts' = <<>> /\ built' = <<>> /\ outcome' = <<>>
  BY DEF Begin
<1>3. CommandFollowsStep'
  <2>1. command'[1] = c
    BY <1>1
  <2>2. QED
    BY <1>1, <1>2, <2>1 DEF CommandFollowsStep
<1>4. UntouchedSoFar'
  <2>1. FilesShaped(disk)
    BY DEF WorkerInv, UntouchedSoFar
  <2>2. FilesShaped(disk)' /\ FilesShaped(before)'
    BY <1>2, <2>1
  <2>3. QED
    BY <1>1, <1>2, <2>2 DEF UntouchedSoFar
<1>5. SpecFollowsStep' /\ DocumentsFollowStep' /\ PackFollowsStep'
  BY <1>1, <1>2 DEF SpecFollowsStep, DocumentsFollowStep, PackFollowsStep
<1>6. QED
  BY <1>3, <1>4, <1>5 DEF WorkerInv

\* A command that ends, with or without an why, and leaves the files as they
\* are; after the packer only finalize_pack_path ends one.
LEMMA EndKeeps ==
  ASSUME WorkerInv, NEW why, NEW path, Exit(why, path),
         UNCHANGED <<disk, command, spec, texts, built, before, ran>>,
         step \notin {"none", "ended"},
         step = "finalize" =>
           \/ why # {}
           \/ path = built /\ \A o \in command[1].out : NamesDirectory(o)
  PROVE  WorkerInv'
<1>1. outcome' = <<[error |-> why, path |-> path]>> /\ step' = "ended"
  BY DEF Exit
<1>2. outcome'[1].error = why /\ outcome'[1].path = path
  BY <1>1
<1>3. /\ command' = command /\ disk' = disk /\ before' = before /\ built' = built
      /\ texts' = texts /\ spec' = spec
  OBVIOUS
<1>4. CommandFollowsStep'
  <2>1. outcome' = <<outcome'[1]>>
    BY <1>1
  <2>2. \E c \in WorkerCommands : command' = <<c>>
    BY <1>3 DEF WorkerInv, CommandFollowsStep
  <2>3. QED
    BY <1>1, <2>1, <2>2 DEF CommandFollowsStep
<1>5. UntouchedSoFar'
  BY <1>1, <1>3 DEF WorkerInv, CommandFollowsStep, UntouchedSoFar
<1>6. SpecFollowsStep'
  BY <1>1, <1>3, ReadingStays DEF WorkerInv, SpecFollowsStep
<1>7. DocumentsFollowStep'
  BY <1>1, <1>3, ReadingStays DEF WorkerInv, DocumentsFollowStep
<1>8. PackFollowsStep'
  <2> SUFFICES ASSUME built # <<>> PROVE PackFollowsStep'
    BY <1>3 DEF PackFollowsStep
  <2>1. step = "finalize" /\ built = PackPath /\ Len(texts) = Len(spec[1].documents) /\ disk = Assembled
    BY DEF WorkerInv, PackFollowsStep
  <2>2. command'[1] = command[1] /\ PackPath' = PackPath /\ Assembled' = Assembled
    BY <1>3, ReadingStays, PackStays
  <2>3. \A o : NamesDirectory(o)' = NamesDirectory(o)
    BY DEF NamesDirectory
  <2>4. QED
    BY <1>1, <1>2, <1>3, <2>1, <2>2, <2>3 DEF PackFollowsStep
<1>9. QED
  BY <1>4, <1>5, <1>6, <1>7, <1>8 DEF WorkerInv

\* A refusal ends the command.
LEMMA RefuseKeeps ==
  ASSUME WorkerInv, NEW why, Refuse(why), step \notin {"none", "ended"} PROVE WorkerInv'
BY EndKeeps DEF Refuse

\* So does a success that has nothing to write.
LEMMA SucceedKeeps ==
  ASSUME WorkerInv, Succeed, step \notin {"none", "ended", "finalize"} PROVE WorkerInv'
BY EndKeeps DEF Succeed

\* run_init refuses, or writes the starter spec and ends.
LEMMA ScaffoldKeeps ==
  ASSUME WorkerInv, Scaffold PROVE WorkerInv'
<1>1. step = "scaffold" /\ built = <<>>
  BY DEF Scaffold, WorkerInv, UntouchedSoFar
<1>2. CASE Refuse("unknown_kind") \/ Refuse("spec_write")
  BY <1>1, <1>2, RefuseKeeps
<1>3. CASE ~(Refuse("unknown_kind") \/ Refuse("spec_write"))
  <2>1. PICK to, kind :
          /\ disk' = WithFile(to, StarterSpec(kind))
          /\ Exit({}, to)
          /\ UNCHANGED <<command, spec, texts, built, before, ran>>
    BY <1>3 DEF Scaffold
  <2>2. step' = "ended" /\ outcome' = <<outcome'[1]>>
    BY <2>1 DEF Exit
  <2>3. \E c \in WorkerCommands : command = <<c>> /\ c.do = "init"
    <3>1. PICK c \in WorkerCommands : command = <<c>>
      BY <1>1 DEF WorkerInv, CommandFollowsStep
    <3>2. command[1].do = "init"
      BY <1>1 DEF WorkerInv, CommandFollowsStep
    <3>3. QED
      BY <3>1, <3>2
  <2>4. CommandFollowsStep'
    BY <2>1, <2>2, <2>3 DEF CommandFollowsStep
  <2>5. FilesShaped(disk)'
    <3>1. FilesShaped(disk)
      BY DEF WorkerInv, UntouchedSoFar
    <3>2. FileShaped(StarterSpec(kind))
      <4>1. PICK file : file = StarterSpec(kind)
        OBVIOUS
      <4>2. file.pack = "my-worker.gtpack" /\ file.documents = <<>>
        BY <4>1 DEF StarterSpec
      <4>3. file.pack # ".."
        BY <4>2
      <4>4. Len(file.documents) = 0 /\ DOMAIN file.documents = 1 .. 0
        <5>1. \A s \in Seq(STRING) : DOMAIN s = 1 .. Len(s)
          BY LenProperties
        <5>2. <<>> \in Seq(STRING) /\ Len(<<>>) = 0
          BY EmptySeq
        <5>3. PICK s \in Seq(STRING) : s = <<>> /\ Len(s) = 0 /\ DOMAIN s = 1 .. 0
          BY <5>1, <5>2
        <5>4. QED
          BY <4>2, <5>3
      <4>5. QED
        BY <4>1, <4>3, <4>4 DEF FileShaped
    <3>3. disk' = [p \in DOMAIN disk \cup {to} |-> IF p = to THEN StarterSpec(kind) ELSE disk[p]]
      BY <2>1 DEF WithFile
    <3>4. ASSUME NEW p \in DOMAIN disk' PROVE FileShaped(disk'[p])
      <4>1. CASE p = to
        BY <3>2, <3>3, <4>1
      <4>2. CASE p # to
        <5>1. p \in DOMAIN disk /\ disk'[p] = disk[p]
          BY <3>3, <4>2
        <5>2. QED
          BY <3>1, <5>1 DEF FilesShaped
      <4>3. QED
        BY <4>1, <4>2
    <3>5. QED
      BY <3>4 DEF FilesShaped
  <2>6. UntouchedSoFar'
    BY <1>1, <2>1, <2>2, <2>3, <2>5 DEF WorkerInv, UntouchedSoFar
  <2>7. SpecFollowsStep' /\ DocumentsFollowStep' /\ PackFollowsStep'
    BY <1>1, <2>1, <2>2 DEF SpecFollowsStep, DocumentsFollowStep, PackFollowsStep
  <2>8. QED
    BY <2>4, <2>6, <2>7 DEF WorkerInv
<1>4. QED
  BY <1>2, <1>3

\* The spec is read from the files as they were when the command began.
LEMMA LoadSpecKeeps ==
  ASSUME WorkerInv, LoadSpec PROVE WorkerInv'
<1>1. step = "load" /\ built = <<>> /\ disk = before /\ texts = <<>>
  BY DEF LoadSpec, WorkerInv, UntouchedSoFar, SpecFollowsStep
<1>2. CASE Refuse("spec_read") \/ Refuse("spec_parse")
  BY <1>1, <1>2, RefuseKeeps
<1>3. CASE ~(Refuse("spec_read") \/ Refuse("spec_parse"))
  <2>1. /\ OnDisk(SpecFile) \in DOMAIN disk /\ disk[OnDisk(SpecFile)].type = "spec"
        /\ spec' = <<disk[OnDisk(SpecFile)]>>
        /\ step' = "check"
        /\ UNCHANGED <<disk, command, texts, built, outcome, before, ran>>
    BY <1>3 DEF LoadSpec
  <2>2. CommandFollowsStep' /\ UntouchedSoFar'
    BY <1>1, <2>1 DEF WorkerInv, CommandFollowsStep, UntouchedSoFar
  <2>3. SpecIsTheFile'
    <3>1. SpecFile' = SpecFile
      BY <2>1 DEF SpecFile
    <3>2. QED
      BY <1>1, <2>1, <3>1 DEF SpecIsTheFile
  <2>4. SpecFollowsStep' /\ DocumentsFollowStep' /\ PackFollowsStep'
    BY <1>1, <2>1, <2>3 DEF SpecFollowsStep, DocumentsFollowStep, PackFollowsStep
  <2>5. QED
    BY <2>2, <2>4 DEF WorkerInv
<1>4. QED
  BY <1>2, <1>3

\* The spec lies among the files, so its documents have numbers.
LEMMA SpecIsShaped ==
  ASSUME WorkerInv, SpecIsTheFile
  PROVE  /\ spec[1].pack # ".."
         /\ Len(spec[1].documents) \in Nat
         /\ DOMAIN spec[1].documents = 1 .. Len(spec[1].documents)
<1>1. spec[1] = before[OnDisk(SpecFile)] /\ spec[1].type = "spec"
  BY DEF SpecIsTheFile
<1>2. FileShaped(spec[1])
  BY <1>1 DEF WorkerInv, UntouchedSoFar, FilesShaped, SpecIsTheFile
<1>3. QED
  BY <1>1, <1>2 DEF FileShaped

\* A spec is valid before its documents are read.
LEMMA CheckSpecKeeps ==
  ASSUME WorkerInv, CheckSpec PROVE WorkerInv'
<1>1. step = "check" /\ built = <<>> /\ disk = before /\ texts = <<>> /\ SpecIsTheFile
  BY DEF CheckSpec, WorkerInv, UntouchedSoFar, SpecFollowsStep
<1>2. CASE Refuse("spec_invalid") \/ Succeed
  BY <1>1, <1>2, RefuseKeeps, SucceedKeeps
<1>3. CASE ~(Refuse("spec_invalid") \/ Succeed)
  <2>1. /\ spec[1].valid /\ step' = "documents"
        /\ UNCHANGED <<disk, command, spec, texts, built, outcome, before, ran>>
    BY <1>3 DEF CheckSpec
  <2>2. CommandFollowsStep' /\ UntouchedSoFar'
    BY <1>1, <2>1 DEF WorkerInv, CommandFollowsStep, UntouchedSoFar
  <2>3. SpecIsTheFile'
    BY <1>1, <2>1, ReadingStays
  <2>4. TextsAreDocuments
    <3>1. Len(spec[1].documents) \in Nat
      BY <1>1, SpecIsShaped
    <3>2. texts = <<>> /\ Len(texts) = 0 /\ IsList(texts)
      BY <1>1 DEF IsList
    <3>3. QED
      BY <2>1, <3>1, <3>2 DEF TextsAreDocuments
  <2>5. SpecFollowsStep' /\ DocumentsFollowStep' /\ PackFollowsStep'
    <3>1. TextsAreDocuments'
      BY <2>1, <2>4, ReadingStays
    <3>2. QED
      BY <1>1, <2>1, <2>3, <3>1 DEF SpecFollowsStep, DocumentsFollowStep, PackFollowsStep
  <2>6. QED
    BY <2>2, <2>5 DEF WorkerInv
<1>4. QED
  BY <1>2, <1>3

\* A document that can be read is there, and is not binary.
LEMMA DocumentRead ==
  ASSUME NEW path, DocumentError(path) = {}
  PROVE  path \in DOMAIN disk /\ disk[path].type # "binary"
BY DEF DocumentError

\* A sequence and one more element.
LEMMA OneMore ==
  ASSUME NEW s, IsList(s), NEW x
  PROVE  /\ IsList(Append(s, x)) /\ Len(Append(s, x)) = Len(s) + 1
         /\ \A i \in 1 .. Len(s) : Append(s, x)[i] = s[i]
         /\ Append(s, x)[Len(s) + 1] = x
<1>1. PICK n \in Nat : n = Len(s) /\ s = [i \in 1 .. n |-> s[i]]
  BY DEF IsList
<1> DEFINE S == {s[i] : i \in 1 .. n} \cup {x}
<1>2. \A i \in 1 .. n : s[i] \in S
  OBVIOUS
<1>3. x \in S
  OBVIOUS
<1> HIDE DEF S
<1>4. s \in Seq(S)
  <2>1. [i \in 1 .. n |-> s[i]] \in Seq(S)
    BY <1>2
  <2>2. QED
    BY <1>1, <2>1, Zenon
<1>5. PICK t : t = Append(s, x)
  OBVIOUS
<1>6. /\ t \in Seq(S) /\ Len(t) = n + 1
      /\ \A i \in 1 .. n : t[i] = s[i]
      /\ t[n + 1] = x
  BY <1>1, <1>3, <1>4, <1>5, AppendProperties
<1>7. IsList(t)
  BY <1>6, LenProperties DEF IsList
<1>8. QED
  BY <1>1, <1>5, <1>6, <1>7

\* The next document is read as it lay there when the command began.
LEMMA ReadDocumentKeeps ==
  ASSUME WorkerInv, ReadDocument PROVE WorkerInv'
<1>1. step = "documents" /\ built = <<>> /\ disk = before /\ SpecIsTheFile /\ TextsAreDocuments
  BY DEF ReadDocument, WorkerInv, UntouchedSoFar, SpecFollowsStep, DocumentsFollowStep
<1>2. CASE \E why : Refuse(why)
  BY <1>1, <1>2, RefuseKeeps
<1>3. CASE ~\E why : Refuse(why)
  <2> DEFINE path == DocumentPath(spec[1].documents[Len(texts) + 1])
  <2>1. PICK text :
          /\ Len(texts) < Len(spec[1].documents)
          /\ DocumentError(path) = {}
          /\ text.text = disk[path]
          /\ texts' = Append(texts, text)
          /\ UNCHANGED <<disk, command, step, spec, built, outcome, before, ran>>
    <3>1. PICK text : text = [id |-> Stems[Last(path)], text |-> disk[path]]
      OBVIOUS
    <3>2. text.text = disk[path]
      BY <3>1
    <3>3. QED
      BY <1>3, <3>1, <3>2 DEF ReadDocument
  <2>2. path \in DOMAIN before /\ text.text = before[path] /\ text.text.type # "binary"
    BY <1>1, <2>1, DocumentRead
  <2>3. CommandFollowsStep' /\ UntouchedSoFar'
    BY <1>1, <2>1 DEF WorkerInv, CommandFollowsStep, UntouchedSoFar
  <2>4. SpecIsTheFile'
    BY <1>1, <2>1, ReadingStays
  <2>5. TextsAreDocuments'
    <3>1. PICK n \in Nat : n = Len(texts)
      BY <1>1 DEF TextsAreDocuments, IsList
    <3>2. Len(spec[1].documents) \in Nat
      BY <1>1, SpecIsShaped
    <3>3. /\ IsList(texts') /\ Len(texts') = n + 1 /\ texts'[n + 1] = text
          /\ \A i \in 1 .. n : texts'[i] = texts[i]
      BY <1>1, <2>1, <3>1, OneMore DEF TextsAreDocuments
    <3>4. /\ spec[1].valid
          /\ \A i \in 1 .. n :
               /\ DocumentPath(spec[1].documents[i]) \in DOMAIN before
               /\ texts[i].text = before[DocumentPath(spec[1].documents[i])]
               /\ texts[i].text.type # "binary"
      BY <1>1, <3>1 DEF TextsAreDocuments
    <3>5. ASSUME NEW i \in 1 .. (n + 1)
          PROVE  /\ DocumentPath(spec[1].documents[i]) \in DOMAIN before
                 /\ texts'[i].text = before[DocumentPath(spec[1].documents[i])]
                 /\ texts'[i].text.type # "binary"
      <4>1. CASE i \in 1 .. n
        BY <3>3, <3>4, <4>1
      <4>2. CASE i \notin 1 .. n
        <5>1. i = n + 1
          BY <4>2
        <5>2. DocumentPath(spec[1].documents[i]) = path
          BY <3>1, <5>1
        <5> HIDE DEF path
        <5>3. QED
          BY <2>2, <3>3, <5>1, <5>2
      <4>3. QED
        BY <4>1, <4>2
    <3>6. \A document : DocumentPath(document)' = DocumentPath(document)
      BY <2>1, ReadingStays
    <3>7. n + 1 <= Len(spec[1].documents) /\ spec'[1] = spec[1] /\ before' = before
      BY <2>1, <3>1, <3>2
    <3> HIDE DEF path
    <3>8. QED
      BY <3>3, <3>4, <3>5, <3>6, <3>7 DEF TextsAreDocuments
  <2>6. SpecFollowsStep' /\ DocumentsFollowStep' /\ PackFollowsStep'
    BY <1>1, <2>1, <2>4, <2>5 DEF SpecFollowsStep, DocumentsFollowStep, PackFollowsStep
  <2>7. QED
    BY <2>3, <2>6 DEF WorkerInv
<1>4. QED
  BY <1>2, <1>3

\* The packer writes the whole pack next to the files as they were.
LEMMA AssemblePackKeeps ==
  ASSUME WorkerInv, AssemblePack PROVE WorkerInv'
<1>1. /\ step = "documents" /\ built = <<>> /\ disk = before /\ SpecIsTheFile /\ TextsAreDocuments
      /\ Len(texts) = Len(spec[1].documents)
  BY DEF AssemblePack, WorkerInv, UntouchedSoFar, SpecFollowsStep, DocumentsFollowStep
<1>2. CASE Refuse("assemble")
  BY <1>1, <1>2, RefuseKeeps
<1>3. CASE ~Refuse("assemble")
  <2>1. /\ Writable(PackPath)
        /\ disk' = WithFile(PackPath, Pack)
        /\ built' = PackPath
        /\ step' = "finalize"
        /\ UNCHANGED <<command, spec, texts, outcome, before, ran>>
    BY <1>3 DEF AssemblePack, Pack
  <2>2. built' # <<>> /\ PackPath' = PackPath /\ built' = PackPath'
    BY <2>1, ReadingStays DEF Writable
  <2>3. Pack' = Pack
    BY <2>1 DEF Pack
  <2>4. disk' = Assembled'
    <3>1. disk' = [p \in DOMAIN before \cup {PackPath} |-> IF p = PackPath THEN Pack ELSE before[p]]
      BY <1>1, <2>1 DEF WithFile
    <3>2. QED
      BY <2>1, <2>3, <3>1 DEF Assembled
  <2>5. CommandFollowsStep'
    BY <1>1, <2>1 DEF WorkerInv, CommandFollowsStep
  <2>6. FilesShaped(disk)'
    <3>1. FilesShaped(before)
      BY DEF WorkerInv, UntouchedSoFar
    <3>2. FileShaped(Pack)
      BY DEF FileShaped, Pack
    <3>3. disk' = [p \in DOMAIN before \cup {PackPath} |-> IF p = PackPath THEN Pack ELSE before[p]]
      BY <1>1, <2>1 DEF WithFile
    <3>4. ASSUME NEW p \in DOMAIN disk' PROVE FileShaped(disk'[p])
      <4>1. CASE p = PackPath
        BY <3>2, <3>3, <4>1
      <4>2. CASE p # PackPath
        <5>1. p \in DOMAIN before /\ disk'[p] = before[p]
          BY <3>3, <4>2
        <5>2. QED
          BY <3>1, <5>1 DEF FilesShaped
      <4>3. QED
        BY <4>1, <4>2
    <3>5. QED
      BY <3>4 DEF FilesShaped
  <2>7. UntouchedSoFar'
    <3>1. FilesShaped(before)'
      BY <2>1 DEF WorkerInv, UntouchedSoFar
    <3>2. QED
      BY <2>1, <2>2, <2>6, <3>1 DEF UntouchedSoFar
  <2>8. SpecFollowsStep' /\ DocumentsFollowStep'
    <3>1. SpecIsTheFile' /\ TextsAreDocuments'
      BY <1>1, <2>1, ReadingStays
    <3>2. QED
      BY <2>1, <3>1 DEF SpecFollowsStep, DocumentsFollowStep
  <2>9. PackFollowsStep'
    BY <1>1, <2>1, <2>2, <2>4 DEF PackFollowsStep
  <2>10. QED
    BY <2>5, <2>7, <2>8, <2>9 DEF WorkerInv
<1>4. QED
  BY <1>2, <1>3

\* The pack stays, or moves to the name that was asked for.
LEMMA FinalizePackKeeps ==
  ASSUME WorkerInv, FinalizePack PROVE WorkerInv'
<1>1. /\ step = "finalize" /\ built # <<>> /\ SpecIsTheFile /\ TextsAreDocuments
      /\ built = PackPath /\ Len(texts) = Len(spec[1].documents) /\ disk = Assembled
  BY DEF FinalizePack, WorkerInv, UntouchedSoFar, SpecFollowsStep, DocumentsFollowStep, PackFollowsStep
<1>2. CASE Refuse("pack_write")
  BY <1>1, <1>2, RefuseKeeps
<1>3. CASE /\ \A o \in command[1].out : NamesDirectory(o)
           /\ Exit({}, built)
           /\ UNCHANGED <<disk, command, spec, texts, built, before, ran>>
  BY <1>1, <1>3, EndKeeps
<1>4. ASSUME NEW o \in command[1].out,
             ~NamesDirectory(o), disk' = Moved(built, OnDisk(o.path)), Exit({}, OnDisk(o.path)),
             UNCHANGED <<command, spec, texts, built, before, ran>>
      PROVE  WorkerInv'
  <2>1. step' = "ended" /\ outcome' = <<outcome'[1]>> /\ outcome'[1].path = OnDisk(o.path)
    BY <1>4 DEF Exit
  <2>2. disk' = Renamed(OnDisk(o.path))
    <3>1. disk[built] = Pack
      BY <1>1 DEF Assembled
    <3>2. QED
      BY <1>1, <1>4, <3>1 DEF Moved, Renamed
  <2>3. CommandFollowsStep'
    <3>1. \E c \in WorkerCommands : command = <<c>>
      BY <1>1 DEF WorkerInv, CommandFollowsStep
    <3>2. QED
      BY <1>4, <2>1, <3>1 DEF CommandFollowsStep
  <2>4. FilesShaped(disk)'
    <3>1. FilesShaped(disk)
      BY DEF WorkerInv, UntouchedSoFar
    <3>2. FileShaped(Pack)
      BY DEF FileShaped, Pack
    <3>3. disk' = [p \in (DOMAIN disk \ {built}) \cup {OnDisk(o.path)} |->
                     IF p = OnDisk(o.path) THEN Pack ELSE disk[p]]
      BY <1>1, <2>2 DEF Renamed
    <3>4. ASSUME NEW p \in DOMAIN disk' PROVE FileShaped(disk'[p])
      <4>1. CASE p = OnDisk(o.path)
        BY <3>2, <3>3, <4>1
      <4>2. CASE p # OnDisk(o.path)
        <5>1. p \in DOMAIN disk /\ disk'[p] = disk[p]
          BY <3>3, <4>2
        <5>2. QED
          BY <3>1, <5>1 DEF FilesShaped
      <4>3. QED
        BY <4>1, <4>2
    <3>5. QED
      BY <3>4 DEF FilesShaped
  <2>5. UntouchedSoFar'
    <3>1. FilesShaped(before)'
      BY <1>4 DEF WorkerInv, UntouchedSoFar
    <3>2. QED
      BY <1>1, <1>4, <2>1, <2>4, <3>1 DEF UntouchedSoFar
  <2>6. SpecFollowsStep' /\ DocumentsFollowStep'
    <3>1. SpecIsTheFile' /\ TextsAreDocuments'
      BY <1>1, <1>4, ReadingStays
    <3>2. QED
      BY <2>1, <3>1 DEF SpecFollowsStep, DocumentsFollowStep
  <2>7. PackFollowsStep'
    <3>1. command'[1] = command[1] /\ PackPath' = PackPath
      BY <1>4, ReadingStays
    <3>2. Renamed(OnDisk(o.path))' = Renamed(OnDisk(o.path))
      BY <1>4, PackStays
    <3>3. NamesDirectory(o)' = NamesDirectory(o)
      BY DEF NamesDirectory
    <3>4. o \in command'[1].out /\ ~NamesDirectory(o) /\ outcome'[1].path = OnDisk(o.path) /\ disk' = Renamed(OnDisk(o.path))'
      BY <1>4, <2>1, <2>2, <3>1, <3>2
    <3>5. QED
      BY <1>1, <1>4, <2>1, <3>1, <3>3, <3>4 DEF PackFollowsStep
  <2>8. QED
    BY <2>3, <2>5, <2>6, <2>7 DEF WorkerInv
<1>5. QED
  BY <1>2, <1>3, <1>4 DEF FinalizePack

\* The invariant holds of every state of the commands.
LEMMA WorkerInvariant == CliSpec => []WorkerInv
<1>1. CliInit => WorkerInv
  BY WorkerInvInit DEF CliInit
<1>2. WorkerInv /\ [CliNext]_cliVars => WorkerInv'
  <2> SUFFICES ASSUME WorkerInv, [CliNext]_cliVars PROVE WorkerInv'
    OBVIOUS
  <2>1. CASE UNCHANGED workerVars
    <3>1. UNCHANGED <<disk, command, step, spec, texts, built, outcome, before>>
      BY <2>1 DEF workerVars
    <3>2. CommandFollowsStep' /\ UntouchedSoFar'
      BY <3>1 DEF WorkerInv, CommandFollowsStep, UntouchedSoFar
    <3>3. SpecFollowsStep' /\ DocumentsFollowStep'
      BY <3>1, ReadingStays DEF WorkerInv, SpecFollowsStep, DocumentsFollowStep
    <3>4. PackFollowsStep'
      <4>1. command'[1] = command[1] /\ PackPath' = PackPath /\ Assembled' = Assembled
        BY <3>1, ReadingStays, PackStays
      <4>2. \A o : NamesDirectory(o)' = NamesDirectory(o) /\ Renamed(OnDisk(o.path))' = Renamed(OnDisk(o.path))
        BY <3>1, PackStays DEF NamesDirectory
      <4>3. QED
        BY <3>1, <4>1, <4>2 DEF WorkerInv, PackFollowsStep
    <3>5. QED
      BY <3>2, <3>3, <3>4 DEF WorkerInv
  <2>2. ASSUME Explain PROVE WorkerInv'
    BY <2>2, SucceedKeeps DEF Explain
  <2>3. CASE WorkerNext
    BY <2>2, <2>3, BeginKeeps, ScaffoldKeeps, LoadSpecKeeps, CheckSpecKeeps, ReadDocumentKeeps,
       AssemblePackKeeps, FinalizePackKeeps DEF WorkerNext
  <2>4. QED
    BY <2>1, <2>3 DEF CliNext, cliVars
<1>3. QED
  BY <1>1, <1>2, PTL DEF CliSpec

\* A command's --out is one path.
LEMMA OutIsOnePath ==
  ASSUME WorkerInv, command # <<>>
  PROVE  \A o, other \in command[1].out :
           o = other /\ o.path \in Paths(STRING)
<1>1. PICK c \in WorkerCommands : command = <<c>>
  BY DEF WorkerInv, CommandFollowsStep
<1>2. command[1] = c
  BY <1>1
<1>3. QED
  BY <1>2, WorkerAssumption DEF Paths

\* A build that succeeds has put at the path it reports the pack of the spec
\* and the documents as they were when it began (build_from_spec).
THEOREM PacksAreComplete == CliSpec => []PacksHoldWhatTheSpecSays
<1>1. ASSUME WorkerInv PROVE PacksHoldWhatTheSpecSays
  <2> SUFFICES ASSUME Built PROVE PacksHoldWhatTheSpecSays
    BY DEF PacksHoldWhatTheSpecSays
  <2>1. built # <<>> /\ outcome # <<>>
    BY DEF Built, ToSet
  <2>2. step = "ended" /\ outcome = <<outcome[1]>>
    BY <1>1, <2>1 DEF WorkerInv, CommandFollowsStep
  <2>3. outcome[1].error = {}
    BY <2>2 DEF Built, ToSet
  <2>4. SpecIsTheFile /\ TextsAreDocuments /\ Len(texts) = Len(spec[1].documents)
    BY <1>1, <2>1 DEF WorkerInv, SpecFollowsStep, DocumentsFollowStep, PackFollowsStep
  <2> DEFINE at == outcome[1].path
  <2>5. /\ disk[at] = Pack
        /\ \A o \in command[1].out : NamesDirectory(o) \/ at = OnDisk(o.path)
    <3>1. CASE /\ disk = Assembled /\ at = built
               /\ \A o \in command[1].out : NamesDirectory(o)
      BY <3>1 DEF Assembled
    <3>2. CASE \E o \in command[1].out : at = OnDisk(o.path) /\ disk = Renamed(OnDisk(o.path))
      <4>1. PICK o \in command[1].out : at = OnDisk(o.path) /\ disk = Renamed(OnDisk(o.path))
        BY <3>2
      <4>2. disk[at] = Pack
        BY <4>1 DEF Renamed
      <4>3. command # <<>>
        BY <1>1, <2>2 DEF WorkerInv, CommandFollowsStep
      <4>4. \A other \in command[1].out : other = o
        BY <1>1, <4>3, OutIsOnePath
      <4>5. QED
        BY <4>1, <4>2, <4>4
    <3>3. QED
      BY <1>1, <2>1, <2>2, <2>3, <3>1, <3>2 DEF WorkerInv, PackFollowsStep
  <2> DEFINE file == OnDisk(SpecFile)
             documents == before[file].documents
  <2>6. spec[1] = before[file]
    BY <2>4 DEF SpecIsTheFile
  <2>7. Pack.type = "pack" /\ Pack.spec = before[file] /\ Pack.knowledge = texts
    BY <2>6 DEF Pack
  <2>8. before[file].valid /\ Len(texts) = Len(documents)
    BY <2>4, <2>6 DEF TextsAreDocuments
  <2>9. DOMAIN documents = 1 .. Len(texts)
    <3>1. DOMAIN spec[1].documents = 1 .. Len(spec[1].documents)
      BY <1>1, <2>4, SpecIsShaped
    <3>2. QED
      BY <2>4, <2>6, <3>1
  <2>10. \A i \in 1 .. Len(texts) :
           LET path == OnDisk(Join(Parent(SpecFile), documents[i])) IN
           /\ path \in DOMAIN before /\ texts[i].text = before[path]
           /\ texts[i].text.type # "binary"
    BY <2>4, <2>6 DEF TextsAreDocuments, DocumentPath
  <2> HIDE DEF at, file, documents
  <2>11. QED
    BY <2>5, <2>7, <2>8, <2>9, <2>10 DEF PacksHoldWhatTheSpecSays, NamesDirectory, at, file, documents
<1>2. QED
  BY <1>1, WorkerInvariant, PTL

\* The pack's own name lies in the directory that holds --out, the working
\* directory if there is none (resolve_out_dir).
LEMMA PackLiesBesideOut ==
  ASSUME WorkerInv, command # <<>>, SpecIsTheFile
  PROVE  /\ Last(PackPath) = spec[1].pack
         /\ \A o \in command[1].out :
              /\ o.path.segments # <<>> /\ Last(o.path.segments) # ".." =>
                   Front(PackPath) = Front(OnDisk(o.path))
              /\ o.path.segments = <<>> => Front(PackPath) = Cwd
         /\ command[1].out = {} => Front(PackPath) = Cwd
<1> DEFINE out == command[1].out
           S == STRING \cup {spec[1].pack}
<1>1. STRING \subseteq S /\ spec[1].pack \in S
  OBVIOUS
<1>2. spec[1].pack # ".."
  BY SpecIsShaped
<1>3. \A o \in out : o.path \in Paths(STRING)
  BY OutIsOnePath
<1> HIDE DEF S
<1>4. ASSUME NEW base \in Paths(STRING), OutDir(out) = base
      PROVE  Front(PackPath) = OnDisk(base) /\ Last(PackPath) = spec[1].pack
  <2>1. base \in Paths(S)
    <3>1. base.segments \in Seq(S)
      BY <1>1, SeqMonotonic DEF Paths
    <3>2. QED
      BY <3>1 DEF Paths
  <2>2. PackPath = OnDisk(Join(base, Relative(<<spec[1].pack>>)))
    BY <1>4 DEF PackPath
  <2>3. QED
    BY <1>1, <1>2, <2>1, <2>2, NamedIn
<1>5. ASSUME NEW o \in out, o.path.segments # <<>>
      PROVE  /\ Last(PackPath) = spec[1].pack
             /\ Last(o.path.segments) # ".." => Front(PackPath) = Front(OnDisk(o.path))
  <2>1. OutDir(out) = Parent(o.path)
    BY <1>5, OutIsOnePath DEF OutDir
  <2>2. Parent(o.path) \in Paths(STRING) /\ Last(o.path.segments) \in STRING
        /\ OnDisk(o.path) = PopOrPush(OnDisk(Parent(o.path)), Last(o.path.segments))
    BY <1>3, <1>5, ParentAndName
  <2>3. Front(PackPath) = OnDisk(Parent(o.path)) /\ Last(PackPath) = spec[1].pack
    BY <1>4, <2>1, <2>2
  <2>4. ASSUME Last(o.path.segments) # ".." PROVE Front(OnDisk(o.path)) = OnDisk(Parent(o.path))
    <3>1. PICK d \in Seq(STRING), x \in STRING : d = OnDisk(Parent(o.path)) /\ x = Last(o.path.segments)
      BY <2>2, OnDiskIsNormal
    <3>2. PICK t : t = OnDisk(o.path) /\ t = Append(d, x)
      BY <2>2, <2>4, <3>1 DEF PopOrPush
    <3>3. Front(t) = d
      BY <3>2, FrontOfAppend
    <3>4. QED
      BY <3>1, <3>2, <3>3
  <2>5. QED
    BY <2>3, <2>4
<1>6. ASSUME \A o \in out : o.path.segments = <<>>
      PROVE  Last(PackPath) = spec[1].pack /\ Front(PackPath) = Cwd
  <2>1. OutDir(out) = Relative(<<>>)
    BY <1>6 DEF OutDir
  <2>2. QED
    BY <1>4, <2>1, EmptyPathIsCwd
<1>7. \A o, other \in out : o = other
  BY OutIsOnePath
<1> HIDE DEF out
<1>8. ASSUME NEW o \in out PROVE Last(PackPath) = spec[1].pack
  BY <1>5, <1>6, <1>7, <1>8
<1>9. QED
  BY <1>5, <1>6, <1>7, <1>8 DEF out

\* A build touches two names in one directory, a refusal before the packer has
\* run nothing, and no pack stays under both names (finalize_pack_path).
THEOREM BuildsStayInTheirDirectory == CliSpec => []BuildsTouchTheirOwnFiles
<1>1. ASSUME WorkerInv PROVE BuildsTouchTheirOwnFiles
  <2> SUFFICES ASSUME command # <<>>, command[1].do # "init" PROVE BuildsTouchTheirOwnFiles
    BY DEF BuildsTouchTheirOwnFiles
  <2> DEFINE touched == {p \in DOMAIN disk \cup DOMAIN before :
                           p \in DOMAIN disk /\ p \in DOMAIN before => disk[p] # before[p]}
             asked == {OnDisk(o.path) : o \in command[1].out}
  <2>1. ASSUME built = <<>> PROVE touched = {}
    <3>1. disk = before
      BY <1>1, <2>1 DEF WorkerInv, CommandFollowsStep, UntouchedSoFar
    <3>2. QED
      BY <3>1
  <2>2. ASSUME built # <<>>
        PROVE  /\ Built /\ outcome[1].path # built => built \notin DOMAIN disk
               /\ \A p \in touched :
                    p = built \/ \E o \in command[1].out : ~NamesDirectory(o) /\ p = OnDisk(o.path)
    <3>1. CASE disk = Assembled /\ (Built => outcome[1].path = built)
      <4>1. \A p \in touched : p = built
        BY <3>1 DEF Assembled
      <4>2. QED
        BY <3>1, <4>1
    <3>2. ASSUME NEW o \in command[1].out, ~NamesDirectory(o), outcome[1].path = OnDisk(o.path),
                 disk = Renamed(OnDisk(o.path))
          PROVE  /\ Built /\ outcome[1].path # built => built \notin DOMAIN disk
                 /\ \A p \in touched : p = built \/ p = OnDisk(o.path)
      <4>1. DOMAIN disk = (DOMAIN Assembled \ {built}) \cup {OnDisk(o.path)}
        BY <3>2 DEF Renamed
      <4>2. \A p : p # built /\ p # OnDisk(o.path) =>
              /\ p \in DOMAIN disk <=> p \in DOMAIN before
              /\ p \in DOMAIN before => disk[p] = before[p]
        BY <3>2, <4>1 DEF Renamed, Assembled
      <4>3. \A p \in touched : p = built \/ p = OnDisk(o.path)
        BY <4>2
      <4>4. QED
        BY <3>2, <4>1, <4>3
    <3>3. QED
      <4>1. ASSUME disk = Assembled, step = "finalize" PROVE ~Built
        BY <1>1, <4>1 DEF WorkerInv, CommandFollowsStep, Built, ToSet
      <4>2. ASSUME step = "ended", outcome[1].error # {} PROVE ~Built
        <5>1. outcome = <<outcome[1]>>
          BY <1>1, <4>2 DEF WorkerInv, CommandFollowsStep
        <5>2. QED
          BY <4>2, <5>1 DEF Built, ToSet
      <4> HIDE DEF touched
      <4>3. QED
        BY <1>1, <2>2, <3>1, <3>2, <4>1, <4>2 DEF WorkerInv, PackFollowsStep
  <2>3. ASSUME built # <<>>, NEW p \in touched
        PROVE  /\ p \in asked \/ Last(p) = spec[1].pack
               /\ \A o \in command[1].out : o.path.segments # <<>> /\ Last(o.path.segments) # ".." =>
                    Front(p) = Front(OnDisk(o.path))
               /\ (\A o \in command[1].out : o.path.segments = <<>>) => Front(p) = Cwd
    <3>1. SpecIsTheFile /\ built = PackPath
      BY <1>1, <2>3 DEF WorkerInv, SpecFollowsStep, PackFollowsStep
    <3>2. CASE p = built
      BY <1>1, <3>1, <3>2, PackLiesBesideOut
    <3>3. ASSUME NEW o \in command[1].out, ~NamesDirectory(o), p = OnDisk(o.path)
          PROVE  /\ p \in asked
                 /\ \A other \in command[1].out : Front(p) = Front(OnDisk(other.path))
                 /\ o.path.segments # <<>>
      <4>1. \A other \in command[1].out : other = o
        BY <1>1, OutIsOnePath
      <4>2. QED
        BY <3>3, <4>1 DEF NamesDirectory
    <3> HIDE DEF touched, asked
    <3>4. QED
      BY <2>2, <2>3, <3>2, <3>3
  <2>4. built = <<>> \/ built # <<>>
    OBVIOUS
  <2>5. Built => built # <<>>
    BY DEF Built
  <2> HIDE DEF touched, asked
  <2>6. QED
    BY <2>1, <2>2, <2>3, <2>5 DEF BuildsTouchTheirOwnFiles, touched, asked
<1>2. QED
  BY <1>1, WorkerInvariant, PTL

-----------------------------------------------------------------------------
(* The answers of the wizard.                                              *)

\* Every entry is still there, and the same.
Keeps(old, new) == \A k \in DOMAIN old : k \in DOMAIN new /\ new[k] = old[k]

\* So is every field of the manifest that is not missing.
KeepsGiven(old, new) ==
  \A f \in DOMAIN old : ~Missing(old, f) => f \in DOMAIN new /\ new[f] = old[f]

\* An entry that is put under a new key changes no other.
LEMMA PutFacts ==
  ASSUME NEW map, NEW key, NEW value
  PROVE  /\ IsMap(Put(map, key, value))
         /\ DOMAIN Put(map, key, value) = DOMAIN map \cup {key}
         /\ Put(map, key, value)[key] = value
         /\ \A k \in DOMAIN map : k # key => Put(map, key, value)[k] = map[k]
         /\ key \notin DOMAIN map => Keeps(map, Put(map, key, value))
BY DEF IsMap, Put, Keeps

\* Of two maps the upper one wins.
LEMMA OverFacts ==
  ASSUME NEW upper, NEW lower
  PROVE  /\ IsMap(Over(upper, lower))
         /\ DOMAIN Over(upper, lower) = DOMAIN upper \cup DOMAIN lower
         /\ \A k \in DOMAIN upper : Over(upper, lower)[k] = upper[k]
         /\ \A k \in DOMAIN lower \ DOMAIN upper : Over(upper, lower)[k] = lower[k]
BY DEF IsMap, Over

\* Defaults fill gaps and change nothing that is given.
LEMMA FilledFacts ==
  ASSUME NEW plain, NEW defaults
  PROVE  /\ IsMap(Filled(plain, defaults))
         /\ DOMAIN Filled(plain, defaults) = DOMAIN plain \cup DOMAIN defaults
         /\ KeepsGiven(plain, Filled(plain, defaults))
<1> DEFINE gaps == [f \in {g \in DOMAIN defaults : Missing(plain, g)} |-> defaults[f]]
<1>1. DOMAIN gaps = {g \in DOMAIN defaults : Missing(plain, g)}
  OBVIOUS
<1>2. Filled(plain, defaults) = Over(gaps, plain)
  BY DEF Filled
<1> HIDE DEF gaps
<1>3. \A g \in DOMAIN defaults : g \in DOMAIN gaps \/ g \in DOMAIN plain
  BY <1>1 DEF Missing
<1>4. DOMAIN gaps \cup DOMAIN plain = DOMAIN plain \cup DOMAIN defaults
  BY <1>1, <1>3
<1>5. QED
  BY <1>1, <1>2, <1>4, OverFacts DEF KeepsGiven

\* Missing fields stay out of what is kept twice.
LEMMA KeepsGivenTwice ==
  ASSUME NEW a, NEW b, NEW c, KeepsGiven(a, b), KeepsGiven(b, c) PROVE KeepsGiven(a, c)
BY DEF KeepsGiven, Missing

\* What becomes of a document when parts of it are replaced.
LEMMA DocumentOf ==
  ASSUME NEW old, IsDocument(old), NEW plain, NEW overrides, NEW design,
         IsMap(plain), DOMAIN old.plain \subseteq DOMAIN plain, IsMap(overrides), IsMap(design),
         NEW new, IsMap(new), DOMAIN new = DOMAIN old,
         new.plain = plain, new.overrides = overrides, new.design = design, new.tools = old.tools
  PROVE  IsDocument(new)
BY DEF IsDocument

\* apply_template_defaults keeps what the document says.
LEMMA DefaultsKeep ==
  ASSUME NEW document, IsDocument(document), NEW chosen,
         NEW new, new = TemplateDefaults(document, chosen)
  PROVE  /\ IsDocument(new)
         /\ Keeps(document.design, new.design)
         /\ new.overrides = document.overrides
         /\ KeepsGiven(document.plain, new.plain)
<1> DEFINE first == Filled(document.plain, [manifest_id |-> chosen.id, display_name |-> chosen.name])
           plain == Filled(first, chosen.values)
           design == IF AgentCount \in DOMAIN document.design \/ chosen.count = {} THEN document.design
                     ELSE Put(document.design, AgentCount, CHOOSE n \in chosen.count : TRUE)
           selected == OrElse(document.template, {chosen.id})
<1>1. new = [document EXCEPT !.plain = plain, !.template = selected, !.design = design]
  BY DEF TemplateDefaults
<1> HIDE DEF plain, selected, design
<1>2. /\ IsMap(new) /\ DOMAIN new = DOMAIN document
      /\ new.plain = plain /\ new.design = design
      /\ new.overrides = document.overrides /\ new.tools = document.tools
  BY <1>1, ZenonT(60) DEF IsDocument, IsMap
<1>3. IsMap(plain) /\ DOMAIN document.plain \subseteq DOMAIN plain /\ KeepsGiven(document.plain, plain)
  <2>1. PICK defaults : defaults = [manifest_id |-> chosen.id, display_name |-> chosen.name]
    OBVIOUS
  <2>2. PICK middle : middle = Filled(document.plain, defaults)
    OBVIOUS
  <2>3. plain = Filled(middle, chosen.values)
    BY <2>1, <2>2 DEF plain
  <2>4. DOMAIN document.plain \subseteq DOMAIN middle /\ KeepsGiven(document.plain, middle)
    BY ONLY <2>2, FilledFacts
  <2>5. IsMap(plain) /\ DOMAIN middle \subseteq DOMAIN plain /\ KeepsGiven(middle, plain)
    BY ONLY <2>3, FilledFacts
  <2>6. QED
    BY <2>4, <2>5, KeepsGivenTwice
<1>4. IsMap(design) /\ Keeps(document.design, design)
  <2>1. CASE design = document.design
    BY <2>1 DEF Keeps, IsDocument
  <2>2. ASSUME AgentCount \notin DOMAIN document.design, NEW n, design = Put(document.design, AgentCount, n)
        PROVE  IsMap(design) /\ Keeps(document.design, design)
    BY <2>2, PutFacts
  <2>3. QED
    BY <2>1, <2>2 DEF design
<1>5. IsMap(document.overrides)
  BY DEF IsDocument
<1>6. QED
  BY <1>2, <1>3, <1>4, <1>5, DocumentOf

\* A block is asked for only if nobody has answered it, and the answer goes
\* where nobody has.
LEMMA StoreKeeps ==
  ASSUME NEW document, IsDocument(document), NEW block, Asked(block, document),
         NEW key \in block.key, NEW value, NEW new, new = Store(document, block, key, value)
  PROVE  /\ IsDocument(new) /\ new.plain = document.plain
         /\ Keeps(document.design, new.design) /\ Keeps(document.overrides, new.overrides)
<1>1. /\ block.select /\ block.agent = Everyone => key.name \notin DOMAIN document.overrides
      /\ ~(block.select /\ block.agent = Everyone) => key \notin DOMAIN document.design
  BY DEF Asked
<1>2. IsMap(document.design) /\ IsMap(document.overrides) /\ IsMap(document.plain)
      /\ Keeps(document.design, document.design) /\ Keeps(document.overrides, document.overrides)
  BY DEF IsDocument, Keeps
<1>3. ASSUME NEW agents, key \notin DOMAIN document.design,
             new = [document EXCEPT !.agents = agents, !.design = Put(@, key, value)]
      PROVE  /\ IsDocument(new) /\ new.plain = document.plain
             /\ Keeps(document.design, new.design) /\ Keeps(document.overrides, new.overrides)
  <2>1. PICK design : design = Put(document.design, key, value)
    OBVIOUS
  <2>2. new = [document EXCEPT !.agents = agents, !.design = design]
    BY <1>3, <2>1
  <2>3. /\ IsMap(new) /\ DOMAIN new = DOMAIN document
        /\ new.plain = document.plain /\ new.design = design
        /\ new.overrides = document.overrides /\ new.tools = document.tools
    BY <2>2, ZenonT(60) DEF IsDocument, IsMap
  <2>4. IsMap(design) /\ Keeps(document.design, design)
    BY <1>3, <2>1, PutFacts
  <2>5. QED
    BY <1>2, <2>3, <2>4, DocumentOf
<1>4. CASE block.agent # Everyone
  BY <1>1, <1>3, <1>4 DEF Store
<1>5. CASE block.agent = Everyone /\ block.select
  <2>1. PICK overrides : overrides = Put(document.overrides, key.name, value)
    OBVIOUS
  <2>2. new = [document EXCEPT !.overrides = overrides]
    BY <1>5, <2>1 DEF Store
  <2>3. /\ IsMap(new) /\ DOMAIN new = DOMAIN document
        /\ new.plain = document.plain /\ new.design = document.design
        /\ new.overrides = overrides /\ new.tools = document.tools
    BY <2>2, ZenonT(60) DEF IsDocument, IsMap
  <2>4. IsMap(overrides) /\ Keeps(document.overrides, overrides)
    BY <1>1, <1>5, <2>1, PutFacts
  <2>5. QED
    BY <1>2, <2>3, <2>4, DocumentOf
<1>6. CASE block.agent = Everyone /\ ~block.select
  <2>1. PICK design : design = Put(document.design, key, value)
    OBVIOUS
  <2>2. new = [document EXCEPT !.design = design]
    BY <1>6, <2>1 DEF Store
  <2>3. /\ IsMap(new) /\ DOMAIN new = DOMAIN document
        /\ new.plain = document.plain /\ new.design = design
        /\ new.overrides = document.overrides /\ new.tools = document.tools
    BY <2>2, ZenonT(60) DEF IsDocument, IsMap
  <2>4. IsMap(design) /\ Keeps(document.design, design)
    BY <1>1, <1>6, <2>1, PutFacts
  <2>5. QED
    BY <1>2, <2>3, <2>4, DocumentOf
<1>7. QED
  BY <1>4, <1>5, <1>6

\* The flags replace the fields, the mode and the overrides of a document.
LEMMA OverridesReplace ==
  ASSUME NEW document, IsDocument(document), NEW new, new = WithOverrides(document)
  PROVE  /\ IsMap(new) /\ DOMAIN new = DOMAIN document
         /\ new.plain = Over(args.fields, document.plain)
         /\ new.overrides =
              FoldLeft(LAMBDA map, o : Put(map, o.capability, o.provider), document.overrides, args.overrides)
         /\ new.design = document.design /\ new.tools = document.tools
         /\ new.template = document.template /\ new.agents = document.agents
         /\ new.mode = IF args.review_all THEN {"review_all"} ELSE document.mode
<1> DEFINE mode == IF args.review_all THEN {"review_all"} ELSE document.mode
           overrides ==
             FoldLeft(LAMBDA map, o : Put(map, o.capability, o.provider), document.overrides, args.overrides)
           plain == Over(args.fields, document.plain)
<1>1. new = [document EXCEPT !.plain = plain, !.mode = mode, !.overrides = overrides]
  BY DEF WithOverrides
<1>2. new.plain = plain /\ new.mode = mode /\ new.overrides = overrides
  <2> HIDE DEF mode, overrides, plain
  <2>1. QED
    BY <1>1 DEF IsDocument
<1> HIDE DEF overrides, plain
<1>3. QED
  BY <1>1, <1>2, ZenonT(60) DEF IsDocument, IsMap, overrides, plain

\* new is the map with every override of s in it, for each capability the last.
LastStays(s, n, base, new) ==
  /\ IsMap(new)
  /\ n = 0 => new = base
  /\ \A i \in 1 .. n :
       (\A j \in 1 .. n : j > i => s[j].capability # s[i].capability) =>
         s[i].capability \in DOMAIN new /\ new[s[i].capability] = s[i].provider

\* Of several overrides of one capability the last one stays (apply_overrides).
LEMMA LastRowStays ==
  ASSUME NEW s, NEW n \in Nat, NEW base, IsMap(base), NEW r, Rows("put", base, s, n, r),
         NEW new, new = r[n]
  PROVE  LastStays(s, n, base, new)
<1>5. r[0] = base /\ \A k \in 1 .. n : r[k] = Put(r[k - 1], s[k].capability, s[k].provider)
  BY DEF Rows, Fold
<1>6. n = 0 => new = base
  BY <1>5
<1>7. IsMap(new)
  <2>1. CASE n = 0
    BY <1>6, <2>1
  <2>2. CASE n # 0
    <3>1. n \in 1 .. n
      BY <2>2
    <3>2. PICK map, c, p : r[n] = Put(map, c, p)
      BY <1>5, <3>1
    <3>3. IsMap(Put(map, c, p))
      BY PutFacts
    <3>4. QED
      BY <3>2, <3>3
  <2>3. QED
    BY <2>1, <2>2
<1>8. ASSUME NEW i \in 1 .. n, \A j \in 1 .. n : j > i => s[j].capability # s[i].capability
      PROVE  s[i].capability \in DOMAIN new /\ new[s[i].capability] = s[i].provider
  <2> DEFINE c == s[i].capability
             p == s[i].provider
             Bad == {k \in Nat : i <= k /\ k <= n /\ ~(c \in DOMAIN r[k] /\ r[k][c] = p)}
  <2>1. ASSUME Bad # {} PROVE FALSE
    <3>1. PICK k \in Bad : \A m \in Bad : k <= m
      BY <2>1, LeastNumber
    <3>2. k \in 1 .. n /\ i <= k /\ ~(c \in DOMAIN r[k] /\ r[k][c] = p)
      BY <3>1
    <3>3. CASE k = i
      <4>1. r[k] = Put(r[k - 1], c, p)
        BY <1>5, <3>2, <3>3
      <4>2. PICK map, d, q : r[k] = Put(map, d, q) /\ d = c /\ q = p
        BY <4>1
      <4>3. d \in DOMAIN Put(map, d, q) /\ Put(map, d, q)[d] = q
        BY ONLY TRUE DEF Put
      <4> HIDE DEF c, p, Bad
      <4>4. QED
        BY <3>2, <4>2, <4>3
    <3>4. CASE k # i
      <4>1. k - 1 \in Nat /\ i <= k - 1 /\ k - 1 <= n
        BY <3>2, <3>4
      <4>2. k - 1 \notin Bad
        BY <3>1, <4>1
      <4>3. c \in DOMAIN r[k - 1] /\ r[k - 1][c] = p
        BY <4>1, <4>2
      <4>4. k > i /\ s[k].capability # c
        BY <1>8, <3>2, <3>4
      <4>5. r[k] = Put(r[k - 1], s[k].capability, s[k].provider)
        BY <1>5, <3>2
      <4>6. PICK map, d, q : map = r[k - 1] /\ d = s[k].capability /\ r[k] = Put(map, d, q)
        BY <4>5
      <4> HIDE DEF c, p, Bad
      <4>7. c \in DOMAIN map /\ map[c] = p /\ c # d
        BY <4>3, <4>4, <4>6
      <4>8. c \in DOMAIN Put(map, d, q) /\ Put(map, d, q)[c] = p
        BY ONLY <4>7 DEF Put
      <4>9. QED
        BY <3>2, <4>6, <4>8
    <3>5. QED
      BY <3>3, <3>4
  <2>2. n \notin Bad
    BY <2>1
  <2>3. QED
    BY <2>2
<1>9. QED
  BY <1>6, <1>7, <1>8 DEF LastStays

\* So it is after all of them were put.
LEMMA LastOverrideStays ==
  ASSUME NEW s, NEW n \in Nat, DOMAIN s = 1 .. n, NEW base, IsMap(base), NEW new,
         new = FoldLeft(LAMBDA map, o : Put(map, o.capability, o.provider), base, s)
  PROVE  LastStays(s, n, base, new)
<1>1. PICK g : Table("put", base, s, n, g) /\ new = g[1 .. n]
  BY TablesExist, PutFold
<1>2. PICK r : r = [k \in 0 .. n |-> g[1 .. k]]
  OBVIOUS
<1>3. Rows("put", base, s, n, r)
  BY ONLY n \in Nat, <1>1, <1>2, RowsOfTable
<1>4. new = r[n]
  BY ONLY n \in Nat, <1>1, <1>2
<1>5. IsMap(base)
  OBVIOUS
<1>6. QED
  BY ONLY n \in Nat, <1>3, <1>4, <1>5, LastRowStays

\* What a step between the first and the last does to the document.
DocumentStep(old, new) ==
  /\ IsDocument(new)
  /\ Keeps(old.design, new.design)
  /\ phase # "overrides" => Keeps(old.overrides, new.overrides) /\ KeepsGiven(old.plain, new.plain)
  /\ phase = "overrides" => new = old \/ new = WithOverrides(old)

\* A step that leaves the document alone.
LEMMA SameDocument ==
  ASSUME NEW old, IsDocument(old), NEW new, new = old PROVE DocumentStep(old, new)
BY DEF DocumentStep, Keeps, KeepsGiven

\* The first two questions write what is not there, the others what nobody
\* has answered, and the last only fields that are missing.
LEMMA AnswersStep ==
  ASSUME IsDocument(answers), IsCommandLine(args), Next, phase \notin {"start", "done"}
  PROVE  DocumentStep(answers, answers') /\ UNCHANGED <<args, emitted>>
<1>1. CASE SelectTemplate
  <2>1. phase = "template"
    BY <1>1 DEF SelectTemplate
  <2>2. answers' = answers \/ \E chosen : answers' = TemplateDefaults(answers, chosen[1])
    BY <1>1 DEF SelectTemplate, WithTemplate, Fail
  <2>3. UNCHANGED <<args, emitted>>
    BY <1>1 DEF SelectTemplate, WithTemplate, Fail
  <2>4. ASSUME NEW chosen, answers' = TemplateDefaults(answers, chosen) PROVE DocumentStep(answers, answers')
    <3>1. PICK new : new = answers' /\ new = TemplateDefaults(answers, chosen)
      BY <2>4
    <3>2. /\ IsDocument(new)
          /\ Keeps(answers.design, new.design)
          /\ new.overrides = answers.overrides
          /\ KeepsGiven(answers.plain, new.plain)
      BY <3>1, DefaultsKeep
    <3>3. Keeps(answers.overrides, new.overrides)
      BY <3>2 DEF Keeps
    <3>4. QED
      BY <2>1, <3>1, <3>2, <3>3 DEF DocumentStep
  <2>5. QED
    BY <2>2, <2>3, <2>4, SameDocument
<1>2. CASE LoadProviders
  BY <1>2, SameDocument DEF LoadProviders, Fail
<1>3. CASE ApplyOverrides
  <2>1. phase = "overrides" /\ UNCHANGED <<args, emitted>>
    BY <1>3 DEF ApplyOverrides, Fail
  <2>2. answers' = answers \/ answers' = WithOverrides(answers)
    BY <1>3 DEF ApplyOverrides, Fail
  <2>3. ASSUME answers' = WithOverrides(answers) PROVE DocumentStep(answers, answers')
    <3>1. PICK new : new = answers' /\ new = WithOverrides(answers)
      BY <2>3
    <3>2. PICK plain, overrides :
            /\ plain = Over(args.fields, answers.plain)
            /\ overrides = FoldLeft(LAMBDA map, o : Put(map, o.capability, o.provider),
                                    answers.overrides, args.overrides)
            /\ new.plain = plain /\ new.overrides = overrides
            /\ IsMap(new) /\ DOMAIN new = DOMAIN answers
            /\ new.design = answers.design /\ new.tools = answers.tools
      BY <3>1, OverridesReplace
    <3>3. IsMap(plain) /\ DOMAIN answers.plain \subseteq DOMAIN plain
      <4>1. plain = Over(args.fields, answers.plain)
        BY <3>2
      <4>2. PICK upper, lower : lower = answers.plain /\ plain = Over(upper, lower)
        BY <4>1
      <4>3. IsMap(plain) /\ DOMAIN plain = DOMAIN upper \cup DOMAIN lower
        BY ONLY <4>2, OverFacts
      <4>4. QED
        BY ONLY <4>2, <4>3
    <3>4. PICK n \in Nat : DOMAIN args.overrides = 1 .. n
      BY DEF IsCommandLine
    <3>5. IsMap(answers.overrides) /\ IsMap(answers.design)
      BY DEF IsDocument
    <3>6. LastStays(args.overrides, n, answers.overrides, overrides)
      BY <3>2, <3>4, <3>5, LastOverrideStays
    <3>7. IsMap(overrides)
      BY <3>6 DEF LastStays
    <3>8. IsDocument(new)
      <4>1. new.plain = plain /\ new.overrides = overrides
            /\ IsMap(new) /\ DOMAIN new = DOMAIN answers
            /\ new.design = answers.design /\ new.tools = answers.tools
        BY <3>2
      <4>2. IsDocument(answers)
        OBVIOUS
      <4>3. QED
        BY ONLY <3>3, <3>5, <3>7, <4>1, <4>2, DocumentOf
    <3>9. Keeps(answers.design, new.design)
      BY <3>2 DEF Keeps
    <3>10. QED
      BY <2>1, <3>1, <3>8, <3>9 DEF DocumentStep
  <2>4. QED
    BY <2>1, <2>2, <2>3, SameDocument
<1>4. CASE AskMode
  <2>1. PICK mode : answers' = [answers EXCEPT !.mode = {mode}]
    BY <1>4 DEF AskMode
  <2>2. PICK new : new = answers' /\ new = [answers EXCEPT !.mode = {mode}]
    BY <2>1
  <2>3. /\ IsMap(new) /\ DOMAIN new = DOMAIN answers
        /\ new.plain = answers.plain /\ new.overrides = answers.overrides
        /\ new.design = answers.design /\ new.tools = answers.tools
    BY <2>2, ZenonT(60) DEF IsDocument, IsMap
  <2>4. IsDocument(new)
    BY <2>3 DEF IsDocument
  <2>5. phase = "mode" /\ UNCHANGED <<args, emitted>>
    BY <1>4 DEF AskMode
  <2>6. QED
    BY <2>2, <2>3, <2>4, <2>5 DEF DocumentStep, Keeps, KeepsGiven
<1>5. CASE AskTopology
  <2>1. phase = "topology" /\ UNCHANGED <<args, emitted>>
    BY <1>5 DEF AskTopology
  <2>2. CASE UNCHANGED answers
    BY <2>1, <2>2, SameDocument
  <2>3. CASE ~UNCHANGED answers
    <3>1. PICK key, value : /\ answers' = [answers EXCEPT !.design = Put(@, key, value)]
                            /\ key \in Head(todo).key /\ AskedFirst(Head(todo), answers)
      BY <1>5, <2>3 DEF AskTopology
    <3>2. key \notin DOMAIN answers.design
      BY <3>1 DEF AskedFirst
    <3>3. PICK design : design = Put(answers.design, key, value)
      OBVIOUS
    <3>4. PICK new : new = answers' /\ new = [answers EXCEPT !.design = design]
      BY <3>1, <3>3
    <3>5. /\ IsMap(new) /\ DOMAIN new = DOMAIN answers
          /\ new.plain = answers.plain /\ new.overrides = answers.overrides
          /\ new.design = design /\ new.tools = answers.tools
      BY <3>4 DEF IsDocument, IsMap
    <3>6. IsMap(design) /\ Keeps(answers.design, design)
      BY <3>2, <3>3, PutFacts
    <3>7. IsDocument(new)
      BY <3>5, <3>6 DEF IsDocument
    <3>8. QED
      BY <2>1, <3>4, <3>5, <3>6, <3>7 DEF DocumentStep, Keeps, KeepsGiven
  <2>4. QED
    BY <2>2, <2>3
<1>6. CASE AnswerQuestion
  <2>1. phase = "questions" /\ UNCHANGED <<args, emitted>>
    BY <1>6 DEF AnswerQuestion
  <2>2. CASE UNCHANGED answers
    BY <2>1, <2>2, SameDocument
  <2>3. CASE ~UNCHANGED answers
    <3>1. PICK key, value : /\ answers' = Store(answers, Head(todo), key, value)
                            /\ key \in Head(todo).key /\ Asked(Head(todo), answers)
      BY <1>6, <2>3 DEF AnswerQuestion
    <3>2. PICK new, block : new = answers' /\ new = Store(answers, block, key, value)
                            /\ key \in block.key /\ Asked(block, answers)
      BY <3>1
    <3>3. /\ IsDocument(new) /\ new.plain = answers.plain
          /\ Keeps(answers.design, new.design) /\ Keeps(answers.overrides, new.overrides)
      BY <3>2, StoreKeeps
    <3>4. QED
      BY <2>1, <3>2, <3>3 DEF DocumentStep, KeepsGiven
  <2>4. QED
    BY <2>2, <2>3
<1>7. CASE AskField
  <2>1. phase = "fields" /\ UNCHANGED <<args, emitted>>
    BY <1>7 DEF AskField
  <2>2. CASE UNCHANGED answers
    BY <2>1, <2>2, SameDocument
  <2>3. CASE ~UNCHANGED answers
    <3>1. PICK field, value : /\ answers' = [answers EXCEPT !.plain = Put(@, field, value)]
                              /\ Missing(answers.plain, field)
      BY <1>7, <2>3 DEF AskField
    <3>2. PICK plain : plain = Put(answers.plain, field, value)
      OBVIOUS
    <3>3. PICK new : new = answers' /\ new = [answers EXCEPT !.plain = plain]
      BY <3>1, <3>2
    <3>4. /\ IsMap(new) /\ DOMAIN new = DOMAIN answers
          /\ new.plain = plain /\ new.overrides = answers.overrides
          /\ new.design = answers.design /\ new.tools = answers.tools
      BY <3>3 DEF IsDocument, IsMap
    <3>5. IsMap(plain) /\ DOMAIN answers.plain \subseteq DOMAIN plain /\ KeepsGiven(answers.plain, plain)
      BY <3>1, <3>2 DEF Put, IsMap, KeepsGiven
    <3>6. IsDocument(new)
      BY <3>4, <3>5 DEF IsDocument
    <3>7. QED
      BY <2>1, <3>3, <3>4, <3>5, <3>6 DEF DocumentStep, Keeps
  <2>4. QED
    BY <2>2, <2>3
<1>8. CASE BeginQuestions \/ EndQuestions \/ EndFields
  BY <1>8, SameDocument DEF BeginQuestions, EndQuestions, EndFields
<1>9. CASE ValidateManifest \/ EmitManifest \/ DryRun \/ Execute
  BY <1>9, SameDocument DEF ValidateManifest, EmitManifest, DryRun, Execute, Fail, Done
<1>10. QED
  BY <1>1, <1>2, <1>3, <1>4, <1>5, <1>6, <1>7, <1>8, <1>9
     DEF Next, PrintSchema, ListTemplates, LoadAnswers, Replay

\* What a run may be given, and what it has printed: the command line is one
\* that clap accepts and every document is an AnswerDocument.
WizardShaped ==
  /\ IsCommandLine(args)
  /\ \A source \in args.answers : source.scheme = "emitted" => emitted # <<>>
  /\ IsDocument(answers)
  /\ emitted # <<>> => IsDocument(emitted[1].answers)

\* A run starts from AnswerDocument's default.
LEMMA BlankIsDocument == IsDocument(BlankDocument)
<1>1. IsMap(BlankDocument) /\ IsMap(BlankDocument.plain)
  BY DEF IsMap, BlankDocument
<1>2. /\ BlankDocument.overrides = <<>> /\ BlankDocument.design = <<>> /\ BlankDocument.tools = <<>>
      /\ DOMAIN BlankDocument.plain = Texts
      /\ DOMAIN BlankDocument = {"plain", "template", "mode", "overrides", "design", "agents", "tools"}
  BY DEF BlankDocument
<1>3. \A s : s = <<>> => IsMap(s) /\ Len(s) \in Nat /\ DOMAIN s = 1 .. Len(s)
  BY DEF IsMap
<1>4. QED
  BY <1>1, <1>2, <1>3 DEF IsDocument

\* discover_starter_catalog_path finds at most one catalog.
LEMMA AtMostOneCatalog ==
  ASSUME IsCommandLine(args) PROVE AtMostOne(TemplatePath) /\ AtMostOne(ProviderPath)
<1>1. AtMostOne(args.template_catalog) /\ AtMostOne(args.provider_catalog)
  BY DEF IsCommandLine
<1>2. ASSUME NEW given, AtMostOne(given), NEW kind PROVE AtMostOne(CatalogPath(given, kind))
  BY <1>2 DEF CatalogPath, AtMostOne
<1>3. QED
  BY <1>1, <1>2 DEF TemplatePath, ProviderPath

\* A document is loaded from what the command line names, or is blank.
LEMMA LoadedDocument ==
  ASSUME WizardShaped, LoadAnswers, answers' # answers \/ phase' = "template"
  PROVE  /\ UNCHANGED <<args, emitted>>
         /\ IsDocument(answers')
         /\ \A source \in args.answers : answers' = Document(source)
<1>1. UNCHANGED <<args, emitted>>
  BY DEF LoadAnswers, Loaded, Fail
<1>2. CASE args.answers = {} /\ Loaded(BlankDocument)
  BY <1>1, <1>2, BlankIsDocument DEF Loaded
<1>3. ASSUME NEW source \in args.answers, answers' = Document(source)
      PROVE  \A other \in args.answers : answers' = Document(other)
  BY <1>3 DEF WizardShaped, IsCommandLine, AtMostOne
<1>4. ASSUME NEW source \in args.answers, source.scheme \in {"https", "file"},
             source.name \in DOMAIN Documents, Loaded(Documents[source.name])
      PROVE  IsDocument(answers') /\ answers' = Document(source)
  BY <1>4, WizardAssumption DEF Loaded, Document
<1>5. ASSUME NEW source \in args.answers, source.scheme = "emitted", Loaded(emitted[1].answers)
      PROVE  IsDocument(answers') /\ answers' = Document(source)
  BY <1>5 DEF Loaded, Document, WizardShaped
<1>6. QED
  BY <1>1, <1>2, <1>3, <1>4, <1>5 DEF LoadAnswers, Fail

\* What is replayed is again a command line and a document.
LEMMA ReplayIsShaped == ASSUME WizardShaped, Replay PROVE WizardShaped'
<1>1. PICK names \in IF template = <<>> THEN {{}}
                   ELSE {{id} : id \in UNION {NamesOf(template[1], path) : path \in TemplatePath}} :
       args' = [args EXCEPT !.answers = {[scheme |-> "emitted", name |-> ""]},
                            !.template = names,
                            !.template_catalog = TemplatePath, !.provider_catalog = ProviderPath,
                            !.non_interactive = TRUE, !.review_all = FALSE,
                            !.fields = <<>>, !.overrides = <<>>]
  BY DEF Replay
<1>2. AtMostOne(names)
  BY DEF AtMostOne
<1>3. AtMostOne(TemplatePath) /\ AtMostOne(ProviderPath)
  BY AtMostOneCatalog DEF WizardShaped
<1>4. PICK template_catalog, provider_catalog, one :
        /\ template_catalog = TemplatePath /\ provider_catalog = ProviderPath
        /\ one = [scheme |-> "emitted", name |-> ""]
  OBVIOUS
<1>5. PICK new :
        /\ new = args'
        /\ new = [args EXCEPT !.answers = {one}, !.template = names,
                              !.template_catalog = template_catalog,
                              !.provider_catalog = provider_catalog,
                              !.non_interactive = TRUE, !.review_all = FALSE,
                              !.fields = <<>>, !.overrides = <<>>]
  BY <1>1, <1>4
<1>6. /\ DOMAIN new = DOMAIN args
      /\ new.answers = {one} /\ new.template = names
      /\ new.template_catalog = template_catalog /\ new.provider_catalog = provider_catalog
      /\ new.overrides = <<>>
  BY <1>5 DEF WizardShaped, IsCommandLine
<1>7. IsCommandLine(new)
  <2>1. AtMostOne({one})
    BY DEF AtMostOne
  <2>2. Len(new.overrides) \in Nat /\ DOMAIN new.overrides = 1 .. Len(new.overrides)
    BY <1>6
  <2>3. QED
    BY <1>2, <1>3, <1>4, <1>6, <2>1, <2>2 DEF WizardShaped, IsCommandLine
<1>8. emitted' # <<>> /\ emitted'[1].answers = answers /\ answers' = BlankDocument
  BY DEF Replay
<1>9. QED
  BY <1>5, <1>7, <1>8, BlankIsDocument DEF WizardShaped

\* Every step leaves a command line and documents.
LEMMA WizardShapedStep == ASSUME WizardShaped, Next PROVE WizardShaped'
<1>1. CASE phase \notin {"start", "done"}
  <2>1. DocumentStep(answers, answers') /\ UNCHANGED <<args, emitted>>
    BY <1>1, AnswersStep DEF WizardShaped
  <2>2. QED
    BY <2>1 DEF WizardShaped, DocumentStep
<1>2. CASE LoadAnswers
  <2>1. CASE answers' # answers
    BY <1>2, <2>1, LoadedDocument DEF WizardShaped
  <2>2. CASE answers' = answers
    <3>1. UNCHANGED <<args, emitted>>
      BY <1>2 DEF LoadAnswers, Loaded, Fail
    <3>2. QED
      BY <2>2, <3>1 DEF WizardShaped
  <2>3. QED
    BY <2>1, <2>2
<1>3. CASE PrintSchema \/ ListTemplates
  BY <1>3 DEF PrintSchema, ListTemplates, Done, Fail, WizardShaped
<1>4. CASE Replay
  BY <1>4, ReplayIsShaped
<1>5. CASE phase \in {"start", "done"}
  BY <1>2, <1>3, <1>4, <1>5
     DEF Next, SelectTemplate, LoadProviders, ApplyOverrides, AskMode, AskTopology, BeginQuestions,
         AnswerQuestion, EndQuestions, AskField, EndFields, ValidateManifest, EmitManifest, DryRun, Execute
<1>6. QED
  BY <1>1, <1>5

\* The command line and the documents keep their shape.
LEMMA WizardShapedInvariant == CliSpec => []WizardShaped
<1>1. CliInit => WizardShaped
  <2>1. SUFFICES ASSUME Init PROVE WizardShaped
    BY DEF CliInit
  <2>2. IsCommandLine(args) /\ \A source \in args.answers : source.scheme # "emitted"
    BY <2>1, WizardAssumption DEF Init
  <2>3. answers = BlankDocument /\ emitted = <<>>
    BY <2>1 DEF Init
  <2>4. QED
    BY <2>2, <2>3, BlankIsDocument DEF WizardShaped
<1>2. WizardShaped /\ [CliNext]_cliVars => WizardShaped'
  <2>1. SUFFICES ASSUME WizardShaped, Next \/ UNCHANGED vars PROVE WizardShaped'
    BY DEF CliNext, cliVars
  <2>2. CASE UNCHANGED vars
    BY <2>1, <2>2 DEF vars, WizardShaped
  <2>3. QED
    BY <2>1, <2>2, WizardShapedStep
<1>3. QED
  BY <1>1, <1>2, PTL DEF CliSpec

\* Nothing that has been answered is changed by a later question, for every
\* template, catalog and document (apply_template_defaults,
\* prompt_design_flow_with, prompt_if_missing).
THEOREM AnsweredOnce == CliSpec => AnswersAreKept
<1>1. WizardShaped /\ [CliNext]_cliVars =>
        [(phase \notin {"start", "done"}) =>
           /\ \A k \in DOMAIN answers.design :
                k \in DOMAIN answers'.design /\ answers'.design[k] = answers.design[k]
           /\ phase # "overrides" => \A c \in DOMAIN answers.overrides :
                c \in DOMAIN answers'.overrides /\ answers'.overrides[c] = answers.overrides[c]]_vars
  <2>1. SUFFICES ASSUME WizardShaped, Next, phase \notin {"start", "done"}
                 PROVE  /\ Keeps(answers.design, answers'.design)
                        /\ phase # "overrides" => Keeps(answers.overrides, answers'.overrides)
    BY DEF CliNext, cliVars, Keeps
  <2>2. DocumentStep(answers, answers')
    BY <2>1, AnswersStep DEF WizardShaped
  <2>3. QED
    BY <2>2 DEF DocumentStep
<1>2. QED
  BY <1>1, WizardShapedInvariant, PTL DEF CliSpec, AnswersAreKept

-----------------------------------------------------------------------------
(* Precedence of the fields.                                               *)

\* How far a run has come with the answers it will use.
FromDocument == {"template", "providers", "overrides"}
WithFlags == {"mode", "topology", "questions", "fields", "build", "emit", "output"}

\* The order of run_wizard.
LEMMA PhaseStep ==
  ASSUME Next
  PROVE  /\ phase = "start" => phase' \in {"template", "done", "failed"}
         /\ phase \in {"template", "providers"} => phase' \in FromDocument \cup {"failed"}
         /\ phase = "overrides" =>
              phase' = "failed" \/ (phase' \in WithFlags /\ answers' = WithOverrides(answers))
         /\ phase \in WithFlags => phase' \in WithFlags \cup {"done", "failed"}
         /\ phase = "done" => phase' = "start"
         /\ phase \in {"start", "done"} \cup FromDocument \cup WithFlags
<1>1. CASE phase = "start"
  BY <1>1 DEF Next, PrintSchema, ListTemplates, LoadAnswers, Loaded, Done, Fail, SelectTemplate,
      LoadProviders, ApplyOverrides, AskMode, AskTopology, BeginQuestions, AnswerQuestion, EndQuestions,
      AskField, EndFields, ValidateManifest, EmitManifest, DryRun, Execute, Replay,
      FromDocument, WithFlags
<1>2. CASE SelectTemplate \/ LoadProviders
  BY <1>2 DEF SelectTemplate, WithTemplate, LoadProviders, Fail, FromDocument, WithFlags
<1>3. CASE ApplyOverrides
  BY <1>3 DEF ApplyOverrides, Fail, FromDocument, WithFlags
<1>4. CASE AskMode \/ AskTopology \/ BeginQuestions \/ AnswerQuestion \/ EndQuestions \/ AskField \/ EndFields
  BY <1>4 DEF AskMode, AskTopology, BeginQuestions, AnswerQuestion, EndQuestions, AskField, EndFields,
              FromDocument, WithFlags
<1>5. CASE ValidateManifest \/ EmitManifest \/ DryRun \/ Execute
  BY <1>5 DEF ValidateManifest, EmitManifest, DryRun, Execute, Fail, Done, FromDocument, WithFlags
<1>6. CASE Replay
  BY <1>6 DEF Replay, FromDocument, WithFlags
<1>7. CASE PrintSchema \/ ListTemplates \/ LoadAnswers
  BY <1>1, <1>7 DEF PrintSchema, ListTemplates, LoadAnswers
<1>8. QED
  BY <1>2, <1>3, <1>4, <1>5, <1>6, <1>7 DEF Next

\* The fields that no flag gives.
KeepsOthers(fields, old, new) ==
  \A f \in DOMAIN old \ DOMAIN fields : ~Missing(old, f) => f \in DOMAIN new /\ new[f] = old[f]

\* For each capability the last override of the flags.
OverridesHold(s, overrides) ==
  \A i \in DOMAIN s :
    (\A j \in DOMAIN s : j > i => s[j].capability # s[i].capability) =>
      s[i].capability \in DOMAIN overrides /\ overrides[s[i].capability] = s[i].provider

\* A field that is not missing is there, and what the flags gave stays too.
Precedence ==
  /\ phase \in FromDocument =>
       \A source \in args.answers : KeepsGiven(Document(source).plain, answers.plain)
  /\ phase \in WithFlags =>
       /\ KeepsGiven(args.fields, answers.plain)
       /\ \A source \in args.answers : KeepsOthers(args.fields, Document(source).plain, answers.plain)
       /\ OverridesHold(args.overrides, answers.overrides)

\* The flags replace what the document says, and nothing else.
LEMMA FlagsReplace ==
  ASSUME IsDocument(answers), IsCommandLine(args), NEW new, new = WithOverrides(answers)
  PROVE  /\ KeepsGiven(args.fields, new.plain)
         /\ \A old : KeepsGiven(old, answers.plain) => KeepsOthers(args.fields, old, new.plain)
         /\ OverridesHold(args.overrides, new.overrides)
<1>1. PICK plain, overrides :
        /\ plain = Over(args.fields, answers.plain)
        /\ overrides = FoldLeft(LAMBDA map, o : Put(map, o.capability, o.provider),
                                answers.overrides, args.overrides)
        /\ new.plain = plain /\ new.overrides = overrides
        /\ IsMap(new) /\ DOMAIN new = DOMAIN answers
        /\ new.design = answers.design /\ new.tools = answers.tools
  BY OverridesReplace
<1>2. PICK fields, lower, made :
        /\ fields = args.fields /\ lower = answers.plain /\ made = new.plain /\ made = Over(fields, lower)
  BY <1>1
<1>3. /\ DOMAIN made = DOMAIN fields \cup DOMAIN lower
      /\ \A k \in DOMAIN fields : made[k] = fields[k]
      /\ \A k \in DOMAIN lower \ DOMAIN fields : made[k] = lower[k]
  <2>1. made = Over(fields, lower)
    BY <1>2
  <2>2. QED
    BY ONLY <2>1 DEF Over
<1>4. PICK n \in Nat : DOMAIN args.overrides = 1 .. n
  <2>1. IsCommandLine(args)
    OBVIOUS
  <2>2. QED
    BY ONLY <2>1 DEF IsCommandLine
<1>5. IsMap(answers.overrides)
  BY DEF IsDocument
<1>6. LastStays(args.overrides, n, answers.overrides, overrides)
  BY <1>1, <1>4, <1>5, LastOverrideStays
<1>7. new.overrides = overrides
  BY <1>1
<1>8. OverridesHold(args.overrides, new.overrides)
  BY ONLY <1>4, <1>6, <1>7 DEF LastStays, OverridesHold
<1>9. KeepsGiven(fields, made) /\ \A old : KeepsGiven(old, lower) => KeepsOthers(fields, old, made)
  BY ONLY <1>3 DEF KeepsGiven, KeepsOthers
<1>10. QED
  BY ONLY <1>2, <1>8, <1>9

\* A later step keeps what came from the flags and from the document.
LEMMA PrecedenceStep == ASSUME WizardShaped, Precedence, Next PROVE Precedence'
<1>1. CASE phase \notin {"start", "done"}
  <2>1. DocumentStep(answers, answers') /\ UNCHANGED <<args, emitted>>
    BY <1>1, AnswersStep DEF WizardShaped
  <2>2. \A source : Document(source)' = Document(source)
    BY <2>1 DEF Document
  <2>3. CASE phase \in {"template", "providers"}
    <3>1. \A source \in args.answers : KeepsGiven(Document(source).plain, answers'.plain)
      BY <2>1, <2>3, KeepsGivenTwice DEF DocumentStep, Precedence, FromDocument
    <3>2. phase' \notin WithFlags
      BY <2>3, PhaseStep DEF FromDocument, WithFlags
    <3>3. QED
      BY <2>1, <2>2, <3>1, <3>2 DEF Precedence
  <2>4. CASE phase = "overrides"
    <3>1. phase' \notin FromDocument
      BY <2>4, PhaseStep DEF FromDocument, WithFlags
    <3>2. phase' \notin WithFlags \/ answers' = WithOverrides(answers)
      BY <2>4, PhaseStep DEF WithFlags
    <3>3. ASSUME answers' = WithOverrides(answers)
          PROVE  /\ KeepsGiven(args.fields, answers'.plain)
                 /\ \A source \in args.answers :
                      KeepsOthers(args.fields, Document(source).plain, answers'.plain)
                 /\ OverridesHold(args.overrides, answers'.overrides)
      <4>1. PICK new : new = answers' /\ new = WithOverrides(answers)
        BY <3>3
      <4>2. /\ KeepsGiven(args.fields, new.plain)
            /\ \A old : KeepsGiven(old, answers.plain) => KeepsOthers(args.fields, old, new.plain)
            /\ OverridesHold(args.overrides, new.overrides)
        BY <4>1, FlagsReplace DEF WizardShaped
      <4>3. \A source \in args.answers : KeepsGiven(Document(source).plain, answers.plain)
        BY <2>4 DEF Precedence, FromDocument
      <4>4. QED
        BY <4>1, <4>2, <4>3
    <3>4. QED
      BY <2>1, <2>2, <3>1, <3>2, <3>3 DEF Precedence
  <2>5. CASE phase \in WithFlags
    <3>1. phase # "overrides" /\ phase' \notin FromDocument
      BY <2>5, PhaseStep DEF FromDocument, WithFlags
    <3>2. KeepsGiven(answers.plain, answers'.plain) /\ Keeps(answers.overrides, answers'.overrides)
      BY <2>1, <3>1 DEF DocumentStep
    <3>3. KeepsGiven(args.fields, answers'.plain)
      BY <2>5, <3>2, KeepsGivenTwice DEF Precedence
    <3>4. \A old : KeepsOthers(args.fields, old, answers.plain) => KeepsOthers(args.fields, old, answers'.plain)
      BY <3>2 DEF KeepsOthers, KeepsGiven, Missing
    <3>5. OverridesHold(args.overrides, answers'.overrides)
      BY <2>5, <3>2 DEF Precedence, OverridesHold, Keeps
    <3>6. QED
      BY <2>1, <2>2, <2>5, <3>1, <3>3, <3>4, <3>5 DEF Precedence
  <2>6. QED
    BY <1>1, <2>3, <2>4, <2>5, PhaseStep DEF FromDocument
<1>2. CASE phase = "start"
  <2>1. CASE phase' \in FromDocument
    <3>1. LoadAnswers /\ phase' = "template"
      BY <1>2, <2>1, PhaseStep
         DEF Next, PrintSchema, ListTemplates, Done, Fail, SelectTemplate, LoadProviders, ApplyOverrides,
             AskMode, AskTopology, BeginQuestions, AnswerQuestion, EndQuestions, AskField, EndFields,
             ValidateManifest, EmitManifest, DryRun, Execute, Replay, FromDocument
    <3>2. UNCHANGED <<args, emitted>> /\ \A source \in args.answers : answers' = Document(source)
      BY <3>1, LoadedDocument
    <3>3. \A source \in args.answers : KeepsGiven(Document(source).plain, answers'.plain)
      BY <3>2 DEF KeepsGiven
    <3>4. \A source : Document(source)' = Document(source)
      BY <3>2 DEF Document
    <3>5. QED
      BY <3>1, <3>2, <3>3, <3>4 DEF Precedence, WithFlags
  <2>2. CASE phase' \notin FromDocument
    <3>1. phase' \notin WithFlags
      BY <1>2, PhaseStep DEF WithFlags
    <3>2. QED
      BY <2>2, <3>1 DEF Precedence
  <2>3. QED
    BY <2>1, <2>2
<1>3. CASE phase = "done"
  BY <1>3, PhaseStep DEF Precedence, FromDocument, WithFlags
<1>4. QED
  BY <1>1, <1>2, <1>3

\* For the fields of the manifest a flag beats the document, the document the
\* template and the template the user, whatever they are (apply_overrides,
\* apply_template_defaults, prompt_if_missing).
THEOREM PrecedenceIsKept == CliSpec => []FieldsKeepTheirPrecedence
<1>1. CliInit => Precedence
  BY DEF CliInit, Init, Precedence, FromDocument, WithFlags
<1>2. WizardShaped /\ Precedence /\ [CliNext]_cliVars => Precedence'
  <2>1. SUFFICES ASSUME WizardShaped, Precedence, Next \/ UNCHANGED vars PROVE Precedence'
    BY DEF CliNext, cliVars
  <2>2. CASE UNCHANGED vars
    BY <2>1, <2>2 DEF vars, Precedence, Document
  <2>3. QED
    BY <2>1, <2>2, PrecedenceStep
<1>3. Precedence => FieldsKeepTheirPrecedence
  BY DEF Precedence, FieldsKeepTheirPrecedence, WithFlags, KeepsGiven, KeepsOthers, OverridesHold
<1>4. QED
  BY <1>1, <1>2, <1>3, WizardShapedInvariant, PTL DEF CliSpec

-----------------------------------------------------------------------------
(* The replay of a printed document.                                       *)

AfterTemplate == {"providers", "overrides"} \cup WithFlags
AfterProviders == {"overrides"} \cup WithFlags
DryRunDone == phase = "done" /\ result[1].mode = "dry_run"

\* The document has what the template's defaults would fill in.
HasDefaults(document, chosen) ==
  /\ \A f \in DOMAIN chosen.values \ Texts : f \in DOMAIN document.plain
  /\ document.template # {}
  /\ chosen.count = {} \/ AgentCount \in DOMAIN document.design

TemplatesReadable == \A path \in TemplatePath : OnDisk(path) \in DOMAIN TemplateCatalogs
ProvidersReadable == \A path \in ProviderPath : OnDisk(path) \in DOMAIN ProviderCatalogs

\* What a template, the providers, the worker and the output come from.
TemplateFollows ==
  /\ phase \notin {"start", "done", "failed"} \/ DryRunDone => ~args.schema /\ ~args.list
  /\ (phase \in AfterTemplate \/ DryRunDone) /\ template # <<>> =>
       /\ template = <<template[1]>>
       /\ TemplatesReadable
       /\ HasDefaults(answers, template[1])

LoadedProviders ==
  IF ProviderPath = {} THEN <<>>
  ELSE LET path == CHOOSE p \in ProviderPath : TRUE
       IN  <<FilterBySuitability(ProviderCatalogs[OnDisk(path)], args.env)>>

ProvidersFollow ==
  phase \in AfterProviders \/ DryRunDone => providers = LoadedProviders /\ ProvidersReadable

WorkerFollows ==
  phase \in {"emit", "output"} \/ DryRunDone => Validate(BuildManifest(answers)) = {}

DryRunOutput(document, chosen, catalogs) ==
  [mode |-> "dry_run", task |-> Task(document),
   review |-> [i \in DOMAIN chosen |-> Review(document, chosen[i], catalogs)]]

OutputFollows ==
  DryRunDone => args.dry_run /\ result = <<DryRunOutput(answers, template, providers)>>

RunInv == TemplateFollows /\ ProvidersFollow /\ WorkerFollows /\ OutputFollows

\* What a dry run has settled on: a valid worker, and a template that has
\* nothing to add to its document.
SettledOn(document, chosen) ==
  /\ ~args.schema /\ ~args.list /\ args.dry_run
  /\ Validate(BuildManifest(document)) = {}
  /\ ProvidersReadable
  /\ chosen = <<>> \/ (/\ chosen = <<chosen[1]>> /\ TemplatesReadable
                       /\ TemplateDefaults(document, chosen[1]) = document)

\* The command line of a replay asks for what the first run settled on.
Replaying(chosen) ==
  /\ args.answers = {[scheme |-> "emitted", name |-> ""]}
  /\ args.non_interactive /\ ~args.review_all /\ args.fields = <<>> /\ args.overrides = <<>>
  /\ SettledOn(emitted[1].answers, chosen)
  /\ emitted[1].result = DryRunOutput(emitted[1].answers, chosen, LoadedProviders)
  /\ chosen = <<>> => args.template = {}
  /\ chosen # <<>> => \E path \in TemplatePath : \E id \in NamesOf(chosen[1], path) : args.template = {id}

\* And it settles on that again, step by step.
SettlesAgain(chosen) ==
  /\ phase \in {"start", "failed"} \/ answers = emitted[1].answers
  /\ phase \in AfterTemplate \cup {"done"} => template = chosen
  /\ phase \in AfterProviders \cup {"done"} => providers = LoadedProviders
  /\ phase \notin {"mode", "topology", "questions", "fields"}
  /\ phase = "failed" => error = {"manifest_write"}
  /\ phase = "done" => result = <<emitted[1].result>>

\* A worker that is valid has all the texts of its manifest.
LEMMA TextsAreGiven ==
  ASSUME NEW document, Validate(BuildManifest(document)) = {}
  PROVE  \A f \in Texts : document.plain[f] # ""
<1>1. PICK manifest : manifest = BuildManifest(document)
  OBVIOUS
<1>2. PICK problems : problems = Problems(manifest)
  OBVIOUS
<1>3. FirstProblem(problems) = {}
  BY <1>1, <1>2 DEF Validate, OrElse
<1> DEFINE Problem(what, holds) == [what |-> what, holds |-> holds]
           unsupported == Problem("unsupported_version", manifest.version # SchemaVersion)
           team == Problem("empty_team", manifest.team_policy.enabled /\ "" \in manifest.team_policy.default)
           capabilities == Problem("invalid_capabilities", ~manifest.capabilities)
           strict == Problem("strict_output_mismatch",
             manifest.policy = "strict_requested" /\ manifest.output \in {"worker_default", "match_human"})
           version == Problem("empty_version", manifest.version = "")
           id == Problem("empty_id", manifest.id = "")
           name == Problem("empty_display_name", manifest.display_name = "")
           worker == Problem("empty_worker_version", "" \in manifest.worker_version)
           tenant == Problem("empty_tenant", manifest.tenant = "")
           locale == Problem("empty_default_locale", manifest.default_locale = "")
<1>4. problems = <<version, unsupported, id, name, worker, tenant, team, capabilities, locale, strict>>
  BY <1>2 DEF Problems
<1>5. \A what, holds : Problem(what, holds).holds = holds
  OBVIOUS
<1>6. /\ id.holds = (manifest.id = "") /\ name.holds = (manifest.display_name = "")
       /\ worker.holds = ("" \in manifest.worker_version)
       /\ tenant.holds = (manifest.tenant = "") /\ locale.holds = (manifest.default_locale = "")
  <2> HIDE DEF Problem
  <2>1. QED
    BY <1>5, Zenon DEF id, name, worker, tenant, locale
<1> HIDE DEF version, unsupported, id, name, worker, tenant, team, capabilities, locale, strict
<1>7. DOMAIN problems = 1 .. 10
  BY <1>4
<1>8. \A k \in 1 .. 10 : ~problems[k].holds
  <2> DEFINE found == {k \in DOMAIN problems : problems[k].holds}
  <2>1. found \subseteq Nat
    BY <1>7
  <2>2. ASSUME found # {} PROVE FALSE
    <3> HIDE DEF found
    <3>1. PICK i \in found : \A k \in found : i <= k
      BY <2>1, <2>2, LeastNumber
    <3>2. i \in Least(found)
      BY <3>1 DEF Least
    <3>3. problems[i].what \in FirstProblem(problems)
      BY <3>2 DEF FirstProblem, found
    <3>4. QED
      BY <1>3, <3>3
  <2>3. QED
    BY <1>7, <2>2
<1>9. /\ problems[3] = id /\ problems[4] = name /\ problems[5] = worker
      /\ problems[6] = tenant /\ problems[9] = locale
  BY <1>4
<1>10. ~id.holds /\ ~name.holds /\ ~worker.holds /\ ~tenant.holds /\ ~locale.holds
  BY <1>8, <1>9
<1>11. /\ manifest.id # "" /\ manifest.display_name # "" /\ "" \notin manifest.worker_version
      /\ manifest.tenant # "" /\ manifest.default_locale # ""
  BY ONLY <1>6, <1>10, Zenon
<1>12. /\ manifest.id = document.plain.manifest_id
      /\ manifest.display_name = document.plain.display_name
      /\ manifest.worker_version = {document.plain.manifest_version}
      /\ manifest.tenant = document.plain.tenant
      /\ manifest.default_locale = document.plain.worker_default_locale
  BY <1>1 DEF BuildManifest
<1>13. QED
  BY <1>11, <1>12 DEF Texts

\* Where nothing is missing, defaults change nothing.
LEMMA NothingFilled ==
  ASSUME NEW plain, IsMap(plain), NEW defaults, \A g \in DOMAIN defaults : ~Missing(plain, g)
  PROVE  Filled(plain, defaults) = plain
<1> DEFINE gaps == [f \in {g \in DOMAIN defaults : Missing(plain, g)} |-> defaults[f]]
<1>1. DOMAIN gaps = {}
  OBVIOUS
<1>2. Filled(plain, defaults) = Over(gaps, plain)
  BY DEF Filled
<1> HIDE DEF gaps
<1>3. Over(gaps, plain) = plain
  BY <1>1 DEF Over, IsMap
<1>4. QED
  BY <1>2, <1>3

\* A valid worker's document with the defaults in it is not changed by them.
LEMMA DefaultsSettled ==
  ASSUME NEW document, IsDocument(document), Validate(BuildManifest(document)) = {},
         NEW chosen, HasDefaults(document, chosen)
  PROVE  TemplateDefaults(document, chosen) = document
<1>1. \A f \in Texts : f \in DOMAIN document.plain /\ ~Missing(document.plain, f)
  BY TextsAreGiven DEF IsDocument, Missing
<1>2. PICK named : named = [manifest_id |-> chosen.id, display_name |-> chosen.name]
  OBVIOUS
<1>3. DOMAIN named = {"manifest_id", "display_name"}
  BY <1>2
<1>4. \A g \in DOMAIN named \cup DOMAIN chosen.values : ~Missing(document.plain, g)
  BY <1>1, <1>3 DEF HasDefaults, Missing, Texts
<1>5. IsMap(document.plain)
  BY DEF IsDocument
<1>6. Filled(Filled(document.plain, named), chosen.values) = document.plain
  BY <1>4, <1>5, NothingFilled
<1>7. PICK design :
        /\ design = IF AgentCount \in DOMAIN document.design \/ chosen.count = {} THEN document.design
                    ELSE Put(document.design, AgentCount, CHOOSE n \in chosen.count : TRUE)
        /\ design = document.design
  BY DEF HasDefaults
<1>8. OrElse(document.template, {chosen.id}) = document.template
  BY DEF OrElse, HasDefaults
<1>9. TemplateDefaults(document, chosen)
        = [document EXCEPT !.plain = document.plain, !.template = document.template, !.design = document.design]
  BY <1>2, <1>6, <1>7, <1>8 DEF TemplateDefaults
<1>10. QED
  BY <1>9 DEF IsDocument, IsMap

\* What the defaults leave behind.
LEMMA DefaultsAreThere ==
  ASSUME NEW document, IsDocument(document), NEW chosen, NEW new, new = TemplateDefaults(document, chosen)
  PROVE  HasDefaults(new, chosen)
<1>1. PICK plain, selected, design :
        /\ plain = Filled(Filled(document.plain, [manifest_id |-> chosen.id, display_name |-> chosen.name]),
                          chosen.values)
        /\ selected = OrElse(document.template, {chosen.id})
        /\ design = IF AgentCount \in DOMAIN document.design \/ chosen.count = {} THEN document.design
                    ELSE Put(document.design, AgentCount, CHOOSE n \in chosen.count : TRUE)
        /\ new = [document EXCEPT !.plain = plain, !.template = selected, !.design = design]
  BY DEF TemplateDefaults
<1>2. new.plain = plain /\ new.template = selected /\ new.design = design
  <2>1. new = [document EXCEPT !.plain = plain, !.template = selected, !.design = design]
    BY <1>1
  <2>2. QED
    BY ONLY <2>1, IsDocument(document) DEF IsDocument
<1>3. DOMAIN chosen.values \subseteq DOMAIN plain
  <2>1. PICK middle, values : values = chosen.values /\ plain = Filled(middle, values)
    BY <1>1
  <2>2. DOMAIN plain = DOMAIN middle \cup DOMAIN values
    BY ONLY <2>1, FilledFacts
  <2>3. QED
    BY ONLY <2>1, <2>2
<1>4. selected # {}
  BY <1>1 DEF OrElse
<1>5. chosen.count = {} \/ AgentCount \in DOMAIN design
  <2>1. ASSUME AgentCount \notin DOMAIN document.design, NEW n, design = Put(document.design, AgentCount, n)
        PROVE  AgentCount \in DOMAIN design
    BY ONLY <2>1 DEF Put
  <2>2. QED
    BY <1>1, <2>1
<1>6. QED
  BY <1>2, <1>3, <1>4, <1>5 DEF HasDefaults

\* Only apply_template_defaults writes the document's template.
LEMMA TemplateStays ==
  ASSUME IsDocument(answers), Next, phase \notin {"start", "done"}
  PROVE  phase = "template" \/ answers'.template = answers.template
<1>1. "template" \in DOMAIN answers /\ \A f \in {"plain", "mode", "overrides", "design", "agents"} : f # "template"
  BY DEF IsDocument
<1>2. CASE SelectTemplate
  BY <1>2 DEF SelectTemplate
<1>3. CASE ApplyOverrides
  <2>1. answers' = answers \/ answers' = WithOverrides(answers)
    BY <1>3 DEF ApplyOverrides, Fail
  <2>2. ASSUME NEW new, new = WithOverrides(answers) PROVE new.template = answers.template
    BY <2>2, OverridesReplace
  <2>3. QED
    BY <2>1, <2>2
<1>4. CASE AskMode \/ AskTopology \/ AskField
  <2>1. ASSUME NEW value, answers' = [answers EXCEPT !.mode = value] \/ answers' = [answers EXCEPT !.design = value]
                          \/ answers' = [answers EXCEPT !.plain = value]
        PROVE  answers'.template = answers.template
    <3>1. PICK new : new = answers' /\ \/ new = [answers EXCEPT !.mode = value]
                                       \/ new = [answers EXCEPT !.design = value]
                                       \/ new = [answers EXCEPT !.plain = value]
      BY <2>1
    <3>2. new.template = answers.template
      BY <1>1, <3>1
    <3>3. QED
      BY <3>1, <3>2
  <2>2. QED
    BY <1>4, <2>1 DEF AskMode, AskTopology, AskField
<1>5. CASE AnswerQuestion
  <2>1. ASSUME NEW block, NEW key, NEW value, answers' = Store(answers, block, key, value)
        PROVE  answers'.template = answers.template
    BY <2>1 DEF Store
  <2>2. QED
    BY <1>5, <2>1 DEF AnswerQuestion
<1>6. CASE LoadProviders \/ BeginQuestions \/ EndQuestions \/ EndFields
  BY <1>6 DEF LoadProviders, BeginQuestions, EndQuestions, EndFields, Fail
<1>7. CASE ValidateManifest \/ EmitManifest \/ DryRun \/ Execute
  BY <1>7 DEF ValidateManifest, EmitManifest, DryRun, Execute, Fail, Done
<1>8. QED
  BY <1>2, <1>3, <1>4, <1>5, <1>6, <1>7 DEF Next, PrintSchema, ListTemplates, LoadAnswers, Replay

\* What the template's defaults have filled in stays.
LEMMA DefaultsStay ==
  ASSUME IsDocument(answers), IsCommandLine(args), Next, phase \notin {"start", "done", "template"},
         NEW chosen, HasDefaults(answers, chosen)
  PROVE  HasDefaults(answers', chosen)
<1>1. DocumentStep(answers, answers') /\ answers'.template = answers.template
  BY AnswersStep, TemplateStays
<1>2. \A f \in DOMAIN answers.plain \ Texts : f \in DOMAIN answers'.plain
  <2>1. CASE phase = "overrides"
    <3>1. answers' = answers \/ answers' = WithOverrides(answers)
      BY <1>1, <2>1 DEF DocumentStep
    <3>2. ASSUME NEW new, new = WithOverrides(answers) PROVE DOMAIN answers.plain \subseteq DOMAIN new.plain
      <4>1. PICK upper, lower : lower = answers.plain /\ new.plain = Over(upper, lower)
        BY <3>2, OverridesReplace
      <4>2. DOMAIN lower \subseteq DOMAIN Over(upper, lower)
        BY ONLY TRUE DEF Over
      <4>3. QED
        BY ONLY <4>1, <4>2
    <3>3. QED
      BY <3>1, <3>2
  <2>2. CASE phase # "overrides"
    BY <1>1, <2>2 DEF DocumentStep, KeepsGiven, Missing
  <2>3. QED
    BY <2>1, <2>2
<1>3. AgentCount \in DOMAIN answers.design => AgentCount \in DOMAIN answers'.design
  BY <1>1 DEF DocumentStep, Keeps
<1>4. QED
  BY <1>1, <1>2, <1>3 DEF HasDefaults

\* What was read from the catalogs does not change while the command line stays.
LEMMA CatalogsStay ==
  ASSUME args' = args
  PROVE  /\ TemplatePath' = TemplatePath /\ ProviderPath' = ProviderPath
         /\ TemplatesReadable' = TemplatesReadable /\ ProvidersReadable' = ProvidersReadable
         /\ LoadedProviders' = LoadedProviders
BY DEF TemplatePath, ProviderPath, CatalogPath, TemplatesReadable, ProvidersReadable, LoadedProviders

\* A template comes from the catalog, and its defaults are in the document.
LEMMA TemplateFollowsStep ==
  ASSUME WizardShaped, TemplateFollows, Next PROVE TemplateFollows'
<1>1. CASE phase = "start"
  <2>1. phase' \notin AfterTemplate /\ (DryRunDone' => FALSE)
    <3>1. phase' \in {"template", "failed"} \/ PrintSchema \/ ListTemplates
      BY <1>1 DEF Next, LoadAnswers, Loaded, Fail, SelectTemplate, LoadProviders, ApplyOverrides,
          AskMode, AskTopology, BeginQuestions, AnswerQuestion, EndQuestions, AskField, EndFields,
          ValidateManifest, EmitManifest, DryRun, Execute, Replay
    <3>2. phase' \in {"template", "failed"}
            \/ (phase' = "done" /\ result'[1].mode \in {"schema", "template_catalog"})
      BY <3>1 DEF PrintSchema, ListTemplates, Done, Fail
    <3>3. QED
      BY <3>2 DEF AfterTemplate, WithFlags, DryRunDone
  <2>2. phase' = "template" => args' = args /\ ~args.schema /\ ~args.list
    BY <1>1 DEF Next, PrintSchema, ListTemplates, LoadAnswers, Loaded, Done, Fail, SelectTemplate,
        LoadProviders, ApplyOverrides, AskMode, AskTopology, BeginQuestions, AnswerQuestion, EndQuestions,
        AskField, EndFields, ValidateManifest, EmitManifest, DryRun, Execute, Replay
  <2>3. phase' \in {"template", "done", "failed"}
    BY <1>1, PhaseStep
  <2>4. QED
    BY <2>1, <2>2, <2>3 DEF TemplateFollows
<1>2. CASE phase \notin {"start", "done"}
  <2>1. UNCHANGED <<args, emitted>> /\ ~args.schema /\ ~args.list
    <3>1. phase # "failed"
      BY PhaseStep DEF FromDocument, WithFlags
    <3>2. QED
      BY <1>2, <3>1, AnswersStep DEF WizardShaped, TemplateFollows
  <2>2. CASE phase = "template"
    <3>1. SelectTemplate
      BY <2>2 DEF Next, PrintSchema, ListTemplates, LoadAnswers, LoadProviders, ApplyOverrides,
          AskMode, AskTopology, BeginQuestions, AnswerQuestion, EndQuestions, AskField, EndFields,
          ValidateManifest, EmitManifest, DryRun, Execute, Replay
    <3>2. \/ phase' = "failed"
          \/ phase' = "providers" /\ template' = <<>>
          \/ /\ \E path \in TemplatePath : OnDisk(path) \in DOMAIN TemplateCatalogs
             /\ \E chosen : phase' = "providers" /\ template' = <<chosen>>
                              /\ answers' = TemplateDefaults(answers, chosen)
      BY <3>1 DEF SelectTemplate, WithTemplate, Fail
    <3>3. (\E path \in TemplatePath : OnDisk(path) \in DOMAIN TemplateCatalogs) => TemplatesReadable
      BY AtMostOneCatalog DEF TemplatesReadable, AtMostOne, WizardShaped
    <3>4. ASSUME NEW chosen, answers' = TemplateDefaults(answers, chosen) PROVE HasDefaults(answers', chosen)
      BY <3>4, DefaultsAreThere DEF WizardShaped
    <3>5. ~DryRunDone' /\ ~args'.schema /\ ~args'.list
      BY <2>1, <3>2 DEF DryRunDone
    <3>6. ASSUME phase' = "failed" \/ template' = <<>> PROVE TemplateFollows'
      BY <3>5, <3>6 DEF TemplateFollows, AfterTemplate, WithFlags
    <3>7. ASSUME TemplatesReadable, NEW chosen, template' = <<chosen>>, answers' = TemplateDefaults(answers, chosen)
          PROVE  TemplateFollows'
      <4>1. template'[1] = chosen /\ HasDefaults(answers', chosen)
        BY <3>4, <3>7
      <4>2. TemplatesReadable'
        BY <2>1, <3>7, CatalogsStay
      <4>3. QED
        BY <3>5, <3>7, <4>1, <4>2 DEF TemplateFollows
    <3>8. QED
      BY <3>2, <3>3, <3>6, <3>7
  <2>3. CASE phase # "template"
    <3>1. phase \in AfterTemplate
      BY <1>2, <2>3, PhaseStep DEF AfterTemplate, FromDocument, WithFlags
    <3>2. template' = template
      BY <1>2, <2>3 DEF Next, PrintSchema, ListTemplates, LoadAnswers, SelectTemplate, LoadProviders,
          ApplyOverrides, AskMode, AskTopology, BeginQuestions, AnswerQuestion, EndQuestions, AskField,
          EndFields, ValidateManifest, EmitManifest, DryRun, Execute, Replay, Fail, Done
    <3>3. template # <<>> =>
            template = <<template[1]>> /\ TemplatesReadable /\ HasDefaults(answers', template[1])
      BY <1>2, <2>3, <3>1, DefaultsStay DEF TemplateFollows, WizardShaped
    <3>4. QED
      BY <2>1, <3>2, <3>3, CatalogsStay DEF TemplateFollows
  <2>4. QED
    BY <2>2, <2>3
<1>3. CASE phase = "done"
  BY <1>3, PhaseStep DEF TemplateFollows, AfterTemplate, WithFlags, DryRunDone
<1>4. QED
  BY <1>1, <1>2, <1>3

\* The providers are those of the catalog, as far as they suit the environment.
LEMMA ProvidersFollowStep ==
  ASSUME WizardShaped, ProvidersFollow, Next PROVE ProvidersFollow'
<1>1. CASE phase \in {"start", "template", "done"}
  <2>1. phase' \notin AfterProviders
    <3>1. CASE phase = "template"
      <4>1. SelectTemplate
        BY <3>1 DEF Next, PrintSchema, ListTemplates, LoadAnswers, LoadProviders, ApplyOverrides,
            AskMode, AskTopology, BeginQuestions, AnswerQuestion, EndQuestions, AskField, EndFields,
            ValidateManifest, EmitManifest, DryRun, Execute, Replay
      <4>2. phase' \in {"providers", "failed"}
        BY <4>1 DEF SelectTemplate, WithTemplate, Fail
      <4>3. QED
        BY <4>2 DEF AfterProviders, WithFlags
    <3>2. CASE phase # "template"
      BY <1>1, <3>2, PhaseStep DEF AfterProviders, WithFlags
    <3>3. QED
      BY <3>1, <3>2
  <2>2. ~DryRunDone'
    <3>1. phase' # "done" \/ PrintSchema \/ ListTemplates
      BY <1>1 DEF Next, LoadAnswers, Loaded, Fail, SelectTemplate, WithTemplate, LoadProviders, ApplyOverrides,
          AskMode, AskTopology, BeginQuestions, AnswerQuestion, EndQuestions, AskField, EndFields,
          ValidateManifest, EmitManifest, DryRun, Execute, Replay
    <3>2. phase' # "done" \/ result'[1].mode \in {"schema", "template_catalog"}
      BY <3>1 DEF PrintSchema, ListTemplates, Done, Fail
    <3>3. QED
      BY <3>2 DEF DryRunDone
  <2>3. QED
    BY <2>1, <2>2 DEF ProvidersFollow
<1>2. CASE phase = "providers"
  <2>1. LoadProviders
    BY <1>2 DEF Next, PrintSchema, ListTemplates, LoadAnswers, SelectTemplate, ApplyOverrides,
        AskMode, AskTopology, BeginQuestions, AnswerQuestion, EndQuestions, AskField, EndFields,
        ValidateManifest, EmitManifest, DryRun, Execute, Replay
  <2>2. \/ phase' = "failed"
        \/ /\ providers' = LoadedProviders /\ args' = args
           /\ ProviderPath = {} \/ \E path \in ProviderPath : OnDisk(path) \in DOMAIN ProviderCatalogs
    BY <2>1 DEF LoadProviders, LoadedProviders, Fail
  <2>3. (ProviderPath = {} \/ \E path \in ProviderPath : OnDisk(path) \in DOMAIN ProviderCatalogs)
          => ProvidersReadable
    BY AtMostOneCatalog DEF ProvidersReadable, AtMostOne, WizardShaped
  <2>4. QED
    BY <2>2, <2>3, CatalogsStay DEF ProvidersFollow, AfterProviders, WithFlags, DryRunDone
<1>3. CASE phase \in AfterProviders
  <2>1. args' = args
    BY <1>3, AnswersStep DEF WizardShaped, AfterProviders, WithFlags
  <2>2. providers' = providers
    BY <1>3 DEF AfterProviders, WithFlags, Next, PrintSchema, ListTemplates, LoadAnswers, SelectTemplate,
        LoadProviders, ApplyOverrides, AskMode, AskTopology, BeginQuestions, AnswerQuestion, EndQuestions,
        AskField, EndFields, ValidateManifest, EmitManifest, DryRun, Execute, Replay, Fail, Done
  <2>3. QED
    BY <1>3, <2>1, <2>2, CatalogsStay DEF ProvidersFollow
<1>4. QED
  BY <1>1, <1>2, <1>3, PhaseStep DEF AfterProviders, FromDocument

\* Only a valid worker is written and printed, and printed as it is.
LEMMA OutputFollowsStep ==
  ASSUME WorkerFollows, OutputFollows, Next PROVE WorkerFollows' /\ OutputFollows'
<1>1. CASE phase \notin {"build", "emit", "output"}
  <2>1. phase' \notin {"emit", "output"}
    BY <1>1, PhaseStep DEF FromDocument, Next, PrintSchema, ListTemplates, LoadAnswers, SelectTemplate,
        LoadProviders, ApplyOverrides, AskMode, AskTopology, BeginQuestions, AnswerQuestion, EndQuestions,
        AskField, EndFields, ValidateManifest, EmitManifest, DryRun, Execute, Replay, Fail, Done
  <2>2. phase' # "done" \/ PrintSchema \/ ListTemplates
    BY <1>1 DEF Next, LoadAnswers, Loaded, Fail, SelectTemplate, WithTemplate, LoadProviders, ApplyOverrides,
        AskMode, AskTopology, BeginQuestions, AnswerQuestion, EndQuestions, AskField, EndFields,
        ValidateManifest, EmitManifest, DryRun, Execute, Replay
  <2>3. phase' # "done" \/ result'[1].mode \in {"schema", "template_catalog"}
    BY <2>2 DEF PrintSchema, ListTemplates, Done, Fail
  <2>4. QED
    BY <2>1, <2>3 DEF WorkerFollows, OutputFollows, DryRunDone
<1>2. CASE phase = "build"
  <2>1. ValidateManifest
    BY <1>2 DEF Next, PrintSchema, ListTemplates, LoadAnswers, SelectTemplate, LoadProviders, ApplyOverrides,
        AskMode, AskTopology, BeginQuestions, AnswerQuestion, EndQuestions, AskField, EndFields,
        EmitManifest, DryRun, Execute, Replay
  <2>2. phase' = "failed" \/ (phase' = "emit" /\ answers' = answers /\ Validate(BuildManifest(answers)) = {})
    BY <2>1 DEF ValidateManifest, Fail
  <2>3. answers' = answers => Validate(BuildManifest(answers))' = Validate(BuildManifest(answers))
    BY DEF BuildManifest
  <2>4. QED
    BY <2>2, <2>3 DEF WorkerFollows, OutputFollows, DryRunDone
<1>3. CASE phase \in {"emit", "output"}
  <2>1. EmitManifest \/ DryRun \/ Execute
    BY <1>3 DEF Next, PrintSchema, ListTemplates, LoadAnswers, SelectTemplate, LoadProviders, ApplyOverrides,
        AskMode, AskTopology, BeginQuestions, AnswerQuestion, EndQuestions, AskField, EndFields,
        ValidateManifest, Replay
  <2>2. UNCHANGED <<args, answers, template, providers>>
    BY <2>1 DEF EmitManifest, DryRun, Execute, Fail, Done
  <2>3. Validate(BuildManifest(answers))' = {}
    BY <1>3, <2>2 DEF WorkerFollows, BuildManifest
  <2>4. CASE DryRun
    <3>1. args.dry_run /\ result' = <<DryRunOutput(answers, template, providers)>>
      BY <2>4 DEF DryRun, Done, DryRunOutput
    <3>2. DryRunOutput(answers, template, providers)' = DryRunOutput(answers, template, providers)
      BY <2>2
    <3>3. QED
      BY <2>2, <2>3, <3>1, <3>2 DEF WorkerFollows, OutputFollows
  <2>5. CASE EmitManifest
    BY <2>3, <2>5 DEF EmitManifest, Fail, WorkerFollows, OutputFollows, DryRunDone
  <2>6. CASE Execute
    <3>1. result'[1].mode = "execute" /\ phase' = "done"
      BY <2>6 DEF Execute, Done
    <3>2. QED
      BY <2>3, <3>1 DEF WorkerFollows, OutputFollows, DryRunDone
  <2>7. QED
    BY <2>1, <2>4, <2>5, <2>6
<1>4. QED
  BY <1>1, <1>2, <1>3

\* Without flags a document stays as it is.
LEMMA NoFlags ==
  ASSUME NEW document, IsDocument(document), args.fields = <<>>, args.overrides = <<>>, ~args.review_all,
         NEW new, new = WithOverrides(document)
  PROVE  new = document
<1>1. PICK plain, overrides :
        /\ plain = Over(args.fields, document.plain)
        /\ overrides = FoldLeft(LAMBDA map, o : Put(map, o.capability, o.provider),
                                document.overrides, args.overrides)
        /\ new.plain = plain /\ new.overrides = overrides
        /\ IsMap(new) /\ DOMAIN new = DOMAIN document
        /\ new.design = document.design /\ new.tools = document.tools
        /\ new.template = document.template /\ new.agents = document.agents
        /\ new.mode = IF args.review_all THEN {"review_all"} ELSE document.mode
  BY OverridesReplace
<1>2. plain = document.plain
  <2>1. plain = Over(<<>>, document.plain)
    BY <1>1
  <2>2. IsMap(document.plain)
    BY DEF IsDocument
  <2>3. QED
    BY ONLY <2>1, <2>2 DEF Over, IsMap
<1>3. overrides = document.overrides
  <2>1. IsMap(document.overrides)
    BY DEF IsDocument
  <2>2. DOMAIN args.overrides = 1 .. 0 /\ 0 \in Nat
    OBVIOUS
  <2>3. LastStays(args.overrides, 0, document.overrides, overrides)
    BY <1>1, <2>1, <2>2, LastOverrideStays
  <2>4. QED
    BY ONLY <2>3 DEF LastStays
<1>4. /\ IsMap(new) /\ DOMAIN new = DOMAIN document
      /\ new.plain = plain /\ new.overrides = overrides
      /\ new.design = document.design /\ new.tools = document.tools
      /\ new.template = document.template /\ new.agents = document.agents
      /\ new.mode = document.mode
  BY <1>1
<1>5. \A k \in DOMAIN document : new[k] = document[k]
  BY ONLY <1>2, <1>3, <1>4, IsDocument(document) DEF IsDocument
<1>6. IsMap(document)
  BY DEF IsDocument
<1>7. QED
  BY ONLY <1>4, <1>5, <1>6 DEF IsMap

\* Of several entries of one id a catalog finds the first.
LEMMA OneEntry ==
  ASSUME NEW path, OnDisk(path) \in DOMAIN TemplateCatalogs, NEW id,
         NEW catalog, catalog = Catalog(path, TemplateCatalogs[OnDisk(path)])
  PROVE  AtMostOne(FindEntry(catalog, id))
<1>1. PICK entries : entries = TemplateCatalogs[OnDisk(path)] /\ Len(entries) \in Nat
                     /\ DOMAIN entries = 1 .. Len(entries)
  BY WizardAssumption
<1>2. DOMAIN catalog.entries = 1 .. Len(entries)
  BY <1>1 DEF Catalog
<1>3. QED
  BY <1>1, <1>2 DEF FindEntry, AtMostOne

\* A finished dry run has settled.
LEMMA DryRunSettles ==
  ASSUME WizardShaped, RunInv, DryRunDone
  PROVE  /\ SettledOn(answers, template)
         /\ result = <<DryRunOutput(answers, template, LoadedProviders)>>
<1>1. Validate(BuildManifest(answers)) = {} /\ ~args.schema /\ ~args.list
      /\ args.dry_run /\ ProvidersReadable /\ providers = LoadedProviders
      /\ result = <<DryRunOutput(answers, template, providers)>>
  BY DEF RunInv, WorkerFollows, TemplateFollows, OutputFollows, ProvidersFollow
<1>2. CASE template = <<>>
  BY <1>1, <1>2 DEF SettledOn
<1>3. CASE template # <<>>
  <2>1. template = <<template[1]>> /\ TemplatesReadable /\ HasDefaults(answers, template[1])
    BY <1>3 DEF RunInv, TemplateFollows
  <2>2. TemplateDefaults(answers, template[1]) = answers
    BY <1>1, <2>1, DefaultsSettled DEF WizardShaped
  <2>3. QED
    BY <1>1, <2>1, <2>2 DEF SettledOn
<1>4. QED
  BY <1>2, <1>3

\* What the replay's command line asks for.
LEMMA ReplayBegins ==
  ASSUME WizardShaped, RunInv, Replay, NEW chosen, chosen = template
  PROVE  Replaying(chosen)' /\ SettlesAgain(chosen)'
<1>1. PICK names \in IF template = <<>> THEN {{}}
                   ELSE {{id} : id \in UNION {NamesOf(template[1], path) : path \in TemplatePath}} :
       args' = [args EXCEPT !.answers = {[scheme |-> "emitted", name |-> ""]},
                            !.template = names,
                            !.template_catalog = TemplatePath, !.provider_catalog = ProviderPath,
                            !.non_interactive = TRUE, !.review_all = FALSE,
                            !.fields = <<>>, !.overrides = <<>>]
  BY DEF Replay
<1>2. PICK template_catalog, provider_catalog, one :
        /\ template_catalog = TemplatePath /\ provider_catalog = ProviderPath
        /\ one = [scheme |-> "emitted", name |-> ""]
  OBVIOUS
<1>3. PICK new :
        /\ new = args'
        /\ new = [args EXCEPT !.answers = {one}, !.template = names,
                              !.template_catalog = template_catalog,
                              !.provider_catalog = provider_catalog,
                              !.non_interactive = TRUE, !.review_all = FALSE,
                              !.fields = <<>>, !.overrides = <<>>]
  BY <1>1, <1>2
<1>4. /\ new.answers = {one} /\ new.template = names
      /\ new.template_catalog = template_catalog /\ new.provider_catalog = provider_catalog
      /\ new.non_interactive /\ ~new.review_all /\ new.fields = <<>> /\ new.overrides = <<>>
      /\ new.env = args.env /\ new.schema = args.schema /\ new.list = args.list
      /\ new.dry_run = args.dry_run
  BY <1>3 DEF WizardShaped, IsCommandLine
<1>5. TemplatePath' = TemplatePath /\ ProviderPath' = ProviderPath
  BY <1>2, <1>3, <1>4 DEF TemplatePath, ProviderPath, CatalogPath
<1>6. /\ TemplatesReadable' = TemplatesReadable /\ ProvidersReadable' = ProvidersReadable
      /\ LoadedProviders' = LoadedProviders
  BY <1>3, <1>4, <1>5 DEF TemplatesReadable, ProvidersReadable, LoadedProviders
<1>7. DryRunDone
  BY DEF Replay, DryRunDone
<1>8. /\ SettledOn(answers, chosen)
      /\ result = <<DryRunOutput(answers, chosen, LoadedProviders)>>
  BY <1>7, DryRunSettles
<1>9. PICK e : e = emitted'[1] /\ e.answers = answers /\ e.result = result[1]
  BY DEF Replay
<1>10. SettledOn(emitted[1].answers, chosen)'
  BY <1>3, <1>4, <1>6, <1>8, <1>9 DEF SettledOn
<1>11. e.result = DryRunOutput(e.answers, chosen, LoadedProviders)
  BY <1>8, <1>9
<1>12. chosen = <<>> => names = {}
  BY <1>1
<1>13. chosen # <<>> => \E path \in TemplatePath : \E id \in NamesOf(chosen[1], path) : names = {id}
  BY <1>1
<1>14. Replaying(chosen)'
  <2>1. /\ args'.answers = {[scheme |-> "emitted", name |-> ""]}
        /\ args'.non_interactive /\ ~args'.review_all /\ args'.fields = <<>> /\ args'.overrides = <<>>
        /\ args'.template = names
    BY <1>2, <1>3, <1>4
  <2>2. emitted'[1].result = DryRunOutput(emitted'[1].answers, chosen, LoadedProviders')
    BY <1>6, <1>9, <1>11
  <2>3. chosen # <<>> =>
          \E path \in TemplatePath' : \E id \in NamesOf(chosen[1], path) : args'.template = {id}
    BY <1>5, <1>13, <2>1
  <2>4. chosen = <<>> => args'.template = {}
    BY <1>12, <2>1
  <2>5. QED
    BY <1>10, <2>1, <2>2, <2>3, <2>4 DEF Replaying
<1>15. phase' = "start"
  BY DEF Replay
<1>16. QED
  BY <1>14, <1>15 DEF SettlesAgain, AfterTemplate, AfterProviders, WithFlags

\* The replay selects the template that was selected before.
LEMMA TemplateAgain ==
  ASSUME WizardShaped, NEW chosen, Replaying(chosen), SettlesAgain(chosen), SelectTemplate
  PROVE  phase' = "providers" /\ template' = chosen /\ answers' = answers
<1>1. phase = "template" /\ answers = emitted[1].answers
  BY DEF SelectTemplate, SettlesAgain
<1>2. CASE chosen = <<>>
  <2>1. args.template = {} /\ args.non_interactive
    BY <1>2 DEF Replaying
  <2>2. WithTemplate(<<>>)
    BY <2>1 DEF SelectTemplate
  <2>3. QED
    BY <1>2, <2>2 DEF WithTemplate
<1>3. CASE chosen # <<>>
  <2>1. PICK path \in TemplatePath : \E id \in NamesOf(chosen[1], path) : args.template = {id}
    BY <1>3 DEF Replaying
  <2>2. PICK id \in NamesOf(chosen[1], path) : args.template = {id}
    BY <2>1
  <2>3. \A other \in TemplatePath : other = path
    BY AtMostOneCatalog DEF AtMostOne, WizardShaped
  <2>4. OnDisk(path) \in DOMAIN TemplateCatalogs
    BY <1>3 DEF Replaying, SettledOn, TemplatesReadable
  <2>5. PICK catalog : catalog = Catalog(path, TemplateCatalogs[OnDisk(path)])
    OBVIOUS
  <2>6. /\ Resolution(catalog, id) = "found"
        /\ \E entry \in FindEntry(catalog, id) :
             /\ OnDisk(Candidate(catalog, entry.path)) \in DOMAIN Templates
             /\ Templates[OnDisk(Candidate(catalog, entry.path))] = chosen[1]
    BY <2>2, <2>5 DEF NamesOf
  <2>7. \A ids : OrElse(args.template, ids) = {id}
    BY <2>2 DEF OrElse
  <2>8. \E entry \in FindEntry(catalog, id) :
          IF OnDisk(Candidate(catalog, entry.path)) \in DOMAIN Templates
            THEN WithTemplate(<<Templates[OnDisk(Candidate(catalog, entry.path))]>>)
            ELSE Fail("descriptor_parse")
    <3>1. args.template # {} /\ TemplatePath # {}
      BY <2>1, <2>2
    <3>2. LET ids == OrElse(args.template, {e.id : e \in ToSet(catalog.entries)})
          IN  \/ ids = {} /\ WithTemplate(<<>>)
              \/ \E i \in ids :
                   IF Resolution(catalog, i) # "found" THEN Fail(Resolution(catalog, i))
                   ELSE \E entry \in FindEntry(catalog, i) :
                          IF OnDisk(Candidate(catalog, entry.path)) \in DOMAIN Templates
                            THEN WithTemplate(<<Templates[OnDisk(Candidate(catalog, entry.path))]>>)
                            ELSE Fail("descriptor_parse")
      BY <2>3, <2>4, <2>5, <3>1 DEF SelectTemplate
    <3>3. QED
      BY <2>6, <2>7, <3>2
  <2>9. AtMostOne(FindEntry(catalog, id))
    BY <2>4, <2>5, OneEntry
  <2>10. WithTemplate(<<chosen[1]>>)
    BY <2>6, <2>8, <2>9 DEF AtMostOne
  <2>11. chosen = <<chosen[1]>> /\ TemplateDefaults(answers, chosen[1]) = answers
    BY <1>1, <1>3 DEF Replaying, SettledOn
  <2>12. WithTemplate(chosen)
    BY <2>10, <2>11
  <2>13. QED
    BY <1>3, <2>11, <2>12 DEF WithTemplate
<1>4. QED
  BY <1>2, <1>3

\* Every step of the replay settles on what the first run did.
LEMMA ReplayContinues ==
  ASSUME WizardShaped, Next, emitted # <<>>, NEW chosen, Replaying(chosen), SettlesAgain(chosen)
  PROVE  emitted' = emitted /\ Replaying(chosen)' /\ SettlesAgain(chosen)'
<1>1. UNCHANGED <<args, emitted>>
  <2>1. CASE phase \in {"start", "done"}
    BY <2>1 DEF Next, PrintSchema, ListTemplates, LoadAnswers, Loaded, Done, Fail, SelectTemplate, LoadProviders,
        ApplyOverrides, AskMode, AskTopology, BeginQuestions, AnswerQuestion, EndQuestions, AskField, EndFields,
        ValidateManifest, EmitManifest, DryRun, Execute, Replay
  <2>2. CASE phase \notin {"start", "done"}
    BY <2>2, AnswersStep DEF WizardShaped
  <2>3. QED
    BY <2>1, <2>2
<1>2. Replaying(chosen)'
  BY <1>1, CatalogsStay DEF Replaying, SettledOn
<1>3. IsDocument(emitted[1].answers) /\ LoadedProviders' = LoadedProviders
  BY <1>1, CatalogsStay DEF WizardShaped
<1>4. CASE phase = "start"
  <2>1. LoadAnswers
    BY <1>4 DEF Replaying, SettledOn, Next, PrintSchema, ListTemplates, SelectTemplate, LoadProviders,
        ApplyOverrides, AskMode, AskTopology, BeginQuestions, AnswerQuestion, EndQuestions, AskField, EndFields,
        ValidateManifest, EmitManifest, DryRun, Execute, Replay
  <2>2. \A source \in args.answers : source.scheme = "emitted"
    <3>1. PICK one : one = [scheme |-> "emitted", name |-> ""] /\ args.answers = {one}
      BY DEF Replaying
    <3>2. one.scheme = "emitted"
      BY <3>1
    <3>3. QED
      BY ONLY <3>1, <3>2, Zenon
  <2>3. args.answers # {}
    BY DEF Replaying
  <2>4. Loaded(emitted[1].answers)
    BY <2>1, <2>2, <2>3 DEF LoadAnswers
  <2>5. phase' = "template" /\ answers' = emitted'[1].answers
    BY <1>1, <2>4 DEF Loaded
  <2>6. SettlesAgain(chosen)'
    BY <2>5 DEF SettlesAgain, AfterTemplate, AfterProviders, WithFlags
  <2>7. QED
    BY <1>1, <1>2, <2>6
<1>5. CASE phase = "template"
  <2>1. SelectTemplate
    BY <1>5 DEF Next, PrintSchema, ListTemplates, LoadAnswers, LoadProviders, ApplyOverrides,
        AskMode, AskTopology, BeginQuestions, AnswerQuestion, EndQuestions, AskField, EndFields,
        ValidateManifest, EmitManifest, DryRun, Execute, Replay
  <2>2. phase' = "providers" /\ template' = chosen /\ answers' = answers
    BY <2>1, TemplateAgain
  <2>3. answers = emitted[1].answers
    BY <1>5 DEF SettlesAgain
  <2>4. SettlesAgain(chosen)'
    BY <1>1, <2>2, <2>3 DEF SettlesAgain, AfterTemplate, AfterProviders, WithFlags
  <2>5. QED
    BY <1>1, <1>2, <2>4
<1>6. CASE phase = "providers"
  <2>1. LoadProviders
    BY <1>6 DEF Next, PrintSchema, ListTemplates, LoadAnswers, SelectTemplate, ApplyOverrides,
        AskMode, AskTopology, BeginQuestions, AnswerQuestion, EndQuestions, AskField, EndFields,
        ValidateManifest, EmitManifest, DryRun, Execute, Replay
  <2>2. ~\E path \in ProviderPath : OnDisk(path) \notin DOMAIN ProviderCatalogs
    BY DEF Replaying, SettledOn, ProvidersReadable
  <2>3. phase' = "overrides" /\ providers' = LoadedProviders /\ UNCHANGED <<answers, template>>
    BY <2>1, <2>2 DEF LoadProviders, LoadedProviders
  <2>4. answers = emitted[1].answers /\ template = chosen
    BY <1>6 DEF SettlesAgain, AfterTemplate
  <2>5. SettlesAgain(chosen)'
    BY <1>1, <1>3, <2>3, <2>4 DEF SettlesAgain
  <2>6. QED
    BY <1>1, <1>2, <2>5
<1>7. CASE phase = "overrides"
  <2>1. ApplyOverrides
    BY <1>7 DEF Next, PrintSchema, ListTemplates, LoadAnswers, SelectTemplate, LoadProviders,
        AskMode, AskTopology, BeginQuestions, AnswerQuestion, EndQuestions, AskField, EndFields,
        ValidateManifest, EmitManifest, DryRun, Execute, Replay
  <2>2. answers = emitted[1].answers /\ template = chosen /\ providers = LoadedProviders
    BY <1>7 DEF SettlesAgain, AfterTemplate, AfterProviders
  <2>3. ToSet(args.overrides) = {}
    <3>1. args.overrides = <<>>
      BY DEF Replaying
    <3>2. ToSet(<<>>) = {}
      BY ONLY TRUE DEF ToSet
    <3>3. QED
      BY ONLY <3>1, <3>2
  <2>4. phase' = "build" /\ answers' = WithOverrides(answers) /\ UNCHANGED <<template, providers>>
    BY <2>1, <2>3 DEF ApplyOverrides, Replaying
  <2>5. answers' = answers
    <3>1. PICK new : new = answers' /\ new = WithOverrides(answers)
      BY <2>4
    <3>2. new = answers
      BY <3>1, NoFlags DEF WizardShaped, Replaying
    <3>3. QED
      BY <3>1, <3>2
  <2>6. SettlesAgain(chosen)'
    BY <1>1, <1>3, <2>2, <2>4, <2>5 DEF SettlesAgain
  <2>7. QED
    BY <1>1, <1>2, <2>6
<1>8. CASE phase = "build"
  <2>1. ValidateManifest
    BY <1>8 DEF Next, PrintSchema, ListTemplates, LoadAnswers, SelectTemplate, LoadProviders, ApplyOverrides,
        AskMode, AskTopology, BeginQuestions, AnswerQuestion, EndQuestions, AskField, EndFields,
        EmitManifest, DryRun, Execute, Replay
  <2>2. answers = emitted[1].answers /\ template = chosen /\ providers = LoadedProviders
    BY <1>8 DEF SettlesAgain, AfterTemplate, AfterProviders, WithFlags
  <2>3. Validate(BuildManifest(answers)) = {}
    BY <2>2 DEF Replaying, SettledOn
  <2>4. phase' = "emit" /\ UNCHANGED <<answers, template, providers>>
    BY <2>1, <2>3 DEF ValidateManifest
  <2>5. SettlesAgain(chosen)'
    BY <1>1, <1>3, <2>2, <2>4 DEF SettlesAgain
  <2>6. QED
    BY <1>1, <1>2, <2>5
<1>9. CASE phase = "emit"
  <2>1. EmitManifest
    BY <1>9 DEF Next, PrintSchema, ListTemplates, LoadAnswers, SelectTemplate, LoadProviders, ApplyOverrides,
        AskMode, AskTopology, BeginQuestions, AnswerQuestion, EndQuestions, AskField, EndFields,
        ValidateManifest, DryRun, Execute, Replay
  <2>2. answers = emitted[1].answers /\ template = chosen /\ providers = LoadedProviders
    BY <1>9 DEF SettlesAgain, AfterTemplate, AfterProviders, WithFlags
  <2>3. /\ UNCHANGED <<answers, template, providers>>
        /\ phase' = "output" \/ (phase' = "failed" /\ error' = {"manifest_write"})
    BY <2>1 DEF EmitManifest, Fail
  <2>4. SettlesAgain(chosen)'
    BY <1>1, <1>3, <2>2, <2>3 DEF SettlesAgain
  <2>5. QED
    BY <1>1, <1>2, <2>4
<1>10. CASE phase = "output"
  <2>1. DryRun
    BY <1>10 DEF Replaying, SettledOn, Next, PrintSchema, ListTemplates, LoadAnswers, SelectTemplate,
        LoadProviders, ApplyOverrides, AskMode, AskTopology, BeginQuestions, AnswerQuestion, EndQuestions,
        AskField, EndFields, ValidateManifest, EmitManifest, Execute, Replay
  <2>2. answers = emitted[1].answers /\ template = chosen /\ providers = LoadedProviders
    BY <1>10 DEF SettlesAgain, AfterTemplate, AfterProviders, WithFlags
  <2>3. /\ phase' = "done" /\ UNCHANGED <<answers, template, providers>>
        /\ result' = <<DryRunOutput(answers, template, providers)>>
    BY <2>1 DEF DryRun, Done, DryRunOutput
  <2>4. emitted[1].result = DryRunOutput(emitted[1].answers, chosen, LoadedProviders)
    BY DEF Replaying
  <2>5. result' = <<emitted'[1].result>>
    BY <1>1, <2>2, <2>3, <2>4
  <2>6. SettlesAgain(chosen)'
    BY <1>1, <1>3, <2>2, <2>3, <2>5 DEF SettlesAgain
  <2>7. QED
    BY <1>1, <1>2, <2>6
<1>11. phase \in {"start", "template", "providers", "overrides", "build", "emit", "output"}
  <2>1. phase # "done"
    BY DEF Next, PrintSchema, ListTemplates, LoadAnswers, SelectTemplate, LoadProviders, ApplyOverrides,
        AskMode, AskTopology, BeginQuestions, AnswerQuestion, EndQuestions, AskField, EndFields,
        ValidateManifest, EmitManifest, DryRun, Execute, Replay
  <2>2. QED
    BY <2>1, PhaseStep DEF FromDocument, WithFlags, SettlesAgain
<1>12. QED
  BY <1>4, <1>5, <1>6, <1>7, <1>8, <1>9, <1>10, <1>11

\* What the replay is known to do.
ReplayInv == emitted # <<>> => \E chosen : Replaying(chosen) /\ SettlesAgain(chosen)

\* A step of the first run, the replay itself, or one of the replay's steps.
LEMMA ReplayStep == ASSUME WizardShaped, RunInv, ReplayInv, Next PROVE RunInv' /\ ReplayInv'
<1>1. RunInv'
  BY TemplateFollowsStep, ProvidersFollowStep, OutputFollowsStep DEF RunInv
<1>2. CASE emitted # <<>>
  <2>1. PICK chosen : Replaying(chosen) /\ SettlesAgain(chosen)
    BY <1>2 DEF ReplayInv
  <2>2. Replaying(chosen)' /\ SettlesAgain(chosen)'
    BY <1>2, <2>1, ReplayContinues
  <2>3. QED
    BY <1>1, <2>2 DEF ReplayInv
<1>3. CASE Replay
  <2>1. PICK chosen : chosen = template
    OBVIOUS
  <2>2. Replaying(chosen)' /\ SettlesAgain(chosen)'
    BY <1>3, <2>1, ReplayBegins
  <2>3. QED
    BY <1>1, <2>2 DEF ReplayInv
<1>4. CASE emitted = <<>> /\ ~Replay
  <2>1. emitted' = emitted
    BY <1>4 DEF Next, PrintSchema, ListTemplates, LoadAnswers, Loaded, Done, Fail, SelectTemplate, WithTemplate,
        LoadProviders, ApplyOverrides, AskMode, AskTopology, BeginQuestions, AnswerQuestion, EndQuestions,
        AskField, EndFields, ValidateManifest, EmitManifest, DryRun, Execute
  <2>2. QED
    BY <1>1, <1>4, <2>1 DEF ReplayInv
<1>5. QED
  BY <1>2, <1>3, <1>4

\* A printed document, run again without questions, gives the same composition
\* and the same task, whatever flags, document, template and answers it came
\* from (AnswerDocument, "replay/capture").
THEOREM ReplayIsFaithful == CliSpec => []ReplayRepeatsTheRequest
<1>1. CliInit => RunInv /\ ReplayInv
  BY DEF CliInit, Init, RunInv, TemplateFollows, ProvidersFollow, WorkerFollows, OutputFollows, DryRunDone,
         AfterTemplate, AfterProviders, WithFlags, ReplayInv
<1>2. WizardShaped /\ RunInv /\ ReplayInv /\ [CliNext]_cliVars => RunInv' /\ ReplayInv'
  <2>1. SUFFICES ASSUME WizardShaped, RunInv, ReplayInv, Next \/ UNCHANGED vars PROVE RunInv' /\ ReplayInv'
    BY DEF CliNext, cliVars
  <2>2. CASE UNCHANGED vars
    <3>1. args' = args /\ phase' = phase /\ error' = error /\ answers' = answers /\ template' = template
          /\ providers' = providers /\ result' = result /\ emitted' = emitted
      BY <2>2 DEF vars
    <3>2. RunInv'
      BY <2>1, <3>1, CatalogsStay DEF RunInv, TemplateFollows, ProvidersFollow, WorkerFollows, OutputFollows,
                                      DryRunDone
    <3>3. ASSUME NEW chosen, Replaying(chosen), SettlesAgain(chosen)
          PROVE  Replaying(chosen)' /\ SettlesAgain(chosen)'
      BY <3>1, <3>3, CatalogsStay DEF Replaying, SettledOn, SettlesAgain
    <3>4. QED
      BY <2>1, <3>1, <3>2, <3>3 DEF ReplayInv
  <2>3. QED
    BY <2>1, <2>2, ReplayStep
<1>3. ReplayInv => ReplayRepeatsTheRequest
  BY DEF ReplayInv, ReplayRepeatsTheRequest, SettlesAgain
<1>4. QED
  BY <1>1, <1>2, <1>3, WizardShapedInvariant, PTL DEF CliSpec

-----------------------------------------------------------------------------
(* Lists.                                                                  *)

\* A list is a sequence of its elements.
LEMMA ListIsSeq == ASSUME NEW s, IsList(s), NEW S, ToSet(s) \subseteq S PROVE s \in Seq(S) /\ DOMAIN s = 1 .. Len(s)
<1>1. PICK n \in Nat : n = Len(s) /\ s = [i \in 1 .. n |-> s[i]]
  BY DEF IsList
<1>2. DOMAIN s = 1 .. n
  BY <1>1
<1>3. \A i \in 1 .. n : s[i] \in S
  BY <1>2 DEF ToSet
<1>4. s \in [1 .. n -> S]
  BY <1>1, <1>3
<1>5. s \in Seq(S)
  BY <1>4, SeqDef
<1>6. QED
  BY <1>1, <1>2, <1>5

\* A sequence is a list.
LEMMA SeqIsList == ASSUME NEW S, NEW s \in Seq(S) PROVE IsList(s) /\ ToSet(s) \subseteq S /\ DOMAIN s = 1 .. Len(s)
<1>1. Len(s) \in Nat /\ DOMAIN s = 1 .. Len(s) /\ s = [i \in 1 .. Len(s) |-> s[i]]
  BY LenProperties
<1>2. \A i \in 1 .. Len(s) : s[i] \in S
  BY ElementOfSeq
<1>3. QED
  BY <1>1, <1>2 DEF IsList, ToSet

\* Two lists make a list of the elements of both.
LEMMA ListsConcat ==
  ASSUME NEW s, NEW t, IsList(s), IsList(t)
  PROVE  IsList(s \o t) /\ ToSet(s \o t) = ToSet(s) \cup ToSet(t)
<1> DEFINE S == ToSet(s) \cup ToSet(t)
<1>1. s \in Seq(S) /\ t \in Seq(S) /\ DOMAIN s = 1 .. Len(s) /\ DOMAIN t = 1 .. Len(t)
  BY ListIsSeq
<1>2. PICK m \in Nat, n \in Nat : m = Len(s) /\ n = Len(t)
  BY <1>1, LenProperties
<1>3. /\ s \o t \in Seq(S) /\ Len(s \o t) = m + n
      /\ \A i \in 1 .. m + n : (s \o t)[i] = IF i <= m THEN s[i] ELSE t[i - m]
  BY <1>1, <1>2, ConcatProperties
<1>4. IsList(s \o t) /\ ToSet(s \o t) \subseteq S /\ DOMAIN (s \o t) = 1 .. m + n
  BY <1>3, SeqIsList
<1>5. ASSUME NEW x \in S PROVE x \in ToSet(s \o t)
  <2>1. CASE x \in ToSet(s)
    <3>1. PICK i \in 1 .. m : x = s[i]
      BY <1>1, <1>2, <2>1 DEF ToSet
    <3>2. i \in 1 .. m + n /\ (s \o t)[i] = x
      BY <1>3, <3>1
    <3>3. QED
      BY <1>4, <3>2 DEF ToSet
  <2>2. CASE x \in ToSet(t)
    <3>1. PICK i \in 1 .. n : x = t[i]
      BY <1>1, <1>2, <2>2 DEF ToSet
    <3>2. m + i \in 1 .. m + n /\ ~(m + i <= m) /\ (m + i) - m = i
      OBVIOUS
    <3>3. (s \o t)[m + i] = x
      BY <1>3, <3>1, <3>2
    <3>4. QED
      BY <1>4, <3>2, <3>3 DEF ToSet
  <2>3. QED
    BY <2>1, <2>2
<1>6. QED
  BY <1>4, <1>5

\* g holds the lists that FlattenSeq goes through.
Flattened(f, n, g) == g = [i \in 1 .. n |-> IF i = 1 THEN f[i] ELSE g[i - 1] \o f[i]]

\* There are such lists.
LEMMA FlattenedExists == ASSUME NEW f PROVE \A n \in Nat : \E g : Flattened(f, n, g)
<1> DEFINE Bad == {n \in Nat : ~ \E g : Flattened(f, n, g)}
<1> SUFFICES ASSUME Bad # {} PROVE FALSE
  OBVIOUS
<1>1. PICK n \in Bad : \A m \in Bad : n <= m
  BY LeastNumber
<1>2. n \in Nat /\ ~ \E g : Flattened(f, n, g)
  BY <1>1
<1>3. CASE n = 0
  <2>1. \A g : g = [i \in {} |-> f[i]] => Flattened(f, n, g)
    BY <1>3 DEF Flattened
  <2>2. QED
    BY <1>2, <2>1
<1>4. CASE n # 0
  <2>1. n - 1 \in Nat /\ n - 1 \notin Bad
    BY <1>1, <1>2, <1>4
  <2>2. PICK h : Flattened(f, n - 1, h)
    BY <2>1
  <2>3. PICK g : g = [i \in 1 .. n |-> IF i = n THEN (IF i = 1 THEN f[i] ELSE h[i - 1] \o f[i]) ELSE h[i]]
    OBVIOUS
  <2>4. ASSUME NEW i \in 1 .. n PROVE g[i] = IF i = 1 THEN f[i] ELSE g[i - 1] \o f[i]
    <3>1. CASE i = n
      <4>1. i # 1 => g[i - 1] = h[i - 1]
        BY <2>3, <3>1
      <4>2. g[i] = IF i = 1 THEN f[i] ELSE h[i - 1] \o f[i]
        BY <2>3, <3>1
      <4>3. QED
        BY <4>1, <4>2
    <3>2. CASE i # n
      <4>1. i \in 1 .. n - 1 /\ g[i] = h[i]
        BY <1>2, <2>3, <3>2
      <4>2. h[i] = IF i = 1 THEN f[i] ELSE h[i - 1] \o f[i]
        BY <2>2, <4>1 DEF Flattened
      <4>3. i # 1 => g[i - 1] = h[i - 1]
        BY <1>2, <2>3, <3>2
      <4>4. QED
        BY <4>1, <4>2, <4>3
    <3>3. QED
      BY <3>1, <3>2
  <2>5. g = [i \in 1 .. n |-> IF i = 1 THEN f[i] ELSE g[i - 1] \o f[i]]
    <3>1. DOMAIN g = 1 .. n /\ g = [i \in 1 .. n |-> g[i]]
      BY <2>3
    <3>2. QED
      BY <2>4, <3>1
  <2>6. QED
    BY <1>2, <2>5 DEF Flattened
<1>5. QED
  BY <1>3, <1>4

\* A list of lists is flattened to a list of all their elements.
LEMMA ListsFlatten ==
  ASSUME NEW f, IsList(f), \A i \in DOMAIN f : IsList(f[i])
  PROVE  IsList(FlattenSeq(f)) /\ ToSet(FlattenSeq(f)) = UNION {ToSet(f[i]) : i \in DOMAIN f}
<1>1. PICK n \in Nat : n = Len(f) /\ DOMAIN f = 1 .. n
  BY ListIsSeq DEF IsList
<1>2. CASE n = 0
  <2>1. FlattenSeq(f) = f
    BY <1>1, <1>2 DEF FlattenSeq
  <2>2. DOMAIN f = {}
    BY <1>1, <1>2
  <2>3. ToSet(f) = {} /\ UNION {ToSet(f[i]) : i \in DOMAIN f} = {}
    BY <2>2 DEF ToSet
  <2>4. QED
    BY <2>1, <2>3
<1>3. CASE n # 0
  <2> DEFINE P(g) == g = [i \in 1 .. Len(f) |-> IF i = 1 THEN f[i] ELSE g[i - 1] \o f[i]]
  <2>1. FlattenSeq(f) = (CHOOSE g : P(g))[n]
    BY <1>1, <1>3 DEF FlattenSeq
  <2>2. \A g : P(g) <=> Flattened(f, n, g)
    BY <1>1 DEF Flattened
  <2> HIDE DEF P
  <2>3. P(CHOOSE g : P(g))
    BY <2>2, FlattenedExists
  <2>4. PICK g : Flattened(f, n, g) /\ FlattenSeq(f) = g[n]
    BY <2>1, <2>2, <2>3
  <2> DEFINE Parts(k) == UNION {ToSet(f[i]) : i \in 1 .. k}
             Bad == {k \in Nat : k \in 1 .. n /\ ~(IsList(g[k]) /\ ToSet(g[k]) = Parts(k))}
  <2>5. Bad = {}
    <3> SUFFICES ASSUME Bad # {} PROVE FALSE
      OBVIOUS
    <3>1. PICK k \in Bad : \A m \in Bad : k <= m
      BY LeastNumber
    <3>2. k \in 1 .. n /\ k \in Nat /\ IsList(f[k])
      BY <1>1, <3>1
    <3>3. g[k] = IF k = 1 THEN f[k] ELSE g[k - 1] \o f[k]
      BY <2>4, <3>2 DEF Flattened
    <3>4. CASE k = 1
      <4>1. Parts(k) = ToSet(f[k])
        BY <3>4
      <4>2. QED
        BY <3>1, <3>2, <3>3, <3>4, <4>1
    <3>5. CASE k # 1
      <4>1. k - 1 \in 1 .. n /\ k - 1 \in Nat /\ k - 1 \notin Bad
        BY <1>1, <3>1, <3>2, <3>5
      <4>2. IsList(g[k - 1]) /\ ToSet(g[k - 1]) = Parts(k - 1)
        BY <4>1
      <4>3. IsList(g[k]) /\ ToSet(g[k]) = Parts(k - 1) \cup ToSet(f[k])
        BY <3>2, <3>3, <3>5, <4>2, ListsConcat
      <4>4. 1 .. k = (1 .. k - 1) \cup {k}
        BY <3>2, <3>5
      <4>5. Parts(k) = Parts(k - 1) \cup ToSet(f[k])
        BY <4>4
      <4> HIDE DEF Parts
      <4>6. QED
        BY <3>1, <4>3, <4>5
    <3>6. QED
      BY <3>4, <3>5
  <2>6. n \in 1 .. n
    BY <1>3
  <2>7. QED
    BY <1>1, <2>4, <2>5, <2>6
<1>4. QED
  BY <1>2, <1>3

-----------------------------------------------------------------------------
(* The questions of an assembly.                                           *)

\* A map of the first n numbers is a list.
LEMMA MapIsList ==
  ASSUME NEW n \in Nat, NEW f, IsMap(f), DOMAIN f = 1 .. n
  PROVE  IsList(f) /\ Len(f) = n
<1>1. f \in [1 .. n -> ToSet(f)]
  <2>1. \A i \in 1 .. n : f[i] \in ToSet(f)
    BY DEF ToSet
  <2>2. QED
    BY <2>1 DEF IsMap
<1>2. f \in Seq(ToSet(f))
  BY <1>1, SeqDef
<1>3. Len(f) = n
  BY <1>2, LenProperties
<1>4. QED
  BY <1>2, <1>3, SeqIsList

\* The list of one thing, and the list of none.
LEMMA ShortLists ==
  /\ IsList(<<>>) /\ ToSet(<<>>) = {}
  /\ \A x : IsList(<<x>>) /\ ToSet(<<x>>) = {x}
<1>1. IsList(<<>>) /\ ToSet(<<>>) = {}
  BY DEF IsList, ToSet
<1>2. ASSUME NEW x PROVE IsList(<<x>>) /\ ToSet(<<x>>) = {x}
  BY DEF IsList, ToSet
<1>3. QED
  BY <1>1, <1>2

\* What a filter keeps, whatever it keeps it for.
LEMMA ListsMatch ==
  ASSUME NEW s, IsList(s), NEW T, NEW f,
         f = FlattenSeq([i \in DOMAIN s |-> IF s[i] \in T THEN <<s[i]>> ELSE <<>>])
  PROVE  IsList(f) /\ ToSet(f) = ToSet(s) \cap T
<1>1. PICK parts : parts = [i \in DOMAIN s |-> IF s[i] \in T THEN <<s[i]>> ELSE <<>>]
  OBVIOUS
<1>2. PICK n \in Nat : DOMAIN s = 1 .. n
  BY ListIsSeq DEF IsList
<1>3. IsList(parts) /\ DOMAIN parts = 1 .. n
  BY <1>1, <1>2, MapIsList DEF IsMap
<1>4. \A i \in DOMAIN parts :
         IsList(parts[i]) /\ ToSet(parts[i]) = IF s[i] \in T THEN {s[i]} ELSE {}
  BY <1>1, <1>2, <1>3, ShortLists
<1>5. IsList(f) /\ ToSet(f) = UNION {ToSet(parts[i]) : i \in DOMAIN parts}
  <2>1. f = FlattenSeq(parts)
    BY <1>1
  <2>2. /\ IsList(FlattenSeq(parts))
        /\ ToSet(FlattenSeq(parts)) = UNION {ToSet(parts[i]) : i \in DOMAIN parts}
    BY ONLY <1>3, <1>4, ListsFlatten
  <2>3. QED
    BY ONLY <2>1, <2>2
<1>6. UNION {ToSet(parts[i]) : i \in DOMAIN parts} = ToSet(s) \cap T
  <2>1. \A x : x \in ToSet(s) \cap T <=> \E i \in 1 .. n : s[i] \in T /\ x = s[i]
    BY <1>2 DEF ToSet
  <2>2. QED
    BY <1>3, <1>4, <2>1
<1>7. QED
  BY <1>5, <1>6

\* A block the way the assembly makes it: for everyone, under keys of its kind,
\* and put off to setup only by a provider.
IsRaw(b) ==
  /\ DOMAIN b = {"id", "from", "key", "scope", "agent", "phase", "visibility", "select"}
  /\ IsMap(b) /\ b.agent = Everyone /\ b.select \in BOOLEAN /\ AtMostOne(b.key)
  /\ \A k \in b.key : k = [to |-> Everyone, name |-> k.name, provider |-> b.select]
  /\ b.phase = "setup" => b.scope = "provider"

RawBlocks(s) == IsList(s) /\ \A b \in ToSet(s) : IsRaw(b)

\* Two lists of such blocks in a row are one.
LEMMA RawConcat == ASSUME NEW s, NEW t, RawBlocks(s), RawBlocks(t) PROVE RawBlocks(s \o t)
BY ListsConcat DEF RawBlocks

\* So is a list of such lists, flattened.
LEMMA RawFlatten ==
  ASSUME NEW f, IsList(f), \A i \in DOMAIN f : RawBlocks(f[i]) PROVE RawBlocks(FlattenSeq(f))
<1>1. IsList(FlattenSeq(f)) /\ ToSet(FlattenSeq(f)) = UNION {ToSet(f[i]) : i \in DOMAIN f}
  BY ListsFlatten DEF RawBlocks
<1>2. QED
  BY <1>1 DEF RawBlocks

\* So is what a list is turned into, one block for each element.
LEMMA RawMap ==
  ASSUME NEW s, IsList(s), NEW f, IsMap(f), DOMAIN f = DOMAIN s, \A i \in DOMAIN s : IsRaw(f[i])
  PROVE  RawBlocks(f)
<1>1. PICK n \in Nat : DOMAIN s = 1 .. n
  BY ListIsSeq DEF IsList
<1>2. IsList(f)
  BY <1>1, MapIsList
<1>3. QED
  BY <1>2 DEF RawBlocks, ToSet

\* So are no block and one such block.
LEMMA RawShort == RawBlocks(<<>>) /\ \A b : IsRaw(b) => RawBlocks(<<b>>)
BY ShortLists DEF RawBlocks

\* Keys of everyone's answers.
LEMMA PlainKeys ==
  /\ \A name : AtMostOne(Plainly(name))
  /\ \A name : \A k \in Plainly(name) : k = [to |-> Everyone, name |-> k.name, provider |-> FALSE]
  /\ AgentCount = [to |-> Everyone, name |-> AgentCount.name, provider |-> FALSE]
  /\ Strategy = [to |-> Everyone, name |-> Strategy.name, provider |-> FALSE]
BY DEF Plainly, Key, AgentCount, Strategy, AtMostOne

\* Block makes such a block of everyone's keys.
LEMMA BlockIsRaw ==
  ASSUME NEW id, NEW from, NEW key, NEW scope, NEW when, NEW visibility,
         \A k \in key : k = [to |-> Everyone, name |-> k.name, provider |-> FALSE],
         AtMostOne(key), when = "setup" => scope = "provider"
  PROVE  IsRaw(Block(id, from, key, scope, when, visibility))
BY DEF IsRaw, Block, IsMap

\* The worker's own questions (build_question_assembly) are such blocks.
LEMMA CoreBlocksRaw == ASSUME NEW chosen PROVE RawBlocks(CoreBlocks(chosen))
<1>1. PICK visibility : visibility = IF chosen.multi THEN "review_all" ELSE "optional"
  OBVIOUS
<1>2. IsRaw(Block("core.app.identity", "core", {}, "application", "design", "required"))
  BY BlockIsRaw DEF AtMostOne
<1>3. IsRaw(Block("core.agent.topology", "core", {AgentCount}, "application", "design", visibility))
  BY PlainKeys, BlockIsRaw DEF AtMostOne
<1>4. PICK a, b : /\ a = Block("core.app.identity", "core", {}, "application", "design", "required")
                  /\ b = Block("core.agent.topology", "core", {AgentCount}, "application", "design", visibility)
  OBVIOUS
<1>5. CoreBlocks(chosen) = <<a, b>>
  BY <1>1, <1>4 DEF CoreBlocks
<1>6. IsList(<<a, b>>) /\ ToSet(<<a, b>>) = {a, b}
  BY DEF IsList, ToSet
<1>7. QED
  BY <1>2, <1>3, <1>4, <1>5, <1>6 DEF RawBlocks

\* So are the template's.
LEMMA TemplateBlocksRaw ==
  ASSUME NEW chosen, IsTemplate(chosen) PROVE RawBlocks(TemplateBlocks(chosen))
<1> DEFINE ids == {q.id : q \in ToSet(chosen.questions)}
           first == Matching(chosen.default_blocks, LAMBDA id : id \notin ids)
           second == Matching(chosen.review_blocks, LAMBDA id : id \notin ids \cup ToSet(chosen.default_blocks))
           Named(q) == Block(q.id, "template", IF q.key = "" THEN {} ELSE Plainly(q.key), "agent", "design",
                             TemplateVisibility(chosen, q.id, q.required))
           Unnamed(id) == Block(id, "template", {}, "agent", "design", TemplateVisibility(chosen, id, FALSE))
<1>1. TemplateBlocks(chosen) = [i \in DOMAIN chosen.questions |-> Named(chosen.questions[i])]
                                 \o [i \in DOMAIN (first \o second) |-> Unnamed((first \o second)[i])]
  BY DEF TemplateBlocks
<1>2. IsList(first) /\ IsList(second)
  <2>1. IsList(first)
    <3>1. PICK T : T = ToSet(chosen.default_blocks) \ ids
      OBVIOUS
    <3>2. \A i \in DOMAIN chosen.default_blocks :
            chosen.default_blocks[i] \in T <=> chosen.default_blocks[i] \notin ids
      BY <3>1 DEF ToSet
    <3> HIDE DEF ids
    <3>3. first = FlattenSeq([i \in DOMAIN chosen.default_blocks |->
                     IF chosen.default_blocks[i] \in T THEN <<chosen.default_blocks[i]>> ELSE <<>>])
      BY <3>2 DEF Matching
    <3> HIDE DEF first
    <3>4. QED
      BY <3>3, ListsMatch DEF IsTemplate
  <2>2. IsList(second)
    <3>1. PICK T : T = ToSet(chosen.review_blocks) \ (ids \cup ToSet(chosen.default_blocks))
      OBVIOUS
    <3>2. \A i \in DOMAIN chosen.review_blocks :
            chosen.review_blocks[i] \in T <=> chosen.review_blocks[i] \notin ids \cup ToSet(chosen.default_blocks)
      BY <3>1 DEF ToSet
    <3> HIDE DEF ids
    <3>3. second = FlattenSeq([i \in DOMAIN chosen.review_blocks |->
                     IF chosen.review_blocks[i] \in T THEN <<chosen.review_blocks[i]>> ELSE <<>>])
      BY <3>2 DEF Matching
    <3> HIDE DEF second
    <3>4. QED
      BY <3>3, ListsMatch DEF IsTemplate
  <2>3. QED
    BY <2>1, <2>2
<1> HIDE DEF first, second
<1>3. PICK extra : extra = first \o second /\ IsList(extra)
  BY <1>2, ListsConcat
<1>4. \A q : IsRaw(Named(q))
  <2> SUFFICES ASSUME NEW q PROVE IsRaw(Named(q))
    OBVIOUS
  <2>1. PICK key : key = IF q.key = "" THEN {} ELSE Plainly(q.key)
    OBVIOUS
  <2>2. AtMostOne(key) /\ \A k \in key : k = [to |-> Everyone, name |-> k.name, provider |-> FALSE]
    BY <2>1, PlainKeys DEF AtMostOne
  <2>3. QED
    BY <2>1, <2>2, BlockIsRaw
<1>5. \A id : IsRaw(Unnamed(id))
  BY BlockIsRaw DEF AtMostOne
<1> HIDE DEF Named, Unnamed
<1>6. RawBlocks([i \in DOMAIN chosen.questions |-> Named(chosen.questions[i])])
  <2>1. PICK f : f = [i \in DOMAIN chosen.questions |-> Named(chosen.questions[i])]
    OBVIOUS
  <2>2. IsMap(f) /\ DOMAIN f = DOMAIN chosen.questions /\ \A i \in DOMAIN f : IsRaw(f[i])
    BY <1>4, <2>1 DEF IsMap
  <2>3. RawBlocks(f)
    BY <2>2, RawMap DEF IsTemplate
  <2>4. QED
    BY <2>1, <2>3
<1>7. RawBlocks([i \in DOMAIN extra |-> Unnamed(extra[i])])
  <2>1. PICK f : f = [i \in DOMAIN extra |-> Unnamed(extra[i])]
    OBVIOUS
  <2>2. IsMap(f) /\ DOMAIN f = DOMAIN extra /\ \A i \in DOMAIN f : IsRaw(f[i])
    BY <1>5, <2>1 DEF IsMap
  <2>3. RawBlocks(f)
    BY <1>3, <2>2, RawMap
  <2>4. QED
    BY <2>1, <2>3
<1>8. QED
  BY <1>1, <1>3, <1>6, <1>7, RawConcat

\* So are the questions a provider's descriptor adds.
LEMMA FollowUpsRaw ==
  ASSUME NEW provider, IsList(provider.required), IsList(provider.blocks)
  PROVE  RawBlocks(FollowUps(provider))
<1> DEFINE own == {b.id : b \in ToSet(provider.blocks)}
           names == [i \in DOMAIN provider.blocks |-> provider.blocks[i].id]
           rest == Matching(names, LAMBDA id : id \notin ToSet(provider.required))
           Owned(id) == CHOOSE b \in ToSet(provider.blocks) : b.id = id
           KeyOf(id) == IF id \in own THEN Owned(id).key ELSE id
           AtSetup(id) == provider.schemas \/ (id \in own /\ Owned(id).schema)
           Asking(id) == Block(id, provider.id, Plainly(KeyOf(id)), "provider",
                               IF AtSetup(id) THEN "setup" ELSE "design",
                               IF AtSetup(id) THEN "hidden_unless_needed" ELSE "review_all")
<1>1. FollowUps(provider) = [i \in DOMAIN (provider.required \o rest) |-> Asking((provider.required \o rest)[i])]
  BY DEF FollowUps
<1>2. IsList(names)
  <2>1. PICK n \in Nat : DOMAIN provider.blocks = 1 .. n
    BY ListIsSeq DEF IsList
  <2>2. QED
    BY <2>1, MapIsList DEF IsMap
<1> HIDE DEF names
<1>3. IsList(rest)
  <2>1. PICK T : T = ToSet(names) \ ToSet(provider.required)
    OBVIOUS
  <2>2. \A i \in DOMAIN names : names[i] \in T <=> names[i] \notin ToSet(provider.required)
    BY <2>1 DEF ToSet
  <2>3. rest = FlattenSeq([i \in DOMAIN names |-> IF names[i] \in T THEN <<names[i]>> ELSE <<>>])
    BY <2>2 DEF Matching
  <2> HIDE DEF rest
  <2>4. QED
    BY <1>2, <2>3, ListsMatch
<1> HIDE DEF rest
<1>4. PICK ids : ids = provider.required \o rest /\ IsList(ids)
  BY <1>3, ListsConcat
<1>5. \A id : IsRaw(Asking(id))
  <2> SUFFICES ASSUME NEW id PROVE IsRaw(Asking(id))
    OBVIOUS
  <2>1. PICK name, when, visibility :
          Asking(id) = Block(id, provider.id, Plainly(name), "provider", when, visibility)
    <3> HIDE DEF KeyOf, AtSetup
    <3>1. QED
      OBVIOUS
  <2>2. QED
    BY ONLY <2>1, PlainKeys, BlockIsRaw
<1> HIDE DEF Asking
<1>6. PICK f : f = [i \in DOMAIN ids |-> Asking(ids[i])]
  OBVIOUS
<1>7. IsMap(f) /\ DOMAIN f = DOMAIN ids /\ \A i \in DOMAIN ids : IsRaw(f[i])
  BY <1>5, <1>6 DEF IsMap
<1>8. RawBlocks(f)
  BY <1>4, <1>7, RawMap
<1>9. QED
  BY <1>1, <1>4, <1>6, <1>8

\* A recommended provider is in the catalog.
LEMMA RecommendedIsListed ==
  ASSUME NEW chosen, NEW catalog, NEW capability, NEW p \in Recommended(chosen, catalog, capability)
  PROVE  \E i \in DOMAIN catalog : p = catalog[i]
<1>1. \A id : FindProvider(catalog, id) \subseteq {catalog[i] : i \in DOMAIN catalog}
  BY DEF FindProvider, Served
<1>2. Candidates(chosen, catalog, capability) \subseteq DOMAIN catalog
  BY DEF Candidates
<1>3. PICK own : own = IF capability \in DOMAIN chosen.providers
                         THEN FindProvider(catalog, chosen.providers[capability]) ELSE {}
  OBVIOUS
<1>4. CASE own # {}
  <2>1. p \in own
    BY <1>3, <1>4 DEF Recommended
  <2>2. p \in {catalog[i] : i \in DOMAIN catalog}
    BY <1>1, <1>3, <2>1
  <2>3. QED
    BY <2>2
<1>5. CASE own = {}
  <2> DEFINE pool == Candidates(chosen, catalog, capability)
             Better(i, j) == \/ Rank(catalog[i], chosen) > Rank(catalog[j], chosen)
                             \/ Rank(catalog[i], chosen) = Rank(catalog[j], chosen) /\ i >= j
  <2>1. p \in {catalog[i] : i \in {k \in pool : \A j \in pool : Better(k, j)}}
    BY <1>3, <1>5 DEF Recommended
  <2> HIDE DEF pool, Better
  <2>2. \E i \in pool : p = catalog[i]
    BY <2>1
  <2>3. QED
    BY <1>2, <2>2 DEF pool
<1>6. QED
  BY <1>4, <1>5

\* So are the questions about the providers of a template's capabilities
\* (build_question_assembly).
LEMMA ProviderBlocksRaw ==
  ASSUME NEW chosen, IsTemplate(chosen), NEW catalog, IsProviderCatalog(catalog)
  PROVE  RawBlocks(ProviderBlocks(chosen, catalog))
<1> DEFINE Select(provider, i) ==
             [Block("provider.select", provider.id,
                    {ProviderKey(Everyone, Capabilities(chosen)[i])}, "provider", "design",
                    IF i <= Len(chosen.required) THEN "required" ELSE "review_all")
                EXCEPT !.select = TRUE]
           Best(i) == Recommended(chosen, catalog, Capabilities(chosen)[i])
           Taken(i) == CHOOSE p \in Best(i) : TRUE
           For(i) == IF Best(i) = {} THEN <<>> ELSE <<Select(Taken(i), i)>> \o FollowUps(Taken(i))
<1>1. ProviderBlocks(chosen, catalog) = FlattenSeq([i \in DOMAIN Capabilities(chosen) |-> For(i)])
  BY DEF ProviderBlocks
<1>2. ASSUME NEW provider, NEW i PROVE IsRaw(Select(provider, i))
  <2>1. PICK key, visibility :
          /\ key = {ProviderKey(Everyone, Capabilities(chosen)[i])}
          /\ visibility = IF i <= Len(chosen.required) THEN "required" ELSE "review_all"
    OBVIOUS
  <2>2. PICK block : block = [Block("provider.select", provider.id, key, "provider", "design", visibility)
                               EXCEPT !.select = TRUE]
    OBVIOUS
  <2>3. AtMostOne(key) /\ \A k \in key : k = [to |-> Everyone, name |-> k.name, provider |-> TRUE]
    BY <2>1 DEF ProviderKey, AtMostOne
  <2>4. /\ DOMAIN block = {"id", "from", "key", "scope", "agent", "phase", "visibility", "select"}
        /\ IsMap(block) /\ block.agent = Everyone /\ block.select = TRUE /\ block.key = key
        /\ block.phase = "design"
    BY <2>2 DEF Block, IsMap
  <2>5. IsRaw(block)
    BY <2>3, <2>4 DEF IsRaw
  <2>6. QED
    BY <2>1, <2>2, <2>5
<1>3. ASSUME NEW i \in DOMAIN Capabilities(chosen) PROVE RawBlocks(For(i))
  <2>1. CASE Best(i) = {}
    BY <2>1, RawShort
  <2>2. CASE Best(i) # {}
    <3>1. Taken(i) \in Best(i)
      BY <2>2
    <3>2. PICK j \in DOMAIN catalog : Taken(i) = catalog[j]
      BY <3>1, RecommendedIsListed
    <3> HIDE DEF Select, Taken
    <3>3. RawBlocks(FollowUps(Taken(i)))
      BY <3>2, FollowUpsRaw DEF IsProviderCatalog
    <3>4. RawBlocks(<<Select(Taken(i), i)>>)
      BY <1>2, RawShort
    <3>5. QED
      BY <2>2, <3>3, <3>4, RawConcat
  <2>3. QED
    BY <2>1, <2>2
<1>4. IsList(Capabilities(chosen))
  BY ListsConcat DEF Capabilities, IsTemplate
<1> HIDE DEF For
<1>5. PICK f : f = [i \in DOMAIN Capabilities(chosen) |-> For(i)]
  OBVIOUS
<1>6. PICK n \in Nat : DOMAIN Capabilities(chosen) = 1 .. n
  BY <1>4, ListIsSeq DEF IsList
<1>7. IsList(f) /\ \A i \in DOMAIN f : RawBlocks(f[i])
  BY <1>3, <1>5, <1>6, MapIsList DEF IsMap
<1>8. QED
  BY <1>1, <1>5, <1>7, RawFlatten

\* All the questions of a template and its providers.
LEMMA AssemblyRaw ==
  ASSUME NEW chosen, IsTemplate(chosen), NEW catalogs, IsList(catalogs),
         \A i \in DOMAIN catalogs : IsProviderCatalog(catalogs[i])
  PROVE  RawBlocks(Assembly(chosen, catalogs))
<1>1. PICK first, second : first = CoreBlocks(chosen) /\ second = TemplateBlocks(chosen)
  OBVIOUS
<1>2. RawBlocks(first) /\ RawBlocks(second)
  BY <1>1, CoreBlocksRaw, TemplateBlocksRaw
<1>3. PICK f : f = [i \in DOMAIN catalogs |-> ProviderBlocks(chosen, catalogs[i])]
  OBVIOUS
<1>4. IsList(f) /\ \A i \in DOMAIN f : RawBlocks(f[i])
  <2>1. PICK n \in Nat : DOMAIN catalogs = 1 .. n
    BY ListIsSeq DEF IsList
  <2>2. IsList(f) /\ DOMAIN f = 1 .. n
    BY <1>3, <2>1, MapIsList DEF IsMap
  <2>3. \A i \in DOMAIN f : RawBlocks(f[i])
    BY <1>3, <2>1, <2>2, ProviderBlocksRaw
  <2>4. QED
    BY <2>2, <2>3
<1>5. RawBlocks(FlattenSeq(f))
  BY <1>4, RawFlatten
<1>6. PICK third : third = IF chosen.multi
          THEN <<Block("provider_strategy", "composition", {Strategy}, "shared", "design", "review_all")>>
          ELSE <<>>
  OBVIOUS
<1>7. RawBlocks(third)
  <2>1. IsRaw(Block("provider_strategy", "composition", {Strategy}, "shared", "design", "review_all"))
    BY PlainKeys, BlockIsRaw DEF AtMostOne
  <2>2. QED
    BY <1>6, <2>1, RawShort
<1>8. PICK fourth : fourth = IF chosen.hints
          THEN <<Block("bundle_plan", "packaging", Plainly("bundle_plan_notes"), "application",
                       "design", "review_all")>>
          ELSE <<>>
  OBVIOUS
<1>9. RawBlocks(fourth)
  <2>1. IsRaw(Block("bundle_plan", "packaging", Plainly("bundle_plan_notes"), "application",
                    "design", "review_all"))
    BY PlainKeys, BlockIsRaw
  <2>2. QED
    BY <1>8, <2>1, RawShort
<1>10. Assembly(chosen, catalogs) = first \o second \o FlattenSeq(f) \o third \o fourth
  BY <1>1, <1>3, <1>6, <1>8 DEF Assembly
<1>11. RawBlocks(first \o second)
  BY ONLY <1>2, RawConcat
<1>12. RawBlocks(first \o second \o FlattenSeq(f))
  BY ONLY <1>5, <1>11, RawConcat
<1>13. RawBlocks(first \o second \o FlattenSeq(f) \o third)
  BY ONLY <1>7, <1>12, RawConcat
<1>14. RawBlocks(first \o second \o FlattenSeq(f) \o third \o fourth)
  BY ONLY <1>9, <1>13, RawConcat
<1>15. QED
  BY <1>10, <1>14

-----------------------------------------------------------------------------
(* The copies of a question, one for each agent.                           *)

\* blocks_for shows blocks of the assembly.
LEMMA ShownBlocks ==
  ASSUME NEW assembly, RawBlocks(assembly), NEW when, NEW mode
  PROVE  RawBlocks(BlocksFor(assembly, when, mode))
<1>1. PICK T : T = {b \in ToSet(assembly) : b.phase = when /\ Visible(b, mode)}
  OBVIOUS
<1>2. \A i \in DOMAIN assembly :
        assembly[i] \in T <=> (assembly[i].phase = when /\ Visible(assembly[i], mode))
  BY <1>1 DEF ToSet
<1>3. PICK f : f = [i \in DOMAIN assembly |-> IF assembly[i] \in T THEN <<assembly[i]>> ELSE <<>>]
  OBVIOUS
<1>4. BlocksFor(assembly, when, mode) = FlattenSeq(f)
  BY <1>2, <1>3 DEF BlocksFor, Matching
<1>5. IsList(FlattenSeq(f)) /\ ToSet(FlattenSeq(f)) = ToSet(assembly) \cap T
  BY <1>3, ListsMatch DEF RawBlocks
<1>6. QED
  BY <1>4, <1>5 DEF RawBlocks

\* What becomes of a block when count agents are asked.
CopiesOf(b, many, count) == IF many THEN {ScopedBlock(b, n) : n \in 1 .. count} ELSE {b}

\* resolve_visible_blocks_for_output: every block is there, for everyone or for
\* each agent, and nothing else.
LEMMA ResolvedBlocks ==
  ASSUME NEW blocks, IsList(blocks), NEW document, NEW chosen,
         ResolvedAgentCount(document, chosen) \in Nat,
         NEW shown, shown = ResolveVisible(blocks, document, chosen)
  PROVE  /\ IsList(shown)
         /\ ToSet(shown) =
              UNION {CopiesOf(b, ResolvedAgentCount(document, chosen) > 1 /\ IsPerAgent(b, document),
                              ResolvedAgentCount(document, chosen)) : b \in ToSet(blocks)}
<1>1. PICK count \in Nat : count = ResolvedAgentCount(document, chosen)
  OBVIOUS
<1> DEFINE Copies(b) == IF count > 1 /\ IsPerAgent(b, document)
                          THEN [n \in 1 .. count |-> ScopedBlock(b, n)] ELSE <<b>>
<1>2. shown = FlattenSeq([i \in DOMAIN blocks |-> Copies(blocks[i])])
  BY <1>1 DEF ResolveVisible
<1>3. ASSUME NEW b
      PROVE  IsList(Copies(b)) /\ ToSet(Copies(b)) = CopiesOf(b, count > 1 /\ IsPerAgent(b, document), count)
  <2>1. CASE count > 1 /\ IsPerAgent(b, document)
    <3>1. PICK f : f = [n \in 1 .. count |-> ScopedBlock(b, n)]
      OBVIOUS
    <3>2. IsList(f)
      BY <1>1, <3>1, MapIsList DEF IsMap
    <3>3. ToSet(f) = {ScopedBlock(b, n) : n \in 1 .. count}
      BY <3>1 DEF ToSet
    <3>4. QED
      BY <2>1, <3>1, <3>2, <3>3 DEF CopiesOf
  <2>2. CASE ~(count > 1 /\ IsPerAgent(b, document))
    BY <2>2, ShortLists DEF CopiesOf
  <2>3. QED
    BY <2>1, <2>2
<1> HIDE DEF Copies
<1>4. PICK f : f = [i \in DOMAIN blocks |-> Copies(blocks[i])]
  OBVIOUS
<1>5. PICK n \in Nat : DOMAIN blocks = 1 .. n
  BY ListIsSeq DEF IsList
<1>6. IsList(f) /\ DOMAIN f = 1 .. n /\ \A i \in DOMAIN f : IsList(f[i])
  BY <1>3, <1>4, <1>5, MapIsList DEF IsMap
<1>7. IsList(FlattenSeq(f)) /\ ToSet(FlattenSeq(f)) = UNION {ToSet(f[i]) : i \in DOMAIN f}
  BY <1>6, ListsFlatten
<1>8. UNION {ToSet(f[i]) : i \in DOMAIN f}
        = UNION {CopiesOf(b, count > 1 /\ IsPerAgent(b, document), count) : b \in ToSet(blocks)}
  <2> DEFINE C(b) == CopiesOf(b, count > 1 /\ IsPerAgent(b, document), count)
  <2>1. \A i \in 1 .. n : ToSet(f[i]) = C(blocks[i])
    BY <1>3, <1>4, <1>5
  <2>2. ToSet(blocks) = {blocks[i] : i \in 1 .. n}
    BY <1>5 DEF ToSet
  <2> HIDE DEF C
  <2>3. {ToSet(f[i]) : i \in DOMAIN f} = {C(b) : b \in ToSet(blocks)}
    BY <1>6, <2>1, <2>2
  <2>4. QED
    BY <2>3 DEF C
<1>9. QED
  BY <1>1, <1>2, <1>4, <1>7, <1>8

\* The number of agents is one.
LEMMA CountIsNumber ==
  ASSUME NEW document, IsKeyed(document), NEW chosen PROVE ResolvedAgentCount(document, chosen) \in Nat \ {0}
BY DEF IsKeyed, ResolvedAgentCount

\* A block that is put to the user: keys of its kind, for everyone or, when
\* there are several, for one agent.
IsQuestion(b, many) ==
  /\ b.select \in BOOLEAN /\ AtMostOne(b.key)
  /\ \A k \in b.key : k = [to |-> b.agent, name |-> k.name, provider |-> b.select]
  /\ b.agent # Everyone => many /\ \E n \in Nat : b.agent = Numbered(n)

\* The n-th agent's copy of a block.
LEMMA ScopedFields ==
  ASSUME NEW b, IsRaw(b), NEW n
  PROVE  /\ ScopedBlock(b, n).id = b.id /\ ScopedBlock(b, n).from = b.from
         /\ ScopedBlock(b, n).select = b.select /\ ScopedBlock(b, n).agent = Numbered(n)
         /\ ScopedBlock(b, n).key = {[k EXCEPT !.to = Numbered(n)] : k \in b.key}
BY DEF IsRaw, ScopedBlock

\* What becomes of a block of the assembly can be put to the user.
LEMMA CopiesAreQuestions ==
  ASSUME NEW b, IsRaw(b), NEW many, NEW count \in Nat, NEW several \in BOOLEAN, many => several,
         NEW c \in CopiesOf(b, many, count)
  PROVE  IsQuestion(c, several)
<1>1. CASE ~many
  BY <1>1 DEF CopiesOf, IsRaw, IsQuestion
<1>2. CASE many
  <2>1. PICK n \in 1 .. count : c = ScopedBlock(b, n)
    BY <1>2 DEF CopiesOf
  <2>2. /\ c.select = b.select /\ c.agent = Numbered(n)
        /\ c.key = {[k EXCEPT !.to = Numbered(n)] : k \in b.key}
    BY <2>1, ScopedFields
  <2>3. AtMostOne(c.key)
    BY <2>2 DEF AtMostOne, IsRaw
  <2>4. ASSUME NEW k \in c.key PROVE k = [to |-> c.agent, name |-> k.name, provider |-> c.select]
    <3>1. PICK j \in b.key : k = [j EXCEPT !.to = Numbered(n)]
      BY <2>2
    <3>2. j = [to |-> Everyone, name |-> j.name, provider |-> b.select]
      BY DEF IsRaw
    <3>3. k = [to |-> Numbered(n), name |-> j.name, provider |-> b.select]
      BY <3>1, <3>2
    <3>4. QED
      BY <2>2, <3>3
  <2>5. c.select \in BOOLEAN
    BY <2>2 DEF IsRaw
  <2>6. QED
    BY <1>2, <2>2, <2>3, <2>4, <2>5 DEF IsQuestion
<1>3. QED
  BY <1>1, <1>2

-----------------------------------------------------------------------------
(* The answers of every agent.                                             *)

\* The answers are under keys, in the document and in what was printed.
Keyed == IsKeyed(answers) /\ (emitted # <<>> => IsKeyed(emitted[1].answers))

\* The steps at which the user may have answered a question.
ToldIn == {"questions", "fields", "build", "emit", "output", "done", "failed"}

\* The template and the providers are what the catalogs hold, and there is a
\* template as long as its questions are asked or have been.
CatalogsRead ==
  /\ template # <<>> => IsTemplate(template[1])
  /\ phase \in {"mode", "topology", "questions"} \/ told # {} => template # <<>>
  /\ told # {} => phase \in ToldIn
  /\ IsList(providers) /\ \A i \in DOMAIN providers : IsProviderCatalog(providers[i])

\* More than one agent is asked for.
Several == ResolvedAgentCount(answers, template[1]) > 1

\* What is still to be asked.
QuestionsWait == phase = "questions" => IsList(todo) /\ \A b \in ToSet(todo) : IsQuestion(b, Several)

\* What the user has said is in the document, under the key it was asked for.
Stored(document, many, t) ==
  /\ t.key = [to |-> t.key.to, name |-> t.key.name, provider |-> t.key.provider]
  /\ t.key.provider \in BOOLEAN
  /\ t.key.to # Everyone => many /\ \E n \in Nat : t.key.to = Numbered(n)
  /\ IF t.key.to = Everyone /\ t.key.provider
       THEN t.key.name \in DOMAIN document.overrides /\ document.overrides[t.key.name] = t.value
       ELSE t.key \in DOMAIN document.design /\ document.design[t.key] = t.value

ToldIsStored == \A t \in told : Stored(answers, Several, t)

QuestionsInv == Keyed /\ CatalogsRead /\ QuestionsWait /\ ToldIsStored

\* The keys stay keys when an answer is put under one.
LEMMA PutKeyed ==
  ASSUME NEW document, IsKeyed(document), NEW key, NEW value,
         key = [to |-> key.to, name |-> key.name, provider |-> key.provider],
         key = AgentCount => value \in Nat,
         NEW new, new.design = Put(document.design, key, value)
  PROVE  IsKeyed(new)
<1>1. PICK design : design = document.design
  OBVIOUS
<1>2. /\ DOMAIN new.design = DOMAIN design \cup {key}
      /\ new.design[key] = value
      /\ \A k \in DOMAIN design : k # key => new.design[k] = design[k]
  <2>1. PICK put : put = new.design /\ put = Put(design, key, value)
    BY <1>1
  <2>2. QED
    BY ONLY <2>1 DEF Put
<1>3. ASSUME NEW k \in DOMAIN new.design PROVE k = [to |-> k.to, name |-> k.name, provider |-> k.provider]
  BY <1>1, <1>2 DEF IsKeyed
<1>4. AgentCount \in DOMAIN new.design => new.design[AgentCount] \in Nat
  <2>1. CASE key = AgentCount
    BY <1>2, <2>1
  <2>2. CASE key # AgentCount
    BY <1>1, <1>2, <2>2 DEF IsKeyed
  <2>3. QED
    BY <2>1, <2>2
<1>5. QED
  BY <1>3, <1>4 DEF IsKeyed

\* A document with the same design answers has the same keys.
LEMMA SameKeyed ==
  ASSUME NEW document, IsKeyed(document), NEW new, new.design = document.design PROVE IsKeyed(new)
BY DEF IsKeyed

\* The number of agents and the strategy are keys.
LEMMA FirstKeys ==
  /\ AgentCount = [to |-> AgentCount.to, name |-> AgentCount.name, provider |-> AgentCount.provider]
  /\ Strategy = [to |-> Strategy.to, name |-> Strategy.name, provider |-> Strategy.provider]
  /\ AgentCount # Strategy
BY DEF AgentCount, Strategy, Key

\* The default number of agents is a number.
LEMMA DefaultsKeyed ==
  ASSUME NEW document, IsDocument(document), IsKeyed(document), NEW chosen, IsTemplate(chosen),
         NEW new, new = TemplateDefaults(document, chosen)
  PROVE  IsKeyed(new)
<1> DEFINE first == Filled(document.plain, [manifest_id |-> chosen.id, display_name |-> chosen.name])
           plain == Filled(first, chosen.values)
           design == IF AgentCount \in DOMAIN document.design \/ chosen.count = {} THEN document.design
                     ELSE Put(document.design, AgentCount, CHOOSE n \in chosen.count : TRUE)
           selected == OrElse(document.template, {chosen.id})
<1>1. new = [document EXCEPT !.plain = plain, !.template = selected, !.design = design]
  BY DEF TemplateDefaults
<1> HIDE DEF plain, selected, design
<1>2. new.design = design
  BY <1>1, ZenonT(60) DEF IsDocument, IsMap
<1>3. CASE design = document.design
  BY <1>2, <1>3, SameKeyed
<1>4. CASE design # document.design
  <2>1. PICK n : n = CHOOSE m \in chosen.count : TRUE
    OBVIOUS
  <2>2. n \in Nat /\ design = Put(document.design, AgentCount, n)
    BY <1>4, <2>1 DEF design, IsTemplate
  <2>3. QED
    BY <1>2, <2>2, FirstKeys, PutKeyed
<1>5. QED
  BY <1>3, <1>4

\* The template that is selected is one of the descriptors.
LEMMA SelectedTemplate ==
  ASSUME SelectTemplate
  PROVE  \/ phase' = "failed" /\ UNCHANGED <<answers, template>>
         \/ phase' = "providers" /\ template' = <<>> /\ answers' = answers
         \/ /\ phase' = "providers"
            /\ \E chosen : /\ IsTemplate(chosen) /\ template' = <<chosen>>
                           /\ answers' = TemplateDefaults(answers, chosen)
<1>1. ASSUME NEW file, file \in DOMAIN Templates, WithTemplate(<<Templates[file]>>)
      PROVE  /\ phase' = "providers"
             /\ \E chosen : /\ IsTemplate(chosen) /\ template' = <<chosen>>
                            /\ answers' = TemplateDefaults(answers, chosen)
  <2>1. PICK chosen : chosen = Templates[file] /\ IsTemplate(chosen)
    BY <1>1, WizardAssumption
  <2>2. <<chosen>> # <<>> /\ <<chosen>>[1] = chosen
    OBVIOUS
  <2>3. QED
    BY <1>1, <2>1, <2>2 DEF WithTemplate
<1>2. WithTemplate(<<>>) => phase' = "providers" /\ template' = <<>> /\ answers' = answers
  BY DEF WithTemplate
<1>3. \A what : Fail(what) => phase' = "failed" /\ UNCHANGED <<answers, template>>
  BY DEF Fail
<1>4. \/ WithTemplate(<<>>) \/ \E what : Fail(what)
      \/ \E file : file \in DOMAIN Templates /\ WithTemplate(<<Templates[file]>>)
  BY DEF SelectTemplate
<1>5. QED
  BY <1>1, <1>2, <1>3, <1>4

\* The head of a list is one of its elements, and the tail is a list of others.
LEMMA ListHead ==
  ASSUME NEW s, IsList(s), s # <<>>
  PROVE  Head(s) \in ToSet(s) /\ IsList(Tail(s)) /\ ToSet(Tail(s)) \subseteq ToSet(s)
<1>1. PICK S : S = ToSet(s)
  OBVIOUS
<1>2. s \in Seq(S)
  BY <1>1, ListIsSeq
<1>3. Head(s) \in S /\ Tail(s) \in Seq(S)
  BY <1>2, HeadTailProperties
<1>4. QED
  BY <1>1, <1>3, SeqIsList

\* A question is asked under one key, and none of the later ones is the number
\* of agents.
LEMMA AskedKey ==
  ASSUME NEW document, NEW block, NEW many, IsQuestion(block, many), Asked(block, document), NEW key \in block.key
  PROVE  /\ key = [to |-> block.agent, name |-> key.name, provider |-> block.select]
         /\ key # AgentCount
<1>1. block.key = {key}
  BY DEF IsQuestion, AtMostOne
<1>2. QED
  BY <1>1 DEF Asked, IsQuestion

\* Where an answer is put.
LEMMA StoredDesign ==
  ASSUME NEW document, IsDocument(document), NEW block, NEW key, NEW value,
         NEW new, new = Store(document, block, key, value)
  PROVE  IF block.agent = Everyone /\ block.select
           THEN new.design = document.design /\ new.overrides = Put(document.overrides, key.name, value)
           ELSE new.design = Put(document.design, key, value)
<1>1. /\ "design" \in DOMAIN document /\ "overrides" \in DOMAIN document /\ "agents" \in DOMAIN document
  BY DEF IsDocument
<1>2. PICK design, overrides : design = Put(document.design, key, value)
                              /\ overrides = Put(document.overrides, key.name, value)
  OBVIOUS
<1>3. CASE block.agent # Everyone
  <2>1. PICK agents : new = [document EXCEPT !.agents = agents, !.design = design]
    BY <1>2, <1>3 DEF Store
  <2>2. new.design = design
    BY <1>1, <2>1
  <2>3. QED
    BY <1>2, <1>3, <2>2
<1>4. CASE block.agent = Everyone /\ block.select
  <2>1. new = [document EXCEPT !.overrides = overrides]
    BY <1>2, <1>4 DEF Store
  <2>2. new.design = document.design /\ new.overrides = overrides
    BY <1>1, <2>1
  <2>3. QED
    BY <1>2, <1>4, <2>2
<1>5. CASE block.agent = Everyone /\ ~block.select
  <2>1. new = [document EXCEPT !.design = design]
    BY <1>2, <1>5 DEF Store
  <2>2. new.design = design
    BY <1>1, <2>1
  <2>3. QED
    BY <1>2, <1>5, <2>2
<1>6. QED
  BY <1>3, <1>4, <1>5

\* What a step puts into the document it puts under a key.
LEMMA KeyedStep == ASSUME WizardShaped, QuestionsInv, Next PROVE Keyed'
<1>1. IsDocument(answers) /\ IsKeyed(answers) /\ (emitted # <<>> => IsKeyed(emitted[1].answers))
  BY DEF WizardShaped, QuestionsInv, Keyed
<1>2. IsKeyed(BlankDocument)
  <2>1. BlankDocument.design = <<>>
    BY DEF BlankDocument
  <2>2. QED
    BY <2>1 DEF IsKeyed
<1>3. ASSUME answers'.design = answers.design, emitted' = emitted PROVE Keyed'
  <2>1. PICK new : new = answers' /\ new.design = answers.design
    BY <1>3
  <2>2. IsKeyed(new)
    BY <1>1, <2>1, SameKeyed
  <2>3. QED
    BY <1>1, <1>3, <2>1, <2>2 DEF Keyed
<1>4. CASE LoadAnswers
  <2>1. emitted' = emitted
    BY <1>4 DEF LoadAnswers, Loaded, Fail
  <2>2. \/ answers' = answers \/ answers' = BlankDocument
        \/ \E name : name \in DOMAIN Documents /\ answers' = Documents[name]
        \/ \E source \in args.answers : source.scheme = "emitted" /\ answers' = emitted[1].answers
    BY <1>4 DEF LoadAnswers, Loaded, Fail
  <2>3. IsKeyed(answers')
    BY <1>1, <1>2, <2>2, WizardAssumption DEF WizardShaped
  <2>4. QED
    BY <1>1, <2>1, <2>3 DEF Keyed
<1>5. CASE SelectTemplate
  <2>1. emitted' = emitted
    BY <1>5, AnswersStep DEF WizardShaped, SelectTemplate
  <2>2. CASE answers' = answers
    BY <1>3, <2>1, <2>2
  <2>3. ASSUME NEW chosen, IsTemplate(chosen), answers' = TemplateDefaults(answers, chosen) PROVE Keyed'
    <3>1. PICK new : new = answers' /\ new = TemplateDefaults(answers, chosen)
      BY <2>3
    <3>2. IsKeyed(new)
      BY <1>1, <2>3, <3>1, DefaultsKeyed
    <3>3. QED
      BY <1>1, <2>1, <3>1, <3>2 DEF Keyed
  <2>4. QED
    BY <1>5, <2>2, <2>3, SelectedTemplate
<1>6. CASE ApplyOverrides
  <2>1. /\ emitted' = emitted
        /\ answers' = answers \/ answers' = WithOverrides(answers)
    BY <1>6 DEF ApplyOverrides, Fail
  <2>2. ASSUME NEW new, new = WithOverrides(answers) PROVE new.design = answers.design
    BY <1>1, <2>2, OverridesReplace
  <2>3. QED
    BY <1>3, <2>1, <2>2
<1>7. CASE AskMode \/ AskField
  <2>1. /\ emitted' = emitted
        /\ \/ answers' = answers
           \/ \E mode : answers' = [answers EXCEPT !.mode = mode]
           \/ \E plain : answers' = [answers EXCEPT !.plain = plain]
    BY <1>7 DEF AskMode, AskField
  <2>2. ASSUME NEW value, NEW new, \/ new = [answers EXCEPT !.mode = value]
                                  \/ new = [answers EXCEPT !.plain = value]
        PROVE  new.design = answers.design
    BY <1>1, <2>2, ZenonT(60) DEF IsDocument
  <2>3. QED
    BY <1>3, <2>1, <2>2
<1>8. CASE AskTopology
  <2>1. CASE answers' = answers
    BY <1>3, <1>8, <2>1 DEF AskTopology
  <2>2. CASE answers' # answers
    <3>1. PICK key, value :
            /\ answers' = [answers EXCEPT !.design = Put(@, key, value)]
            /\ key \in {AgentCount, Strategy}
            /\ key = AgentCount => value \in Counts
      <4>1. /\ AskedFirst(Head(todo), answers)
            /\ \E key \in Head(todo).key :
                 \E value \in IF key = AgentCount THEN Counts \ {1} ELSE {"shared", "per_agent"} :
                   answers' = [answers EXCEPT !.design = Put(@, key, value)]
        BY <1>8, <2>2 DEF AskTopology
      <4>2. Head(todo).key \subseteq {AgentCount, Strategy}
        BY <4>1 DEF AskedFirst
      <4>3. PICK key, value :
              /\ key \in Head(todo).key
              /\ value \in IF key = AgentCount THEN Counts \ {1} ELSE {"shared", "per_agent"}
              /\ answers' = [answers EXCEPT !.design = Put(@, key, value)]
        BY <4>1
      <4>4. key = AgentCount => value \in Counts
        BY <4>3
      <4>5. QED
        BY <4>2, <4>3, <4>4
    <3>2. PICK design : design = Put(answers.design, key, value)
      OBVIOUS
    <3>3. PICK new : new = answers' /\ new = [answers EXCEPT !.design = design]
      BY <3>1, <3>2
    <3>4. new.design = Put(answers.design, key, value)
      BY <1>1, <3>2, <3>3 DEF IsDocument
    <3>5. key = AgentCount => value \in Nat
      BY <3>1, WizardAssumption
    <3>6. key = [to |-> key.to, name |-> key.name, provider |-> key.provider]
      BY <3>1, FirstKeys
    <3>7. IsKeyed(new)
      BY <1>1, <3>4, <3>5, <3>6, PutKeyed
    <3>8. QED
      BY <1>1, <1>8, <3>3, <3>7 DEF Keyed, AskTopology
  <2>3. QED
    BY <2>1, <2>2
<1>9. CASE AnswerQuestion
  <2>1. CASE answers' = answers
    BY <1>3, <1>9, <2>1 DEF AnswerQuestion
  <2>2. CASE answers' # answers
    <3>1. PICK block, key, value :
            /\ block = Head(todo) /\ phase = "questions" /\ todo # <<>>
            /\ Asked(block, answers) /\ key \in block.key
            /\ answers' = Store(answers, block, key, value)
      BY <1>9, <2>2 DEF AnswerQuestion
    <3>2. IsQuestion(block, Several)
      BY <3>1, ListHead DEF QuestionsInv, QuestionsWait
    <3>3. key = [to |-> key.to, name |-> key.name, provider |-> key.provider] /\ key # AgentCount
      <4>1. key = [to |-> block.agent, name |-> key.name, provider |-> block.select] /\ key # AgentCount
        BY <3>1, <3>2, AskedKey
      <4>2. QED
        BY <4>1
    <3>4. PICK new : new = answers' /\ new = Store(answers, block, key, value)
      BY <3>1
    <3>5. new.design = answers.design \/ new.design = Put(answers.design, key, value)
      BY <1>1, <3>4, StoredDesign
    <3>6. IsKeyed(new)
      BY <1>1, <3>3, <3>5, SameKeyed, PutKeyed
    <3>7. QED
      BY <1>1, <1>9, <3>4, <3>6 DEF Keyed, AnswerQuestion
  <2>3. QED
    BY <2>1, <2>2
<1>10. CASE Replay
  <2>1. emitted'[1].answers = answers /\ answers' = BlankDocument
    BY <1>10 DEF Replay
  <2>2. QED
    BY <1>1, <1>2, <2>1 DEF Keyed
<1>11. CASE PrintSchema \/ ListTemplates \/ LoadProviders \/ BeginQuestions \/ EndQuestions \/ EndFields
  BY <1>3, <1>11 DEF PrintSchema, ListTemplates, LoadProviders, BeginQuestions, EndQuestions, EndFields, Done, Fail
<1>12. CASE ValidateManifest \/ EmitManifest \/ DryRun \/ Execute
  BY <1>3, <1>12 DEF ValidateManifest, EmitManifest, DryRun, Execute, Fail, Done
<1>13. QED
  BY <1>4, <1>5, <1>6, <1>7, <1>8, <1>9, <1>10, <1>11, <1>12 DEF Next

\* filter_by_suitability leaves providers of the catalog.
LEMMA SuitableCatalog ==
  ASSUME NEW catalog, IsProviderCatalog(catalog), NEW env
  PROVE  IsProviderCatalog(FilterBySuitability(catalog, env))
<1>1. CASE env \notin KnownEnvironments
  BY <1>1 DEF FilterBySuitability
<1>2. CASE env \in KnownEnvironments
  <2>1. PICK T : T = {entry \in ToSet(catalog) : env \in entry.suits}
    OBVIOUS
  <2>2. \A i \in DOMAIN catalog : catalog[i] \in T <=> env \in catalog[i].suits
    BY <2>1 DEF ToSet
  <2>3. PICK f : f = FlattenSeq([i \in DOMAIN catalog |-> IF catalog[i] \in T THEN <<catalog[i]>> ELSE <<>>])
    OBVIOUS
  <2>4. FilterBySuitability(catalog, env) = f
    BY <1>2, <2>2, <2>3 DEF FilterBySuitability, Matching
  <2>5. IsList(f) /\ ToSet(f) \subseteq ToSet(catalog)
    <3>1. IsList(catalog)
      BY DEF IsProviderCatalog
    <3>2. IsList(f) /\ ToSet(f) = ToSet(catalog) \cap T
      BY ONLY <2>3, <3>1, ListsMatch
    <3>3. QED
      BY <3>2
  <2>6. \A entry \in ToSet(catalog) : IsList(entry.required) /\ IsList(entry.blocks)
    BY DEF IsProviderCatalog, ToSet
  <2>7. \A i \in DOMAIN f : f[i] \in ToSet(f)
    BY DEF ToSet
  <2>8. \A i \in DOMAIN f : IsList(f[i].required) /\ IsList(f[i].blocks)
    BY <2>5, <2>6, <2>7
  <2>9. QED
    BY <2>4, <2>5, <2>8 DEF IsProviderCatalog
<1>3. QED
  BY <1>1, <1>2

\* The providers are read from a catalog.
LEMMA ProvidersRead ==
  ASSUME LoadProviders, IsCommandLine(args)
  PROVE  providers' = providers \/ (IsList(providers) /\ \A i \in DOMAIN providers : IsProviderCatalog(providers[i]))'
<1>1. \A list : list = <<>> => IsList(list) /\ \A i \in DOMAIN list : IsProviderCatalog(list[i])
  BY ShortLists
<1>2. ASSUME NEW catalog, IsProviderCatalog(catalog), NEW list, list = <<catalog>>
      PROVE  IsList(list) /\ \A i \in DOMAIN list : IsProviderCatalog(list[i])
  <2>1. IsList(list)
    BY <1>2, ShortLists
  <2>2. \A i \in DOMAIN list : list[i] = catalog
    BY <1>2
  <2>3. QED
    BY <1>2, <2>1, <2>2
<1>3. CASE ProviderPath = {} /\ providers' = <<>>
  BY <1>1, <1>3
<1>4. CASE ProviderPath # {} /\ providers' # providers
  <2>1. PICK one : one = CHOOSE p \in ProviderPath : TRUE
    OBVIOUS
  <2>2. OnDisk(one) \in DOMAIN ProviderCatalogs
    <3>1. one \in ProviderPath /\ \E path \in ProviderPath : OnDisk(path) \in DOMAIN ProviderCatalogs
      BY <1>4, <2>1 DEF LoadProviders, Fail
    <3>2. QED
      BY <3>1, AtMostOneCatalog DEF AtMostOne
  <2>3. providers' = <<FilterBySuitability(ProviderCatalogs[OnDisk(one)], args.env)>>
    BY <1>4, <2>1 DEF LoadProviders, Fail
  <2>4. PICK catalog : /\ catalog = FilterBySuitability(ProviderCatalogs[OnDisk(one)], args.env)
                       /\ IsProviderCatalog(catalog)
    BY <2>2, SuitableCatalog, WizardAssumption
  <2>5. PICK list : list = providers' /\ list = <<catalog>>
    BY <2>3, <2>4
  <2>6. IsList(list) /\ \A i \in DOMAIN list : IsProviderCatalog(list[i])
    BY <1>2, <2>4, <2>5
  <2>7. QED
    BY <2>5, <2>6
<1>5. QED
  BY <1>3, <1>4 DEF LoadProviders, Fail

\* What was read stays until the replay reads it again.
LEMMA CatalogsReadStep == ASSUME WizardShaped, QuestionsInv, Next PROVE CatalogsRead'
<1>1. CASE SelectTemplate
  <2>1. UNCHANGED <<told, providers>> /\ phase = "template"
    BY <1>1 DEF SelectTemplate, WithTemplate, Fail
  <2>2. told = {} /\ IsList(providers) /\ \A i \in DOMAIN providers : IsProviderCatalog(providers[i])
    BY <2>1 DEF QuestionsInv, CatalogsRead, ToldIn
  <2>3. phase' \in {"failed", "providers"} /\ (template' # <<>> => IsTemplate(template'[1]))
    <3>1. CASE UNCHANGED template
      BY <1>1, <3>1, SelectedTemplate DEF QuestionsInv, CatalogsRead
    <3>2. CASE ~UNCHANGED template
      <4>1. phase' = "providers" /\ (template' = <<>> \/ \E chosen : IsTemplate(chosen) /\ template' = <<chosen>>)
        BY <1>1, <3>2, SelectedTemplate
      <4>2. ASSUME NEW chosen, NEW list, list = <<chosen>> PROVE list[1] = chosen
        BY <4>2
      <4>3. QED
        BY <4>1, <4>2
    <3>3. QED
      BY <3>1, <3>2
  <2>4. QED
    BY <2>1, <2>2, <2>3 DEF CatalogsRead
<1>2. CASE LoadProviders
  <2>1. UNCHANGED <<told, template>> /\ phase = "providers" /\ phase' \in {"failed", "overrides"}
    BY <1>2 DEF LoadProviders, Fail
  <2>2. told = {} /\ (template # <<>> => IsTemplate(template[1]))
    BY <2>1 DEF QuestionsInv, CatalogsRead, ToldIn
  <2>3. (IsList(providers) /\ \A i \in DOMAIN providers : IsProviderCatalog(providers[i]))'
    BY <1>2, ProvidersRead DEF QuestionsInv, CatalogsRead, WizardShaped
  <2>4. QED
    BY <2>1, <2>2, <2>3 DEF CatalogsRead
<1>3. CASE Replay
  <2>1. template' = <<>> /\ providers' = <<>> /\ told' = {} /\ phase' = "start"
    BY <1>3 DEF Replay
  <2>2. \A list : list = <<>> => IsList(list) /\ \A i \in DOMAIN list : IsProviderCatalog(list[i])
    BY ShortLists
  <2>3. QED
    BY <2>1, <2>2 DEF CatalogsRead
<1>4. ASSUME UNCHANGED <<template, providers>>,
             phase' \in {"mode", "topology", "questions"} \/ told' # {} => template # <<>>,
             told' # {} => phase' \in ToldIn
      PROVE  CatalogsRead'
  BY <1>4 DEF QuestionsInv, CatalogsRead
<1>5. CASE PrintSchema \/ ListTemplates \/ LoadAnswers
  <2>1. UNCHANGED <<template, providers, told>> /\ phase = "start" /\ phase' \in {"template", "done", "failed"}
    BY <1>5 DEF PrintSchema, ListTemplates, LoadAnswers, Loaded, Done, Fail
  <2>2. QED
    BY <1>4, <2>1 DEF QuestionsInv, CatalogsRead, ToldIn
<1>6. CASE ApplyOverrides
  <2>1. /\ UNCHANGED <<template, providers, told>> /\ phase = "overrides"
        /\ phase' \in {"failed", "build", "fields"} \/ (phase' = "mode" /\ template # <<>>)
    BY <1>6 DEF ApplyOverrides, Fail
  <2>2. QED
    BY <1>4, <2>1 DEF QuestionsInv, CatalogsRead, ToldIn
<1>7. CASE AskMode \/ AskTopology \/ BeginQuestions \/ AnswerQuestion \/ EndQuestions
  <2>1. /\ UNCHANGED <<template, providers>> /\ phase \in {"mode", "topology", "questions"}
        /\ phase' \in {"topology", "questions", "fields"}
        /\ told' = told \/ phase' = "questions"
        /\ phase \in {"mode", "topology"} => told' = told
        /\ phase = "questions" => phase' \in {"questions", "fields"}
    BY <1>7 DEF AskMode, AskTopology, BeginQuestions, AnswerQuestion, EndQuestions
  <2>2. QED
    BY <1>4, <2>1 DEF QuestionsInv, CatalogsRead, ToldIn
<1>8. CASE AskField \/ EndFields \/ ValidateManifest \/ EmitManifest \/ DryRun \/ Execute
  <2>1. /\ UNCHANGED <<template, providers, told>>
        /\ phase' \in {"fields", "build", "emit", "output", "done", "failed"}
    BY <1>8 DEF AskField, EndFields, ValidateManifest, EmitManifest, DryRun, Execute, Fail, Done
  <2>2. QED
    BY <1>4, <2>1 DEF QuestionsInv, CatalogsRead, ToldIn
<1>9. QED
  BY <1>1, <1>2, <1>3, <1>5, <1>6, <1>7, <1>8 DEF Next

\* The number of agents stays when it has been answered.
LEMMA SeveralStays ==
  ASSUME NEW old, NEW new, Keeps(old.design, new.design), NEW chosen, ResolvedAgentCount(old, chosen) > 1
  PROVE  ResolvedAgentCount(new, chosen) > 1
<1>1. chosen.multi /\ AgentCount \in DOMAIN old.design /\ old.design[AgentCount] > 1
  BY DEF ResolvedAgentCount
<1>2. AgentCount \in DOMAIN new.design /\ new.design[AgentCount] = old.design[AgentCount]
  BY <1>1 DEF Keeps
<1>3. QED
  BY <1>1, <1>2 DEF ResolvedAgentCount

\* What is stored stays stored.
LEMMA StoredStays ==
  ASSUME NEW old, NEW new, Keeps(old.design, new.design), Keeps(old.overrides, new.overrides),
         NEW many, NEW more, many => more, NEW t, Stored(old, many, t)
  PROVE  Stored(new, more, t)
BY DEF Stored, Keeps

\* The questions are the design questions of the assembly, for everyone or for
\* one of several agents.
LEMMA QuestionsWaitStep == ASSUME WizardShaped, QuestionsInv, Next PROVE QuestionsWait'
<1>1. CASE BeginQuestions
  <2>1. /\ template # <<>> /\ UNCHANGED <<answers, template, providers>>
        /\ todo' = ResolveVisible(DesignBlocks(answers), answers, template[1])
    BY <1>1 DEF BeginQuestions, QuestionsInv, CatalogsRead
  <2>2. PICK chosen, count : /\ chosen = template[1] /\ IsTemplate(chosen)
                             /\ count = ResolvedAgentCount(answers, chosen) /\ count \in Nat
    BY <2>1, CountIsNumber DEF QuestionsInv, CatalogsRead, Keyed
  <2>3. RawBlocks(Assembly(chosen, providers))
    BY <2>2, AssemblyRaw DEF QuestionsInv, CatalogsRead
  <2>4. PICK blocks : blocks = DesignBlocks(answers) /\ RawBlocks(blocks)
    <3>1. PICK assembly, mode : /\ assembly = Assembly(chosen, providers)
                                /\ DesignBlocks(answers) = BlocksFor(assembly, "design", mode)
      BY <2>2 DEF DesignBlocks
    <3>2. QED
      BY <2>3, <3>1, ShownBlocks
  <2>5. PICK shown : shown = todo' /\ shown = ResolveVisible(blocks, answers, chosen)
    BY <2>1, <2>2, <2>4
  <2>6. /\ IsList(shown)
        /\ ToSet(shown) = UNION {CopiesOf(b, count > 1 /\ IsPerAgent(b, answers), count) : b \in ToSet(blocks)}
    BY <2>2, <2>4, <2>5, ResolvedBlocks DEF RawBlocks
  <2>7. ASSUME NEW c \in ToSet(shown) PROVE IsQuestion(c, count > 1)
    <3>1. PICK b \in ToSet(blocks) : c \in CopiesOf(b, count > 1 /\ IsPerAgent(b, answers), count)
      BY <2>6
    <3> DEFINE many == count > 1 /\ IsPerAgent(b, answers)
               several == count > 1
    <3>2. several \in BOOLEAN /\ (many => several)
      BY <2>2
    <3>3. IsRaw(b) /\ c \in CopiesOf(b, many, count)
      BY <2>4, <3>1 DEF RawBlocks
    <3> HIDE DEF many, several
    <3>4. IsQuestion(c, several)
      BY <2>2, <3>2, <3>3, CopiesAreQuestions
    <3>5. QED
      BY <3>4 DEF several
  <2>8. Several' = (count > 1)
    BY <2>1, <2>2 DEF Several
  <2>9. QED
    BY <2>5, <2>6, <2>7, <2>8 DEF QuestionsWait
<1>2. CASE AnswerQuestion
  <2>1. /\ phase = "questions" /\ todo # <<>> /\ UNCHANGED template /\ todo' = Tail(todo)
    BY <1>2 DEF AnswerQuestion
  <2>2. IsList(todo') /\ \A b \in ToSet(todo') : IsQuestion(b, Several)
    BY <2>1, ListHead DEF QuestionsInv, QuestionsWait
  <2>3. Several => Several'
    <3>1. PICK old, new, chosen : old = answers /\ new = answers' /\ chosen = template[1]
      OBVIOUS
    <3>2. Keeps(old.design, new.design)
      BY <2>1, <3>1, AnswersStep DEF WizardShaped, DocumentStep
    <3>3. Several = (ResolvedAgentCount(old, chosen) > 1) /\ Several' = (ResolvedAgentCount(new, chosen) > 1)
      BY <2>1, <3>1 DEF Several
    <3>4. QED
      BY <3>2, <3>3, SeveralStays
  <2>4. QED
    BY <2>2, <2>3 DEF QuestionsWait, IsQuestion
<1>3. phase' # "questions" \/ BeginQuestions \/ AnswerQuestion
  BY DEF Next, PrintSchema, ListTemplates, LoadAnswers, Loaded, SelectTemplate, WithTemplate, LoadProviders,
      ApplyOverrides, AskMode, AskTopology, EndQuestions, AskField, EndFields, ValidateManifest, EmitManifest,
      DryRun, Execute, Replay, Fail, Done
<1>4. QED
  BY <1>1, <1>2, <1>3 DEF QuestionsWait

\* What the user says is stored, and stays.
LEMMA ToldStep == ASSUME WizardShaped, QuestionsInv, Next PROVE ToldIsStored'
<1>1. told' = told \/ told' = {} \/ AnswerQuestion
  BY DEF Next, PrintSchema, ListTemplates, LoadAnswers, Loaded, SelectTemplate, WithTemplate, LoadProviders,
      ApplyOverrides, AskMode, AskTopology, BeginQuestions, EndQuestions, AskField, EndFields, ValidateManifest,
      EmitManifest, DryRun, Execute, Replay, Fail, Done
<1>2. CASE told' = {}
  BY <1>2 DEF ToldIsStored
<1>3. ASSUME NEW t \in told, told' # {} PROVE Stored(answers', Several', t)
  <2>1. phase \in ToldIn /\ phase # "done" /\ phase \notin {"start", "overrides"}
    <3>1. phase \in ToldIn
      BY DEF QuestionsInv, CatalogsRead
    <3>2. CASE phase = "done"
      <4>1. Replay
        BY <3>2 DEF Next, PrintSchema, ListTemplates, LoadAnswers, SelectTemplate, LoadProviders,
            ApplyOverrides, AskMode, AskTopology, BeginQuestions, AnswerQuestion, EndQuestions, AskField, EndFields,
            ValidateManifest, EmitManifest, DryRun, Execute
      <4>2. QED
        BY <1>3, <4>1 DEF Replay
    <3>3. QED
      BY <3>1, <3>2 DEF ToldIn
  <2>2. template' = template
    BY <2>1 DEF ToldIn, Next, PrintSchema, ListTemplates, LoadAnswers, SelectTemplate, LoadProviders,
        ApplyOverrides, AskMode, AskTopology, BeginQuestions, AnswerQuestion, EndQuestions, AskField, EndFields,
        ValidateManifest, EmitManifest, DryRun, Execute, Replay, Fail, Done
  <2>3. PICK old, new, chosen : old = answers /\ new = answers' /\ chosen = template[1]
    OBVIOUS
  <2>4. Keeps(old.design, new.design) /\ Keeps(old.overrides, new.overrides)
    BY <2>1, <2>3, AnswersStep DEF WizardShaped, DocumentStep
  <2>5. PICK many, more : many = Several /\ more = Several'
    OBVIOUS
  <2>6. many => more
    <3>1. many = (ResolvedAgentCount(old, chosen) > 1) /\ more = (ResolvedAgentCount(new, chosen) > 1)
      BY <2>2, <2>3, <2>5 DEF Several
    <3>2. QED
      BY <2>4, <3>1, SeveralStays
  <2>7. Stored(old, many, t)
    BY <2>3, <2>5 DEF QuestionsInv, ToldIsStored
  <2>8. Stored(new, more, t)
    BY <2>4, <2>6, <2>7, StoredStays
  <2>9. QED
    BY <2>3, <2>5, <2>8
<1>4. CASE AnswerQuestion
  <2>1. CASE told' = told
    BY <1>2, <1>3, <2>1 DEF ToldIsStored
  <2>2. CASE told' # told
    <3>1. PICK block, key, value :
            /\ block = Head(todo) /\ phase = "questions" /\ todo # <<>> /\ template' = template
            /\ Asked(block, answers) /\ key \in block.key
            /\ answers' = Store(answers, block, key, value)
            /\ told' = {t \in told : t.key # key} \cup {[key |-> key, value |-> value]}
      BY <1>4, <2>2 DEF AnswerQuestion
    <3>2. IsQuestion(block, Several)
      BY <3>1, ListHead DEF QuestionsInv, QuestionsWait
    <3>3. PICK old, new, chosen : old = answers /\ new = answers' /\ chosen = template[1]
      OBVIOUS
    <3>4. Several => Several'
      <4>1. Keeps(old.design, new.design)
        BY <3>1, <3>3, AnswersStep DEF WizardShaped, DocumentStep
      <4>2. Several = (ResolvedAgentCount(old, chosen) > 1) /\ Several' = (ResolvedAgentCount(new, chosen) > 1)
        BY <3>1, <3>3 DEF Several
      <4>3. QED
        BY <4>1, <4>2, SeveralStays
    <3>5. key = [to |-> block.agent, name |-> key.name, provider |-> block.select]
      BY <3>1, <3>2, AskedKey
    <3>6. IF block.agent = Everyone /\ block.select
            THEN new.overrides = Put(old.overrides, key.name, value)
            ELSE new.design = Put(old.design, key, value)
      <4>1. IsDocument(old) /\ new = Store(old, block, key, value)
        BY <3>1, <3>3 DEF WizardShaped
      <4>2. QED
        BY <4>1, StoredDesign
    <3>7. PICK t : t = [key |-> key, value |-> value]
      OBVIOUS
    <3>8. t.key = key /\ t.value = value
      BY <3>7
    <3>9. \A map : key \in DOMAIN Put(map, key, value) /\ Put(map, key, value)[key] = value
                /\ key.name \in DOMAIN Put(map, key.name, value) /\ Put(map, key.name, value)[key.name] = value
      BY DEF Put
    <3>10. /\ key.to = block.agent /\ key.provider = block.select
      BY <3>5
    <3>11. Stored(new, Several', t)
      BY <3>2, <3>4, <3>5, <3>6, <3>8, <3>9, <3>10 DEF Stored, IsQuestion
    <3>12. \A u \in told' : u = t \/ u \in told
      BY <3>1, <3>7
    <3>13. told' # {}
      BY <3>1
    <3>14. QED
      BY <1>3, <3>3, <3>11, <3>12, <3>13 DEF ToldIsStored
  <2>3. QED
    BY <2>1, <2>2
<1>5. QED
  BY <1>1, <1>2, <1>3, <1>4 DEF ToldIsStored

\* The questions and their answers, in every state.
LEMMA QuestionsInvariant == CliSpec => []QuestionsInv
<1>1. CliInit => QuestionsInv
  <2>1. SUFFICES ASSUME Init PROVE QuestionsInv
    BY DEF CliInit
  <2>2. /\ answers = BlankDocument /\ emitted = <<>> /\ template = <<>> /\ providers = <<>>
        /\ told = {} /\ phase = "start"
    BY <2>1 DEF Init
  <2>3. IsKeyed(answers)
    <3>1. BlankDocument.design = <<>>
      BY DEF BlankDocument
    <3>2. QED
      BY <2>2, <3>1 DEF IsKeyed
  <2>4. IsList(providers) /\ DOMAIN providers = {}
    BY <2>2, ShortLists
  <2>5. QED
    BY <2>2, <2>3, <2>4 DEF QuestionsInv, Keyed, CatalogsRead, QuestionsWait, ToldIsStored
<1>2. WizardShaped /\ QuestionsInv /\ [CliNext]_cliVars => QuestionsInv'
  <2>1. SUFFICES ASSUME WizardShaped, QuestionsInv, Next \/ UNCHANGED vars PROVE QuestionsInv'
    BY DEF CliNext, cliVars
  <2>2. CASE UNCHANGED vars
    BY <2>1, <2>2 DEF vars, QuestionsInv, Keyed, CatalogsRead, QuestionsWait, ToldIsStored, Several
  <2>3. CASE Next
    BY <2>1, <2>3, KeyedStep, CatalogsReadStep, QuestionsWaitStep, ToldStep DEF QuestionsInv
  <2>4. QED
    BY <2>1, <2>2, <2>3
<1>3. QED
  BY <1>1, <1>2, WizardShapedInvariant, PTL DEF CliSpec

\* A review is of the document, the template and the providers that are there.
LEMMA ReviewedRequest ==
  ASSUME Reviewed, RunInv
  PROVE  /\ template # <<>>
         /\ result[1].review[1] = Review(answers, template[1], providers)
         /\ result[1].review[1].request = ResolveRequest(answers, template[1], Provided)
<1>1. DryRunDone
  BY DEF Reviewed, DryRunDone
<1>2. result = <<DryRunOutput(answers, template, providers)>>
  BY <1>1 DEF RunInv, OutputFollows
<1>3. PICK review : review = [i \in DOMAIN template |-> Review(answers, template[i], providers)]
  OBVIOUS
<1>4. result[1].review = review
  BY <1>2, <1>3 DEF DryRunOutput
<1>5. template # <<>>
  <2>1. SUFFICES ASSUME template = <<>> PROVE review = <<>>
    BY <1>4 DEF Reviewed
  <2>2. DOMAIN template = {}
    BY <2>1
  <2>3. \A s : s = <<>> => IsMap(s) /\ DOMAIN s = {}
    BY DEF IsMap
  <2>4. IsMap(review) /\ DOMAIN review = {}
    BY <1>3, <2>2 DEF IsMap
  <2>5. QED
    BY <2>3, <2>4 DEF IsMap
<1>6. template = <<template[1]>>
  BY <1>1, <1>5 DEF RunInv, TemplateFollows
<1>7. 1 \in DOMAIN template
  BY <1>6
<1>8. review[1] = Review(answers, template[1], providers)
  BY <1>3, <1>7
<1>9. Review(answers, template[1], providers).request = ResolveRequest(answers, template[1], Provided)
  BY DEF Review, Provided
<1>10. QED
  BY <1>4, <1>5, <1>8, <1>9

\* What the resolver is asked for an agent.
LEMMA RequestedAgents ==
  ASSUME NEW document, IsKeyed(document), NEW chosen, NEW catalog,
         NEW request, request = ResolveRequest(document, chosen, catalog)
  PROVE  /\ DOMAIN request.agents = 1 .. ResolvedAgentCount(document, chosen)
         /\ Len(request.agents) = ResolvedAgentCount(document, chosen)
         /\ \A i \in DOMAIN request.agents :
              /\ request.agents[i].answers = ScopedAnswers(document, AgentName(document, chosen, i))
              /\ request.agents[i].overrides
                   = ScopedOverrides(document, chosen, catalog, AgentName(document, chosen, i))
         /\ request.shared = IF SharesProviders(document) THEN SelectedOverrides(document, chosen, catalog) ELSE <<>>
<1>1. PICK count \in Nat : count = ResolvedAgentCount(document, chosen)
  BY CountIsNumber
<1>2. PICK agents : agents = [i \in 1 .. count |->
                 LET name == AgentName(document, chosen, i)
                 IN  [answers |-> ScopedAnswers(document, name),
                      overrides |-> ScopedOverrides(document, chosen, catalog, name)]]
  OBVIOUS
<1>3. /\ request.agents = agents
      /\ request.shared = IF SharesProviders(document) THEN SelectedOverrides(document, chosen, catalog) ELSE <<>>
  BY <1>1, <1>2 DEF ResolveRequest
<1>4. IsMap(agents) /\ DOMAIN agents = 1 .. count
  BY <1>2 DEF IsMap
<1>5. Len(agents) = count
  BY <1>4, MapIsList
<1>6. \A i \in 1 .. count :
        /\ agents[i].answers = ScopedAnswers(document, AgentName(document, chosen, i))
        /\ agents[i].overrides = ScopedOverrides(document, chosen, catalog, AgentName(document, chosen, i))
  BY <1>2
<1>7. QED
  BY <1>1, <1>3, <1>4, <1>5, <1>6

\* The flat answers of a scope are those under its keys.
LEMMA FlatFacts ==
  ASSUME NEW document, IsKeyed(document), NEW to, NEW provider
  PROVE  /\ \A name \in DOMAIN FlatAnswers(document, to, provider) : \E k \in DOMAIN document.design :
              k.to = to /\ k.provider = provider /\ k.name = name
         /\ \A k \in DOMAIN document.design : k.to = to /\ k.provider = provider =>
              /\ k.name \in DOMAIN FlatAnswers(document, to, provider)
              /\ FlatAnswers(document, to, provider)[k.name] = document.design[k]
<1>1. PICK keys : keys = {k \in DOMAIN document.design : k.to = to /\ k.provider = provider}
  OBVIOUS
<1>2. PICK flat : flat = [name \in {k.name : k \in keys} |-> document.design[CHOOSE k \in keys : k.name = name]]
  OBVIOUS
<1>3. FlatAnswers(document, to, provider) = flat
  BY <1>1, <1>2 DEF FlatAnswers
<1>4. ASSUME NEW k \in keys PROVE k.name \in DOMAIN flat /\ flat[k.name] = document.design[k]
  <2>1. PICK j : j = CHOOSE h \in keys : h.name = k.name
    OBVIOUS
  <2>2. j \in keys /\ j.name = k.name
    BY <2>1
  <2>3. /\ j = [to |-> j.to, name |-> j.name, provider |-> j.provider]
        /\ k = [to |-> k.to, name |-> k.name, provider |-> k.provider]
    BY <1>1, <2>2 DEF IsKeyed
  <2>4. j.to = k.to /\ j.provider = k.provider
    BY <1>1, <2>2
  <2>5. j = k
    BY <2>2, <2>3, <2>4
  <2>6. QED
    BY <1>2, <2>1, <2>5
<1>5. ASSUME NEW name \in DOMAIN flat
      PROVE  \E k \in DOMAIN document.design : k.to = to /\ k.provider = provider /\ k.name = name
  BY <1>1, <1>2, <1>5
<1>6. \A k \in DOMAIN document.design : k.to = to /\ k.provider = provider => k \in keys
  BY <1>1
<1>7. QED
  BY <1>3, <1>4, <1>5, <1>6

\* Of two maps, one has a name or neither.
LEMMA OverAt ==
  ASSUME NEW upper, NEW lower, NEW map, map = Over(upper, lower), NEW name
  PROVE  /\ name \in DOMAIN upper => name \in DOMAIN map /\ map[name] = upper[name]
         /\ name \notin DOMAIN upper /\ name \in DOMAIN lower => name \in DOMAIN map /\ map[name] = lower[name]
         /\ name \notin DOMAIN upper /\ name \notin DOMAIN lower => name \notin DOMAIN map
BY DEF Over

\* What an agent is asked to use, layer by layer: under its id, under its
\* number, in its own document, and everyone's.
Layers(document, name, provider, own, common) ==
  Over(FlatAnswers(document, name.id, provider),
    Over(FlatAnswers(document, NumberedName(document, name), provider), Over(own, common)))

\* Under its id nobody is asked: what is said under its number wins.
LEMMA NumberedLayer ==
  ASSUME NEW document, IsKeyed(document), NEW name, NEW provider, NEW own, NEW common,
         \A k \in DOMAIN document.design : k.to # name.id,
         NEW key \in DOMAIN document.design, key.to = NumberedName(document, name), key.provider = provider,
         NEW layers, layers = Layers(document, name, provider, own, common)
  PROVE  key.name \in DOMAIN layers /\ layers[key.name] = document.design[key]
<1>1. PICK a, b, d : /\ a = FlatAnswers(document, name.id, provider)
                     /\ b = FlatAnswers(document, NumberedName(document, name), provider)
                     /\ d = Over(own, common)
  OBVIOUS
<1>2. PICK c : c = Over(b, d)
  OBVIOUS
<1>3. layers = Over(a, c)
  BY <1>1, <1>2 DEF Layers
<1>4. key.name \notin DOMAIN a
  BY <1>1, FlatFacts
<1>5. key.name \in DOMAIN b /\ b[key.name] = document.design[key]
  BY <1>1, FlatFacts
<1>6. key.name \in DOMAIN c /\ c[key.name] = b[key.name]
  BY <1>2, <1>5, OverAt
<1>7. key.name \in DOMAIN layers /\ layers[key.name] = c[key.name]
  BY ONLY <1>3, <1>4, <1>6, OverAt
<1>8. QED
  BY <1>5, <1>6, <1>7

\* Where the upper layers say nothing, the agent's document is asked, and
\* then everyone's answers.
LEMMA LowerLayers ==
  ASSUME NEW document, NEW id, IsKeyed(document), NEW name, NEW provider, NEW own, NEW common,
         \A k \in DOMAIN document.design :
           k.to \in {name.id, NumberedName(document, name)} /\ k.provider = provider => k.name # id,
         NEW layers, layers = Layers(document, name, provider, own, common)
  PROVE  /\ id \in DOMAIN own => id \in DOMAIN layers /\ layers[id] = own[id]
         /\ id \notin DOMAIN own /\ id \in DOMAIN common => id \in DOMAIN layers /\ layers[id] = common[id]
         /\ id \notin DOMAIN own /\ id \notin DOMAIN common => id \notin DOMAIN layers
<1>1. PICK a, b, d : /\ a = FlatAnswers(document, name.id, provider)
                     /\ b = FlatAnswers(document, NumberedName(document, name), provider)
                     /\ d = Over(own, common)
  OBVIOUS
<1>2. PICK c : c = Over(b, d)
  OBVIOUS
<1>3. layers = Over(a, c)
  BY <1>1, <1>2 DEF Layers
<1>4. id \notin DOMAIN a /\ id \notin DOMAIN b
  BY <1>1, FlatFacts
<1>5. /\ id \in DOMAIN d => id \in DOMAIN c /\ c[id] = d[id]
      /\ id \notin DOMAIN d => id \notin DOMAIN c
  BY ONLY <1>2, <1>4, OverAt
<1>6. /\ id \in DOMAIN c => id \in DOMAIN layers /\ layers[id] = c[id]
      /\ id \notin DOMAIN c => id \notin DOMAIN layers
  BY ONLY <1>3, <1>4, OverAt
<1>7. /\ id \in DOMAIN own => id \in DOMAIN d /\ d[id] = own[id]
      /\ id \notin DOMAIN own /\ id \in DOMAIN common => id \in DOMAIN d /\ d[id] = common[id]
      /\ id \notin DOMAIN own /\ id \notin DOMAIN common => id \notin DOMAIN d
  BY ONLY <1>1, OverAt
<1>8. QED
  BY <1>5, <1>6, <1>7

\* The names an agent goes by: its id and its number, neither of them everyone.
LEMMA AgentNames ==
  ASSUME NEW document, NEW chosen, NEW i, NEW name, name = AgentName(document, chosen, i)
  PROVE  /\ \E n : name.id = ById(n)
         /\ \E n : NumberedName(document, name) = Numbered(n)
         /\ ResolvedAgentCount(document, chosen) > 1 =>
              name.id = ById(i) /\ NumberedName(document, name) = Numbered(i)
         /\ name.id # Everyone /\ NumberedName(document, name) # Everyone /\ name.id[1] = "id"
<1>1. CASE ResolvedAgentCount(document, chosen) > 1
  <2>1. name = [id |-> ById(i), number |-> i]
    BY <1>1 DEF AgentName
  <2>2. name.id = ById(i) /\ NumberedName(document, name) = Numbered(i)
    BY <2>1 DEF NumberedName
  <2>3. QED
    BY <2>2 DEF ById, Numbered, Everyone
<1>2. CASE ~(ResolvedAgentCount(document, chosen) > 1)
  <2>1. PICK n : name = [id |-> ById(0), number |-> n]
    BY <1>2 DEF AgentName
  <2>2. name.id = ById(0) /\ NumberedName(document, name) = Numbered(n)
    BY <2>1 DEF NumberedName
  <2>3. QED
    BY <1>2, <2>2 DEF ById, Numbered, Everyone
<1>3. QED
  BY <1>1, <1>2

\* What the layers of an agent are.
LEMMA ScopedLayers ==
  ASSUME NEW document, NEW chosen, NEW catalog, NEW name
  PROVE  /\ ScopedAnswers(document, name)
              = Layers(document, name, FALSE, AgentDocument(document, name).design,
                       FlatAnswers(document, Everyone, FALSE))
         /\ ScopedOverrides(document, chosen, catalog, name)
              = Layers(document, name, TRUE, AgentDocument(document, name).overrides,
                       IF SharesProviders(document) THEN <<>> ELSE SelectedOverrides(document, chosen, catalog))
BY DEF ScopedAnswers, ScopedOverrides, Layers

\* An agent's document is one that is there, or empty.
LEMMA DocumentOfAgent ==
  ASSUME NEW document, NEW name, NEW entry, entry = AgentDocument(document, name)
  PROVE  \/ \E a \in DOMAIN document.agents : entry = document.agents[a]
         \/ DOMAIN entry.design = {} /\ DOMAIN entry.overrides = {}
BY DEF AgentDocument

\* What the user says of an agent or of everyone reaches the agent.
LEMMA ToldReachesAgent ==
  ASSUME QuestionsInv, NEW request, request = ResolveRequest(answers, template[1], Provided),
         NEW i \in DOMAIN request.agents, NEW t \in told,
         \/ t.key.to = Numbered(i) /\ ~AnsweredById
         \/ t.key.to = Everyone /\ ~OwnAnswers(t.key)
  PROVE  Used(request, i, t.key)[t.key.name] = t.value
<1>1. PICK chosen, catalog : chosen = template[1] /\ catalog = Provided
  OBVIOUS
<1>2. PICK name : name = AgentName(answers, chosen, i)
  OBVIOUS
<1>3. PICK shares : shares = IF SharesProviders(answers) THEN <<>> ELSE SelectedOverrides(answers, chosen, catalog)
  OBVIOUS
<1>4. PICK entry : entry = AgentDocument(answers, name)
  OBVIOUS
<1>5. IsKeyed(answers)
  BY DEF QuestionsInv, Keyed
<1>6. PICK inner, upper, design, overrides, flat :
        /\ inner = request.agents[i].answers /\ upper = request.agents[i].overrides
        /\ design = entry.design /\ overrides = entry.overrides
        /\ flat = FlatAnswers(answers, Everyone, FALSE)
        /\ inner = Layers(answers, name, FALSE, design, flat)
        /\ upper = Layers(answers, name, TRUE, overrides, shares)
  <2>1. /\ request.agents[i].answers = ScopedAnswers(answers, name)
        /\ request.agents[i].overrides = ScopedOverrides(answers, chosen, catalog, name)
    BY <1>1, <1>2, <1>5, RequestedAgents
  <2>2. /\ ScopedAnswers(answers, name)
             = Layers(answers, name, FALSE, entry.design, FlatAnswers(answers, Everyone, FALSE))
        /\ ScopedOverrides(answers, chosen, catalog, name) = Layers(answers, name, TRUE, entry.overrides, shares)
    BY <1>3, <1>4, ScopedLayers
  <2>3. QED
    BY <2>1, <2>2
<1>7. request.shared = IF SharesProviders(answers) THEN SelectedOverrides(answers, chosen, catalog) ELSE <<>>
  BY <1>1, <1>5, RequestedAgents
<1>8. PICK key, id, kind : key = t.key /\ id = key.name /\ kind = key.provider
  OBVIOUS
<1>9. Stored(answers, Several, t)
  BY DEF QuestionsInv, ToldIsStored
<1>10. /\ \E n : name.id = ById(n)
       /\ \E n : NumberedName(answers, name) = Numbered(n)
       /\ Several => name.id = ById(i) /\ NumberedName(answers, name) = Numbered(i)
       /\ name.id # Everyone /\ NumberedName(answers, name) # Everyone /\ name.id[1] = "id"
  BY <1>1, <1>2, AgentNames DEF Several
<1>11. CASE key.to = Numbered(i) /\ ~AnsweredById
  <2>1. key.to # Everyone
    BY <1>11 DEF Numbered, Everyone
  <2>2. /\ key \in DOMAIN answers.design /\ answers.design[key] = t.value
        /\ key.to = NumberedName(answers, name) /\ key.provider \in BOOLEAN
    BY <1>8, <1>9, <1>10, <1>11, <2>1 DEF Stored
  <2>3. \A k \in DOMAIN answers.design : k.to # name.id
    BY <1>10, <1>11 DEF AnsweredById
  <2>4. CASE key.provider = FALSE
    <3>1. key.name \in DOMAIN inner /\ inner[key.name] = answers.design[key]
      <4>1. inner = Layers(answers, name, kind, design, flat)
        BY <1>6, <1>8, <2>4
      <4>2. QED
        BY ONLY <1>5, <1>8, <2>2, <2>3, <4>1, NumberedLayer
    <3>2. Used(request, i, key) = inner
      BY <1>6, <2>4 DEF Used
    <3>3. QED
      BY <1>8, <2>2, <3>1, <3>2
  <2>5. CASE key.provider = TRUE
    <3>1. key.name \in DOMAIN upper /\ upper[key.name] = answers.design[key]
      <4>1. upper = Layers(answers, name, kind, overrides, shares)
        BY <1>6, <1>8, <2>5
      <4>2. QED
        BY ONLY <1>5, <1>8, <2>2, <2>3, <4>1, NumberedLayer
    <3>2. PICK used, shared : used = Used(request, i, key) /\ used = Over(upper, shared)
      BY <1>6, <2>5 DEF Used
    <3>3. used[key.name] = upper[key.name]
      BY ONLY <3>1, <3>2, OverAt
    <3>4. QED
      BY <1>8, <2>2, <3>1, <3>2, <3>3
  <2>6. QED
    BY <2>2, <2>4, <2>5
<1>12. CASE key.to = Everyone /\ ~OwnAnswers(key)
  <2>1. \A k \in DOMAIN answers.design :
          k.to \in {name.id, NumberedName(answers, name)} /\ k.provider = kind => k.name # id
    BY <1>8, <1>10, <1>12 DEF OwnAnswers
  <2>2. key.name \notin DOMAIN (IF key.provider THEN entry.overrides ELSE entry.design)
    BY <1>4, <1>12, DocumentOfAgent DEF OwnAnswers
  <2>3. key.provider \in BOOLEAN
    BY <1>8, <1>9 DEF Stored
  <2>4. CASE key.provider = FALSE
    <3>1. key \in DOMAIN answers.design /\ answers.design[key] = t.value
      BY <1>8, <1>9, <2>4 DEF Stored
    <3>2. key.name \in DOMAIN flat /\ flat[key.name] = answers.design[key]
      <4>1. flat = FlatAnswers(answers, Everyone, kind)
        BY <1>6, <1>8, <2>4
      <4>2. QED
        BY ONLY <1>5, <1>8, <1>12, <3>1, <4>1, FlatFacts
    <3>3. key.name \notin DOMAIN design
      BY <1>6, <2>2, <2>4
    <3>4. inner = Layers(answers, name, kind, design, flat)
      BY <1>6, <1>8, <2>4
    <3>5. id \notin DOMAIN design /\ id \in DOMAIN flat
      BY <1>8, <3>2, <3>3
    <3>6. inner[id] = flat[id]
      BY ONLY <1>5, <2>1, <3>4, <3>5, LowerLayers
    <3>7. Used(request, i, key) = inner
      BY <1>6, <2>4 DEF Used
    <3>8. QED
      BY <1>8, <3>1, <3>2, <3>6, <3>7
  <2>5. CASE key.provider = TRUE
    <3>1. key.name \in DOMAIN answers.overrides /\ answers.overrides[key.name] = t.value
      BY <1>8, <1>9, <1>12, <2>5 DEF Stored
    <3>2. PICK selected : selected = SelectedOverrides(answers, chosen, catalog)
      OBVIOUS
    <3>3. key.name \in DOMAIN selected /\ selected[key.name] = t.value
      <4>1. PICK lower : selected = Over(answers.overrides, lower)
        BY <3>2 DEF SelectedOverrides
      <4>2. QED
        BY ONLY <3>1, <4>1, OverAt
    <3>4. PICK used, shared : /\ used = Used(request, i, key) /\ used = Over(upper, shared)
                              /\ shared = request.shared
      BY <1>6, <2>5 DEF Used
    <3>5. id = key.name /\ id \notin DOMAIN overrides
      BY <1>6, <1>8, <2>2, <2>5
    <3>9. upper = Layers(answers, name, kind, overrides, shares)
      BY <1>6, <1>8, <2>5
    <3>6. CASE SharesProviders(answers)
      <4>1. shared = selected /\ DOMAIN shares = {}
        BY <1>3, <1>7, <3>2, <3>4, <3>6
      <4>2. id \notin DOMAIN upper
        <5>1. id \notin DOMAIN shares
          BY <4>1
        <5>2. QED
          BY ONLY <1>5, <2>1, <3>5, <3>9, <5>1, LowerLayers
      <4>3. used[key.name] = shared[key.name]
        BY ONLY <3>3, <3>4, <3>5, <4>1, <4>2, OverAt
      <4>4. QED
        BY <1>8, <3>3, <3>4, <4>1, <4>3
    <3>7. CASE ~SharesProviders(answers)
      <4>1. shares = selected
        BY <1>3, <3>2, <3>7
      <4>2. key.name \in DOMAIN upper /\ upper[key.name] = shares[key.name]
        <5>1. id \in DOMAIN shares
          BY <3>3, <3>5, <4>1
        <5>2. id \in DOMAIN upper /\ upper[id] = shares[id]
          BY ONLY <1>5, <2>1, <3>5, <3>9, <5>1, LowerLayers
        <5>3. QED
          BY <3>5, <5>2
      <4>3. used[key.name] = upper[key.name]
        BY ONLY <3>4, <4>2, OverAt
      <4>4. QED
        BY <1>8, <3>3, <3>4, <4>1, <4>2, <4>3
    <3>8. QED
      BY <3>6, <3>7
  <2>6. QED
    BY <2>3, <2>4, <2>5
<1>13. QED
  BY <1>8, <1>11, <1>12

\* With several agents, a document's entry under an agent's number counts for
\* every name without a flat key.
LEMMA EntryCounts ==
  ASSUME QuestionsInv, NEW request, request = ResolveRequest(answers, template[1], Provided),
         NEW i \in DOMAIN request.agents, Len(request.agents) > 1,
         Numbered(i) \in DOMAIN answers.agents, ById(i) \notin DOMAIN answers.agents,
         NEW id \in DOMAIN answers.agents[Numbered(i)].design,
         \A to \in {Numbered(i), ById(i)} : Key(to, id) \notin DOMAIN answers.design
  PROVE  request.agents[i].answers[id] = answers.agents[Numbered(i)].design[id]
<1>1. PICK chosen, catalog : chosen = template[1] /\ catalog = Provided
  OBVIOUS
<1>2. PICK name : name = AgentName(answers, chosen, i)
  OBVIOUS
<1>3. IsKeyed(answers)
  BY DEF QuestionsInv, Keyed
<1>4. /\ Len(request.agents) = ResolvedAgentCount(answers, chosen)
      /\ request.agents[i].answers = ScopedAnswers(answers, name)
  BY <1>1, <1>2, <1>3, RequestedAgents
<1>5. name.id = ById(i) /\ NumberedName(answers, name) = Numbered(i)
  BY <1>2, <1>4, AgentNames
<1>6. PICK entry : entry = answers.agents[Numbered(i)] /\ AgentDocument(answers, name) = entry
  BY <1>5 DEF AgentDocument
<1>7. PICK inner, design, flat, kind :
        /\ inner = request.agents[i].answers /\ design = entry.design
        /\ flat = FlatAnswers(answers, Everyone, FALSE) /\ kind = FALSE
        /\ inner = Layers(answers, name, kind, design, flat)
  BY <1>4, <1>6, ScopedLayers
<1>8. ASSUME NEW k \in DOMAIN answers.design,
             k.to \in {name.id, NumberedName(answers, name)}, k.provider = kind
      PROVE  k.name # id
  <2>1. k = [to |-> k.to, name |-> k.name, provider |-> FALSE]
    <3>1. k.provider = FALSE
      BY <1>7, <1>8
    <3>2. k = [to |-> k.to, name |-> k.name, provider |-> k.provider]
      BY <1>3 DEF IsKeyed
    <3>3. QED
      BY ONLY <3>1, <3>2
  <2>2. QED
    BY <1>5, <1>8, <2>1 DEF Key
<1>9. inner[id] = entry.design[id]
  <2>1. id \in DOMAIN design
    BY <1>6, <1>7
  <2>2. \A k \in DOMAIN answers.design :
          k.to \in {name.id, NumberedName(answers, name)} /\ k.provider = kind => k.name # id
    BY <1>8
  <2>3. inner = Layers(answers, name, kind, design, flat)
    BY <1>7
  <2>4. inner[id] = design[id]
    BY ONLY <1>3, <2>1, <2>2, <2>3, LowerLayers
  <2>5. QED
    BY <1>7, <2>4
<1>10. QED
  BY <1>6, <1>7, <1>9

\* RunInv is an invariant: what the review is of.
LEMMA RunInvariant == CliSpec => []RunInv
<1>1. CliInit => RunInv
  BY DEF CliInit, Init, RunInv, TemplateFollows, ProvidersFollow, WorkerFollows, OutputFollows, DryRunDone,
         AfterTemplate, AfterProviders, WithFlags
<1>2. WizardShaped /\ RunInv /\ [CliNext]_cliVars => RunInv'
  <2>1. SUFFICES ASSUME WizardShaped, RunInv, Next \/ UNCHANGED vars PROVE RunInv'
    BY DEF CliNext, cliVars
  <2>2. CASE UNCHANGED vars
    <3>1. args' = args /\ phase' = phase /\ answers' = answers /\ template' = template
          /\ providers' = providers /\ result' = result
      BY <2>2 DEF vars
    <3>2. QED
      BY <2>1, <3>1, CatalogsStay DEF RunInv, TemplateFollows, ProvidersFollow, WorkerFollows, OutputFollows,
                                      DryRunDone
  <2>3. CASE Next
    BY <2>1, <2>3, TemplateFollowsStep, ProvidersFollowStep, OutputFollowsStep DEF RunInv
  <2>4. QED
    BY <2>1, <2>2, <2>3
<1>3. QED
  BY <1>1, <1>2, WizardShapedInvariant, PTL DEF CliSpec

\* Every agent is composed with what the user says of it or of everyone, and
\* with its own entry of the document, for any number of agents, questions and
\* answers (prompt_design_flow_with, scoped_agent_design_answers,
\* scoped_agent_provider_overrides).
THEOREM AgentsAreAnswered == CliSpec => []AgentsGetTheirOwnAnswers
<1>1. RunInv /\ QuestionsInv => AgentsGetTheirOwnAnswers
  <2>1. SUFFICES ASSUME RunInv, QuestionsInv, Reviewed PROVE AgentsGetTheirOwnAnswers
    BY DEF AgentsGetTheirOwnAnswers
  <2>2. PICK request : /\ request = result[1].review[1].request
                       /\ request = ResolveRequest(answers, template[1], Provided)
    BY <2>1, ReviewedRequest
  <2>3. ASSUME NEW i \in DOMAIN request.agents, NEW t \in told,
               \/ t.key.to = Numbered(i) /\ ~AnsweredById
               \/ t.key.to = Everyone /\ ~OwnAnswers(t.key)
        PROVE  Used(request, i, t.key)[t.key.name] = t.value
    BY <2>1, <2>2, <2>3, ToldReachesAgent
  <2>4. ASSUME NEW i \in DOMAIN request.agents, Len(request.agents) > 1,
               Numbered(i) \in DOMAIN answers.agents, ById(i) \notin DOMAIN answers.agents,
               NEW id \in DOMAIN answers.agents[Numbered(i)].design,
               \A to \in {Numbered(i), ById(i)} : Key(to, id) \notin DOMAIN answers.design
        PROVE  request.agents[i].answers[id] = answers.agents[Numbered(i)].design[id]
    BY <2>1, <2>2, <2>4, EntryCounts
  <2>5. QED
    BY <2>2, <2>3, <2>4 DEF AgentsGetTheirOwnAnswers
<1>2. QED
  BY <1>1, RunInvariant, QuestionsInvariant, PTL

-----------------------------------------------------------------------------
(* The questions of setup.                                                 *)

\* As many agents as there are numbers.
LEMMA NumbersOfAgents ==
  ASSUME NEW count \in Nat PROVE Cardinality({Numbered(n) : n \in 1 .. count}) = count
<1>1. PICK T : T = {Numbered(n) : n \in 1 .. count}
  OBVIOUS
<1>2. PICK f : f = [n \in 1 .. count |-> Numbered(n)]
  OBVIOUS
<1>3. \A m, n : Numbered(m) = Numbered(n) => m = n
  BY DEF Numbered
<1>4. f \in [1 .. count -> T] /\ \A m, n \in 1 .. count : f[m] = f[n] => m = n
  BY <1>1, <1>2, <1>3
<1>5. \A t \in T : \E n \in 1 .. count : f[n] = t
  BY <1>1, <1>2
<1>6. f \in Bijection(1 .. count, T)
  BY <1>4, <1>5 DEF Bijection, Injection, Surjection, IsInjective
<1>7. ExistsBijection(1 .. count, T)
  BY <1>6 DEF ExistsBijection
<1>8. QED
  BY <1>1, <1>7, FS_CountingElements

\* A provider that is bound is in the catalog.
LEMMA BoundIsListed ==
  ASSUME NEW request, NEW chosen, NEW catalog, NEW i, NEW capability,
         NEW p \in BoundProvider(request, chosen, catalog, i, capability)
  PROVE  \E j \in DOMAIN catalog : p = catalog[j]
<1>1. \A id : FindProvider(catalog, id) \subseteq {catalog[j] : j \in DOMAIN catalog}
  BY DEF FindProvider, Served
<1>2. PICK ways : BoundProvider(request, chosen, catalog, i, capability)
                    = IF ways = <<>> THEN {} ELSE FindProvider(catalog, ways[1][capability])
  BY DEF BoundProvider
<1>3. PICK id : p \in FindProvider(catalog, id)
  BY <1>2
<1>4. QED
  BY <1>1, <1>3

\* The providers some agent is bound to and that need a setup.
Needy(request, chosen, catalog) ==
  {p \in UNION {BoundProvider(request, chosen, catalog, i, c) :
                  i \in DOMAIN request.agents, c \in ToSet(Capabilities(chosen))} : p.schemas}

\* A setup block is shown for a provider that needs it: by where it comes from,
\* or as the first the provider requires.
LEMMA RequiredFor ==
  ASSUME NEW request, NEW chosen, NEW catalog, IsProviderCatalog(catalog), NEW block,
         NEW needs, needs = SetupRequirements(request, chosen, catalog)
  PROVE  /\ block.from \in {p.id : p \in Needy(request, chosen, catalog)} => SetupRequired(block, needs)
         /\ SetupRequired(block, needs) =>
              \E p \in Needy(request, chosen, catalog) : p.id = block.from \/ block.id \in ToSet(p.required)
<1>1. PICK needy : needy = Needy(request, chosen, catalog)
  OBVIOUS
<1> DEFINE Need(p) == [provider |-> p.id, block |-> IF p.required = <<>> THEN {} ELSE {p.required[1]}]
<1>2. needs = {Need(p) : p \in needy}
  BY <1>1 DEF SetupRequirements, Needy
<1>7. \A p : Need(p).provider = p.id /\ Need(p).block = IF p.required = <<>> THEN {} ELSE {p.required[1]}
  OBVIOUS
<1> HIDE DEF Need
<1>3. \A p \in needy : IsList(p.required)
  <2>1. ASSUME NEW p \in needy PROVE \E j \in DOMAIN catalog : p = catalog[j]
    <3>1. PICK i, c : p \in BoundProvider(request, chosen, catalog, i, c)
      BY <1>1 DEF Needy
    <3>2. QED
      BY <3>1, BoundIsListed
  <2>2. QED
    BY <2>1 DEF IsProviderCatalog
<1>4. ASSUME NEW p \in needy, p.id = block.from PROVE SetupRequired(block, needs)
  <2>1. PICK r \in needs : r.provider = p.id
    BY <1>2, <1>7
  <2>2. QED
    BY <1>4, <2>1 DEF SetupRequired
<1>5. ASSUME SetupRequired(block, needs)
      PROVE  \E p \in needy : p.id = block.from \/ block.id \in ToSet(p.required)
  <2>1. PICK r \in needs : block.id \in r.block \/ block.from = r.provider
    BY <1>5 DEF SetupRequired
  <2>2. PICK p \in needy :
          /\ r.provider = p.id
          /\ r.block = IF p.required = <<>> THEN {} ELSE {p.required[1]}
    BY <1>2, <1>7
  <2>3. p.required # <<>> => p.required[1] \in ToSet(p.required)
    <3>1. PICK required : required = p.required /\ IsList(required)
      BY <1>3
    <3>2. PICK S : S = ToSet(required) /\ required \in Seq(S)
      BY <3>1, ListIsSeq
    <3>3. required # <<>> => Head(required) \in S /\ Head(required) = required[1]
      BY <3>2, HeadTailProperties
    <3>4. QED
      BY <3>1, <3>2, <3>3
  <2>4. QED
    BY <2>1, <2>2, <2>3
<1>6. QED
  BY <1>1, <1>4, <1>5

\* The blocks on show are the required ones of setup, in as many copies as
\* there are agents with providers of their own.
ShowsSetup(shown, assembly, needs, document, count) ==
  \A c : c \in shown <=>
    \E b \in ToSet(assembly) : /\ b.phase = "setup" /\ SetupRequired(b, needs)
                               /\ c \in CopiesOf(b, count > 1 /\ ~SharesProviders(document), count)

\* The setup questions of a review are the required ones of the assembly, once
\* or, when several agents have providers of their own, for each agent.
LEMMA SetupShown ==
  ASSUME NEW document, IsKeyed(document), NEW chosen, NEW catalogs,
         NEW assembly, assembly = Assembly(chosen, catalogs), RawBlocks(assembly),
         NEW needs, needs = SetupRequirements(
                              ResolveRequest(document, chosen, IF catalogs = <<>> THEN <<>> ELSE catalogs[1]),
                              chosen, IF catalogs = <<>> THEN <<>> ELSE catalogs[1]),
         NEW shown, shown = Review(document, chosen, catalogs).setup,
         NEW count, count = ResolvedAgentCount(document, chosen)
  PROVE  ShowsSetup(ToSet(shown), assembly, needs, document, count)
<1>1. PICK T : T = {b \in ToSet(assembly) : b.phase = "setup" /\ SetupRequired(b, needs)}
  OBVIOUS
<1>2. PICK setup : setup = FlattenSeq([i \in DOMAIN assembly |-> IF assembly[i] \in T THEN <<assembly[i]>> ELSE <<>>])
  OBVIOUS
<1>3. shown = ResolveVisible(setup, document, chosen)
  <2>1. \A i \in DOMAIN assembly :
          assembly[i] \in T <=> (assembly[i].phase = "setup" /\ SetupRequired(assembly[i], needs))
    BY <1>1 DEF ToSet
  <2>2. setup = Matching(assembly, LAMBDA b : b.phase = "setup" /\ SetupRequired(b, needs))
    BY <1>2, <2>1 DEF Matching
  <2>3. QED
    BY <2>2 DEF Review
<1>4. IsList(setup) /\ ToSet(setup) = T
  <2>1. IsList(assembly)
    BY DEF RawBlocks
  <2>2. IsList(setup) /\ ToSet(setup) = ToSet(assembly) \cap T
    BY ONLY <1>2, <2>1, ListsMatch
  <2>3. QED
    BY <1>1, <2>2
<1>5. ToSet(shown) = UNION {CopiesOf(b, count > 1 /\ IsPerAgent(b, document), count) : b \in T}
  <2>1. count \in Nat
    BY CountIsNumber
  <2>2. QED
    BY <1>3, <1>4, <2>1, ResolvedBlocks
<1>6. ASSUME NEW b \in T
      PROVE  CopiesOf(b, count > 1 /\ IsPerAgent(b, document), count)
               = CopiesOf(b, count > 1 /\ ~SharesProviders(document), count)
  <2>1. b.scope = "provider"
    BY <1>1 DEF RawBlocks, IsRaw
  <2>2. IsPerAgent(b, document) <=> ~SharesProviders(document)
    BY <2>1 DEF IsPerAgent
  <2>3. QED
    BY <2>2 DEF CopiesOf
<1>7. QED
  BY <1>1, <1>5, <1>6 DEF ShowsSetup

\* The agents of the copies of one block: all of them, or everyone.
LEMMA CopiesPerAgent ==
  ASSUME NEW document, IsKeyed(document), NEW chosen, NEW assembly, RawBlocks(assembly),
         NEW count, count = ResolvedAgentCount(document, chosen), NEW needs,
         NEW shown, ShowsSetup(shown, assembly, needs, document, count),
         NEW block \in ToSet(assembly), block.phase = "setup", SetupRequired(block, needs),
         NEW copies, copies = {c \in shown : c.id = block.id /\ c.from = block.from}
  PROVE  Cardinality({c.agent : c \in copies}) = IF count > 1 /\ ~SharesProviders(document) THEN count ELSE 1
<1> DEFINE many == count > 1 /\ ~SharesProviders(document)
<1>1. count \in Nat
  BY CountIsNumber
<1>2. CopiesOf(block, many, count) \subseteq shown
  BY DEF ShowsSetup
<1>3. \A c \in shown : \E b \in ToSet(assembly) : c \in CopiesOf(b, many, count)
  BY DEF ShowsSetup
<1>4. \A b \in ToSet(assembly) : IsRaw(b)
  BY DEF RawBlocks
<1>5. CASE many
  <2>1. PICK numbers : numbers = {Numbered(n) : n \in 1 .. count}
    OBVIOUS
  <2>2. ASSUME NEW b \in ToSet(assembly)
        PROVE  CopiesOf(b, many, count) = {ScopedBlock(b, n) : n \in 1 .. count}
    BY <1>5 DEF CopiesOf
  <2> HIDE DEF many
  <2>3. ASSUME NEW c \in copies PROVE c.agent \in numbers
    <3>1. PICK b \in ToSet(assembly), n \in 1 .. count : c = ScopedBlock(b, n)
      BY <1>3, <2>2
    <3>2. c.agent = Numbered(n)
      BY <1>4, <3>1, ScopedFields
    <3>3. QED
      BY <2>1, <3>2
  <2>4. ASSUME NEW n \in 1 .. count PROVE \E c \in copies : c.agent = Numbered(n)
    <3>1. PICK c : c = ScopedBlock(block, n)
      OBVIOUS
    <3>2. c \in shown
      BY <1>2, <2>2, <3>1
    <3>3. c.id = block.id /\ c.from = block.from /\ c.agent = Numbered(n)
      BY <1>4, <3>1, ScopedFields
    <3>4. QED
      BY <3>2, <3>3
  <2>5. {c.agent : c \in copies} = numbers
    BY <2>1, <2>3, <2>4
  <2>6. Cardinality(numbers) = count
    BY <1>1, <2>1, NumbersOfAgents
  <2>7. QED
    BY <1>5, <2>5, <2>6 DEF many
<1>6. CASE ~many
  <2>1. ASSUME NEW b \in ToSet(assembly) PROVE CopiesOf(b, many, count) = {b}
    BY <1>6 DEF CopiesOf
  <2> HIDE DEF many
  <2>2. \A c \in copies : c.agent = Everyone
    BY <1>3, <1>4, <2>1 DEF IsRaw
  <2>3. block \in copies
    BY <1>2, <2>1
  <2>4. {c.agent : c \in copies} = {Everyone}
    BY <2>2, <2>3
  <2>5. QED
    BY <1>6, <2>4, FS_Singleton DEF many
<1>7. QED
  BY <1>5, <1>6

\* What the property says of a review and the blocks of an assembly.
SetupFollows(review, chosen, catalog, blocks) ==
  \A block \in blocks : block.phase = "setup" =>
    /\ block.from \in {p.id : p \in Needy(review.request, chosen, catalog)} =>
         Cardinality({b.agent : b \in {c \in ToSet(review.setup) : c.id = block.id /\ c.from = block.from}})
           = IF Len(review.request.agents) > 1 /\ ~SharesProviders(answers)
               THEN Len(review.request.agents) ELSE 1
    /\ {c \in ToSet(review.setup) : c.id = block.id /\ c.from = block.from} # {} =>
         \E p \in Needy(review.request, chosen, catalog) : p.id = block.from \/ block.id \in ToSet(p.required)

\* The setup questions on show are those of the providers some agent is bound
\* to and that need a setup, a copy for each agent with providers of its own,
\* for every template, catalog and document (build_dry_run_output,
\* setup_block_is_required).
THEOREM SetupFollowsProviders == CliSpec => []SetupQuestionsFollowTheProviders
<1>1. RunInv /\ QuestionsInv => SetupQuestionsFollowTheProviders
  <2>1. SUFFICES ASSUME RunInv, QuestionsInv, Reviewed, providers # <<>> PROVE SetupQuestionsFollowTheProviders
    BY DEF SetupQuestionsFollowTheProviders
  <2>2. PICK chosen, catalog, review, request, assembly, shown, needs, count :
          /\ chosen = template[1] /\ catalog = Provided
          /\ review = result[1].review[1] /\ request = review.request
          /\ assembly = Assembly(chosen, providers) /\ shown = review.setup
          /\ needs = SetupRequirements(request, chosen, catalog)
          /\ count = ResolvedAgentCount(answers, chosen)
    OBVIOUS
  <2>3. /\ template # <<>> /\ review = Review(answers, chosen, providers)
        /\ request = ResolveRequest(answers, chosen, catalog)
    BY <2>1, <2>2, ReviewedRequest
  <2>4. /\ IsKeyed(answers) /\ IsTemplate(chosen) /\ IsList(providers)
        /\ \A i \in DOMAIN providers : IsProviderCatalog(providers[i])
    BY <2>1, <2>2, <2>3 DEF QuestionsInv, Keyed, CatalogsRead
  <2>5. IsProviderCatalog(catalog)
    <3>1. PICK list, S : list = providers /\ S = ToSet(list) /\ list \in Seq(S) /\ list # <<>>
      BY <2>1, <2>4, ListIsSeq
    <3>2. 1 \in DOMAIN list
      BY <3>1, HeadTailProperties
    <3>3. QED
      BY <2>1, <2>2, <2>4, <3>1, <3>2 DEF Provided
  <2>6. RawBlocks(assembly)
    BY <2>2, <2>4, AssemblyRaw
  <2>7. ShowsSetup(ToSet(shown), assembly, needs, answers, count)
    <3>1. catalog = IF providers = <<>> THEN <<>> ELSE providers[1]
      BY <2>2 DEF Provided
    <3>2. needs = SetupRequirements(
                    ResolveRequest(answers, chosen, IF providers = <<>> THEN <<>> ELSE providers[1]),
                    chosen, IF providers = <<>> THEN <<>> ELSE providers[1])
      BY <2>2, <2>3, <3>1
    <3>3. shown = Review(answers, chosen, providers).setup
      BY <2>2, <2>3
    <3>4. QED
      BY <2>2, <2>4, <2>6, <3>2, <3>3, SetupShown
  <2>8. PICK needy : needy = Needy(request, chosen, catalog)
    OBVIOUS
  <2>9. Len(request.agents) = count
    BY <2>2, <2>3, <2>4, RequestedAgents
  <2>10. ASSUME NEW block \in ToSet(assembly), block.phase = "setup",
                NEW copies, copies = {c \in ToSet(shown) : c.id = block.id /\ c.from = block.from}
         PROVE  /\ block.from \in {p.id : p \in needy} =>
                     Cardinality({c.agent : c \in copies})
                       = IF count > 1 /\ ~SharesProviders(answers) THEN count ELSE 1
                /\ copies # {} => \E p \in needy : p.id = block.from \/ block.id \in ToSet(p.required)
    <3>1. ASSUME block.from \in {p.id : p \in needy}
          PROVE  Cardinality({c.agent : c \in copies})
                   = IF count > 1 /\ ~SharesProviders(answers) THEN count ELSE 1
      <4>1. SetupRequired(block, needs)
        BY <2>2, <2>5, <2>8, <3>1, RequiredFor
      <4>2. PICK set : set = ToSet(shown) /\ copies = {c \in set : c.id = block.id /\ c.from = block.from}
        BY <2>10
      <4>3. PICK document : document = answers
        OBVIOUS
      <4>4. ShowsSetup(set, assembly, needs, document, count)
        BY <2>7, <4>2, <4>3
      <4>5. count = ResolvedAgentCount(document, chosen) /\ IsKeyed(document)
        BY <2>2, <2>4, <4>3
      <4>6. block \in ToSet(assembly) /\ block.phase = "setup"
        BY <2>10
      <4>7. Cardinality({c.agent : c \in copies}) = IF count > 1 /\ ~SharesProviders(document) THEN count ELSE 1
        BY ONLY <2>6, <4>1, <4>2, <4>4, <4>5, <4>6, CopiesPerAgent
      <4>8. QED
        BY <4>3, <4>7
    <3>2. ASSUME copies # {}
          PROVE  \E p \in needy : p.id = block.from \/ block.id \in ToSet(p.required)
      <4>1. PICK c \in ToSet(shown) : c.id = block.id /\ c.from = block.from
        BY <2>10, <3>2
      <4>2. PICK b \in ToSet(assembly) :
              /\ SetupRequired(b, needs)
              /\ c \in CopiesOf(b, count > 1 /\ ~SharesProviders(answers), count)
        BY <2>7 DEF ShowsSetup
      <4>3. c.id = b.id /\ c.from = b.from
        <5>1. IsRaw(b)
          BY <2>6 DEF RawBlocks
        <5>2. c = b \/ \E n : c = ScopedBlock(b, n)
          BY <4>2 DEF CopiesOf
        <5>3. QED
          BY <5>1, <5>2, ScopedFields
      <4>4. \E p \in needy : p.id = b.from \/ b.id \in ToSet(p.required)
        BY <2>2, <2>5, <2>8, <4>2, RequiredFor
      <4>5. QED
        BY <4>1, <4>3, <4>4
    <3>3. QED
      BY <3>1, <3>2
  <2>11. SetupFollows(review, chosen, catalog, ToSet(assembly))
    BY <2>2, <2>8, <2>9, <2>10 DEF SetupFollows
  <2>12. SetupFollows(result[1].review[1], template[1], Provided, ToSet(Assembly(template[1], providers)))
    BY <2>2, <2>11
  <2>13. QED
    BY ONLY <2>12 DEF SetupFollows, Needy, SetupQuestionsFollowTheProviders
<1>2. QED
  BY <1>1, RunInvariant, QuestionsInvariant, PTL
=============================================================================
