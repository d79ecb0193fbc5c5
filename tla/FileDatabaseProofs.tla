--------------------------- MODULE FileDatabaseProofs ---------------------------
(***************************************************************************)
(* Theorems about FileDatabase for any collections, keys and bounds: the   *)
(* directory of what the manifest lists, and the offset maps of the        *)
(* repositories, from the replay of a log of any length on, over appends   *)
(* of any number of repositories that are mixed in any way.                *)
(*                                                                         *)
(* Replay is a fold.  Its recursion is shown to have a solution, and what  *)
(* the solution is, by induction over the records replayed (Least, from    *)
(* the library's theorem on well-founded relations).                       *)
(***************************************************************************)
EXTENDS FileDatabase, WellFoundedInduction, TLAPS

Pieces == [part : {"mark", "kind", "body"}, key : Keys, live : BOOLEAN]

-----------------------------------------------------------------------------
(* Induction.                                                              *)

\* A set of naturals has a least element.
LEMMA Least ==
  ASSUME NEW T \in SUBSET Nat, T # {}
  PROVE  \E n \in T : \A m \in T : n <= m
  <1> DEFINE R == {p \in Nat \X Nat : p[1] < p[2]}
  <1>1. IsWellFoundedOn(R, Nat)
    BY NatLessThanWellFounded DEF OpToRel
  <1>2. PICK n \in T : \A m \in T : <<m, n>> \notin R
    <2> HIDE DEF R
    <2>1. QED BY <1>1, WFMin
  <1>3. ASSUME NEW m \in T PROVE n <= m
    <2>1. <<m, n>> \in Nat \X Nat /\ <<m, n>>[1] = m /\ <<m, n>>[2] = n
      OBVIOUS
    <2>2. ~(m < n)
      BY <1>2, <2>1
    <2>3. QED BY <2>2
  <1>4. QED BY <1>3

\* A set that has 0 and the successor of each of its elements has all naturals.
LEMMA Inductive ==
  ASSUME NEW S \in SUBSET Nat, 0 \in S, \A n \in S : n + 1 \in S
  PROVE  S = Nat
  <1> SUFFICES ASSUME S # Nat PROVE FALSE
    OBVIOUS
  <1>1. PICK n \in Nat \ S : \A m \in Nat \ S : n <= m
    BY Least
  <1>2. n - 1 \in Nat /\ n - 1 \in S /\ n = (n - 1) + 1
    BY <1>1
  <1>3. QED BY <1>1, <1>2

-----------------------------------------------------------------------------
(* The scan of a log.                                                      *)

Reads(log, k) == \A i \in 1..k : Readable(log, Place(i))

\* The scan stops behind the last record up to which all can be read.
LEMMA ScanReads ==
  ASSUME NEW log \in Seq(Pieces)
  PROVE  /\ Scanned(log) \in 0..Len(log) /\ Reads(log, Scanned(log))
         /\ \A k \in 0..Len(log) : Reads(log, k) => k <= Scanned(log)
         /\ 3 * Scanned(log) <= Len(log)
  <1> DEFINE n == Len(log)
             S == {k \in 0..n : Reads(log, k)}
             T == {n - k : k \in S}
  <1>1. n \in Nat
    OBVIOUS
  <1>2. 0 \in S
    BY <1>1 DEF Reads
  <1>3. T \in SUBSET Nat /\ T # {}
    BY <1>1, <1>2
  <1>4. PICK t \in T : \A u \in T : t <= u
    <2> HIDE DEF T
    <2>1. QED BY <1>3, Least
  <1>5. PICK k \in S : t = n - k
    BY <1>4
  <1>6. \A j \in S : k >= j
    <2>1. ASSUME NEW j \in S PROVE k >= j
      <3>1. n - j \in T
        OBVIOUS
      <3>2. n - k <= n - j
        BY <1>4, <1>5, <3>1
      <3>3. QED BY <1>1, <3>2
    <2>2. QED BY <2>1
  <1>7. Scanned(log) = Max(S)
    BY DEF Scanned, Reads
  <1>8. Scanned(log) \in S /\ \A j \in S : Scanned(log) >= j
    <2> HIDE DEF S
    <2>1. QED BY <1>5, <1>6, <1>7 DEF Max
  <1>9. 3 * Scanned(log) <= n
    <2>1. CASE Scanned(log) = 0
      BY <1>1, <2>1
    <2>2. CASE Scanned(log) # 0
      <3>1. Scanned(log) \in 1..Scanned(log)
        BY <1>8, <2>2
      <3>2. Place(Scanned(log)) + 2 \in DOMAIN log
        BY <1>8, <3>1 DEF Reads, Readable
      <3>3. QED BY <1>1, <1>8, <3>2 DEF Place
    <2>3. QED BY <2>1, <2>2
  <1>10. QED BY <1>8, <1>9

\* A piece more changes nothing of what could be read before.
LEMMA PieceKeeps ==
  ASSUME NEW log \in Seq(Pieces), NEW r \in Pieces
  PROVE  /\ Append(log, r) \in Seq(Pieces) /\ Len(Append(log, r)) = Len(log) + 1
         /\ Append(log, r)[Len(log) + 1] = r /\ Len(log) \in Nat
         /\ \A i \in 1..Len(log) : Append(log, r)[i] = log[i]
  OBVIOUS

LEMMA ReadAgain ==
  ASSUME NEW log \in Seq(Pieces), NEW r \in Pieces, NEW p, Readable(log, p)
  PROVE  /\ Readable(Append(log, r), p)
         /\ KeyAt(Append(log, r), p) = KeyAt(log, p)
         /\ LiveAt(Append(log, r), p) = LiveAt(log, p)
  <1> DEFINE more == Append(log, r)
  <1>1. /\ DOMAIN log = 1..Len(log) /\ DOMAIN more = 1..(Len(log) + 1) /\ Len(log) \in Nat
        /\ \A i \in 1..Len(log) : more[i] = log[i]
    OBVIOUS
  <1> HIDE DEF more
  <1>2. p \in 1..Len(log) /\ p + 1 \in 1..Len(log) /\ p + 2 \in 1..Len(log)
    BY <1>1 DEF Readable
  <1>3. more[p] = log[p] /\ more[p + 1] = log[p + 1] /\ more[p + 2] = log[p + 2]
    BY <1>1, <1>2
  <1>4. {p, p + 1, p + 2} \subseteq DOMAIN more
    BY <1>1, <1>2
  <1>5. Readable(more, p) /\ KeyAt(more, p) = KeyAt(log, p) /\ LiveAt(more, p) = LiveAt(log, p)
    BY <1>3, <1>4 DEF Readable, KeyAt, LiveAt
  <1>6. QED BY <1>5 DEF more

\* With a piece more the scan gets one record further, up to the end of the log, or no further.
LEMMA ScanStep ==
  ASSUME NEW log \in Seq(Pieces), NEW r \in Pieces
  PROVE  LET k == Scanned(log)  more == Append(log, r)
         IN  \/ Scanned(more) = k
             \/ Scanned(more) = k + 1 /\ Len(log) = 3 * k + 2
  <1> DEFINE k == Scanned(log)
             more == Append(log, r)
             l == Scanned(more)
  <1>1. /\ more \in Seq(Pieces) /\ Len(more) = Len(log) + 1 /\ Len(log) \in Nat
        /\ \A i \in 1..Len(log) : more[i] = log[i]
    BY PieceKeeps
  <1>2. /\ k \in 0..Len(log) /\ Reads(log, k) /\ \A j \in 0..Len(log) : Reads(log, j) => j <= k
        /\ 3 * k <= Len(log)
    BY ScanReads
  <1>3. \A i \in 1..k : Readable(more, Place(i))
    BY <1>2, ReadAgain DEF Reads
  <1> HIDE DEF more, k
  <1>4. /\ l \in 0..Len(more) /\ Reads(more, l) /\ \A j \in 0..Len(more) : Reads(more, j) => j <= l
        /\ 3 * l <= Len(more)
    BY <1>1, ScanReads
  <1> HIDE DEF l
  <1>5. k <= l
    BY <1>1, <1>2, <1>3, <1>4 DEF Reads
  <1>6. DOMAIN log = 1..Len(log) /\ DOMAIN more = 1..(Len(log) + 1)
    BY <1>1
  <1>7. ASSUME NEW i \in 1..l, 3 * i <= Len(log) PROVE Readable(log, Place(i))
    <2>1. Readable(more, Place(i)) /\ Place(i) \in 1..Len(log) /\ Place(i) + 1 \in 1..Len(log)
          /\ Place(i) + 2 \in 1..Len(log)
      BY <1>1, <1>4, <1>7 DEF Reads, Place
    <2>2. more[Place(i)] = log[Place(i)] /\ more[Place(i) + 1] = log[Place(i) + 1]
          /\ more[Place(i) + 2] = log[Place(i) + 2]
      BY <1>1, <2>1
    <2>3. QED BY <1>6, <2>1, <2>2 DEF Readable
  <1>8. CASE 3 * l <= Len(log)
    <2>1. \A i \in 1..l : 3 * i <= Len(log)
      BY <1>1, <1>4, <1>8
    <2>2. Reads(log, l) /\ l \in 0..Len(log)
      BY <1>1, <1>4, <1>7, <1>8, <2>1 DEF Reads
    <2>3. l = k
      BY <1>2, <1>4, <1>5, <2>2
    <2>4. QED BY <2>3 DEF k, l, more
  <1>9. CASE 3 * l = Len(log) + 1
    <2>1. \A i \in 1..(l - 1) : i \in 1..l /\ 3 * i <= Len(log)
      BY <1>1, <1>4, <1>9
    <2>2. Reads(log, l - 1) /\ l - 1 \in 0..Len(log)
      BY <1>1, <1>4, <1>7, <1>9, <2>1 DEF Reads
    <2>3. l - 1 <= k /\ k <= l - 1
      BY <1>1, <1>2, <1>4, <1>9, <2>2
    <2>4. l = k + 1 /\ Len(log) = 3 * k + 2
      BY <1>1, <1>2, <1>4, <1>9, <2>3
    <2>5. QED BY <2>4 DEF k, l, more
  <1>10. QED BY <1>1, <1>4, <1>8, <1>9

-----------------------------------------------------------------------------
(* The replay of a log.                                                    *)

Apply(log, m, p) == IF LiveAt(log, p) THEN Put(m, KeyAt(log, p), p)
                    ELSE Forget(m, KeyAt(log, p))

Greatest(s) == CHOOSE x \in s : \A y \in s : x >= y

Offsets(log) == [i \in 1..Scanned(log) |-> Place(i)]

\* The recursion of the fold, and its solution.
Solves(log, S, g) ==
  g = [s \in SUBSET S |->
         IF s = {} THEN <<>>
         ELSE Apply(log, g[s \ {Greatest(s)}], Offsets(log)[Greatest(s)])]

Solution(log, S) == CHOOSE g : Solves(log, S, g)

LEMMA ReplayFolds ==
  ASSUME NEW log
  PROVE  Replay(log) = Solution(log, DOMAIN Offsets(log))[DOMAIN Offsets(log)]
  BY DEF Replay, FoldLeft, MapThenFoldSet, Max, Greatest, Apply, Offsets, Solves, Solution

\* One round of the recursion.
Round(log, g, s) == IF s = {} THEN <<>>
                    ELSE Apply(log, g[s \ {Greatest(s)}], Offsets(log)[Greatest(s)])

LEMMA GreatestTop ==
  ASSUME NEW n \in Nat, NEW s \in SUBSET (1..(n + 1)), n + 1 \in s
  PROVE  Greatest(s) = n + 1
  <1>1. \A y \in s : y \in Nat /\ n + 1 >= y
    OBVIOUS
  <1>2. Greatest(s) \in s /\ \A y \in s : Greatest(s) >= y
    BY <1>1 DEF Greatest
  <1>3. Greatest(s) \in Nat /\ n + 1 >= Greatest(s) /\ Greatest(s) >= n + 1
    BY <1>1, <1>2
  <1>4. QED BY <1>3

\* The recursion has a solution on the subsets of 1..k, for every k.
LEMMA SolutionUpTo ==
  ASSUME NEW log, NEW k \in Nat
  PROVE  \E g : \A s \in SUBSET (1..k) : g[s] = Round(log, g, s)
  <1> DEFINE Solvable == {n \in Nat : \E g : \A s \in SUBSET (1..n) : g[s] = Round(log, g, s)}
  <1>1. 0 \in Solvable
    <2> DEFINE g == [s \in SUBSET (1..0) |-> <<>>]
    <2>1. \A s \in SUBSET (1..0) : s = {}
      OBVIOUS
    <2>2. \A s \in SUBSET (1..0) : g[s] = Round(log, g, s)
      BY <2>1 DEF Round
    <2>3. QED BY <2>2
  <1>2. ASSUME NEW n \in Solvable PROVE n + 1 \in Solvable
    <2>1. PICK g : \A s \in SUBSET (1..n) : g[s] = Round(log, g, s)
      OBVIOUS
    <2> DEFINE After(s) == Apply(log, g[s \ {n + 1}], Offsets(log)[n + 1])
               h == [s \in SUBSET (1..(n + 1)) |-> IF s \in SUBSET (1..n) THEN g[s] ELSE After(s)]
    <2>2. ASSUME NEW s \in SUBSET (1..(n + 1)) PROVE h[s] = Round(log, h, s)
      <3>1. CASE s \in SUBSET (1..n)
        <4>1. s \ {Greatest(s)} \in SUBSET (1..n) /\ s \ {Greatest(s)} \in SUBSET (1..(n + 1))
          BY <3>1
        <4>2. h[s \ {Greatest(s)}] = g[s \ {Greatest(s)}]
          BY <4>1
        <4>3. h[s] = g[s]
          BY <3>1
        <4>4. QED BY <2>1, <3>1, <4>2, <4>3 DEF Round
      <3>2. CASE s \notin SUBSET (1..n)
        <4>1. n + 1 \in s /\ s # {}
          BY <3>2
        <4>2. Greatest(s) = n + 1
          BY <4>1, GreatestTop
        <4>3. s \ {n + 1} \in SUBSET (1..n) /\ s \ {n + 1} \in SUBSET (1..(n + 1))
          OBVIOUS
        <4>4. h[s \ {n + 1}] = g[s \ {n + 1}]
          BY <4>3
        <4>5. h[s] = After(s)
          BY <3>2
        <4>6. QED BY <4>1, <4>2, <4>4, <4>5 DEF Round
      <3>3. QED BY <3>1, <3>2
    <2>3. QED
      <3> HIDE DEF h
      <3>1. QED BY <2>2
  <1>3. Solvable = Nat
    <2> HIDE DEF Solvable
    <2>1. Solvable \in SUBSET Nat
      BY DEF Solvable
    <2>2. QED BY <1>1, <1>2, <2>1, Inductive
  <1>4. QED BY <1>3

\* Replay is the value of the recursion on what is scanned of the log.
LEMMA ReplayRounds ==
  ASSUME NEW log \in Seq(Pieces)
  PROVE  \E g : /\ Replay(log) = g[1..Scanned(log)]
                /\ \A s \in SUBSET (1..Scanned(log)) : g[s] = Round(log, g, s)
  <1> DEFINE S == 1..Scanned(log)
             g == Solution(log, S)
  <1>1. DOMAIN Offsets(log) = S
    BY DEF Offsets
  <1>2. PICK f : \A s \in SUBSET S : f[s] = Round(log, f, s)
    <2>1. Scanned(log) \in Nat
      BY ScanReads
    <2>2. QED BY <2>1, SolutionUpTo
  <1> DEFINE h == [s \in SUBSET S |-> f[s]]
  <1>3. Solves(log, S, h)
    <2>1. ASSUME NEW s \in SUBSET S PROVE h[s] = Round(log, h, s)
      <3>1. s \ {Greatest(s)} \in SUBSET S
        OBVIOUS
      <3>2. h[s \ {Greatest(s)}] = f[s \ {Greatest(s)}] /\ h[s] = f[s]
        BY <3>1
      <3>3. QED BY <1>2, <3>2 DEF Round
    <2>2. h = [s \in SUBSET S |-> h[s]]
      OBVIOUS
    <2>3. h = [s \in SUBSET S |-> Round(log, h, s)]
      <3> HIDE DEF h
      <3>1. QED BY <2>1, <2>2
    <2>4. QED BY <2>3 DEF Solves, Round
  <1>4. Solves(log, S, g)
    <2> HIDE DEF h
    <2>1. QED BY <1>3 DEF Solution
  <1>5. \A s \in SUBSET S : g[s] = Round(log, g, s)
    <2> HIDE DEF g
    <2>1. g = [s \in SUBSET S |-> Round(log, g, s)]
      BY <1>4 DEF Solves, Round
    <2>2. QED BY <2>1
  <1>6. Replay(log) = g[1..Scanned(log)]
    BY <1>1, ReplayFolds
  <1>7. QED BY <1>5, <1>6

\* What a map says of the first k records of a log: for each key the offset of its newest
\* record, unless that is a tombstone.
Current(log, k, key, i) == /\ i \in 1..k /\ KeyAt(log, Place(i)) = key /\ LiveAt(log, Place(i))
                           /\ \A j \in 1..k : KeyAt(log, Place(j)) = key => j <= i

Maps == UNION {[K -> Nat] : K \in SUBSET Keys}

Exact(log, k, m) == /\ m \in Maps
                    /\ \A key \in Keys :
                          /\ key \in DOMAIN m => \E i \in 1..k : m[key] = Place(i)
                                                              /\ Current(log, k, key, i)
                          /\ \A i \in 1..k : Current(log, k, key, i) => key \in DOMAIN m

\* What is read is of one of the keys.
LEMMA ReadTyped ==
  ASSUME NEW log \in Seq(Pieces), NEW p, Readable(log, p)
  PROVE  KeyAt(log, p) \in Keys /\ LiveAt(log, p) \in BOOLEAN
  <1>1. log[p + 2] \in Pieces /\ log[p + 1] \in Pieces
    BY DEF Readable
  <1>2. QED BY <1>1 DEF KeyAt, LiveAt, Pieces

\* A record makes the map exact for one record more.
LEMMA ApplyExact ==
  ASSUME NEW log \in Seq(Pieces), NEW k \in Nat, Readable(log, Place(k + 1)),
         NEW m, Exact(log, k, m)
  PROVE  Exact(log, k + 1, Apply(log, m, Place(k + 1)))
  <1> DEFINE p == Place(k + 1)
             rkey == KeyAt(log, p)
             a == Apply(log, m, p)
  <1>1. rkey \in Keys /\ LiveAt(log, p) \in BOOLEAN /\ p \in Nat
    BY ReadTyped DEF Place
  <1>2. PICK K \in SUBSET Keys : m \in [K -> Nat]
    BY DEF Exact, Maps
  <1>3. ASSUME NEW key \in Keys, key # rkey, NEW i \in 1..k
        PROVE  Current(log, k + 1, key, i) <=> Current(log, k, key, i)
    BY <1>3 DEF Current
  <1>4. ASSUME NEW key \in Keys
        PROVE  Current(log, k + 1, key, k + 1) <=> key = rkey /\ LiveAt(log, p)
    BY DEF Current
  <1>5. ASSUME NEW i \in 1..k PROVE ~Current(log, k + 1, rkey, i)
    BY DEF Current
  <1> HIDE DEF rkey
  <1>6. ASSUME NEW c, NEW key \in Keys, key # rkey, c \in Maps,
               key \in DOMAIN c <=> key \in K, key \in K => c[key] = m[key]
        PROVE  /\ key \in DOMAIN c => \E i \in 1..(k + 1) : c[key] = Place(i)
                                                         /\ Current(log, k + 1, key, i)
               /\ \A i \in 1..(k + 1) : Current(log, k + 1, key, i) => key \in DOMAIN c
    <2>1. key \in K => \E i \in 1..k : m[key] = Place(i) /\ Current(log, k, key, i)
      BY <1>2 DEF Exact
    <2>2. \A i \in 1..k : Current(log, k, key, i) => key \in K
      BY <1>2 DEF Exact
    <2>3. \A i \in 1..(k + 1) : i \in 1..k \/ i = k + 1
      OBVIOUS
    <2>4. \A i \in 1..k : i \in 1..(k + 1)
      OBVIOUS
    <2>5. QED BY <1>3, <1>4, <1>6, <2>1, <2>2, <2>3, <2>4
  <1>7. CASE LiveAt(log, p)
    <2>1. a = [x \in DOMAIN m \cup {rkey} |-> IF x = rkey THEN p ELSE m[x]]
      BY <1>7 DEF Apply, Put, rkey
    <2> HIDE DEF a, p
    <2>2. a \in [K \cup {rkey} -> Nat]
      BY <1>1, <1>2, <2>1
    <2>3. a \in Maps
      BY <1>1, <2>2 DEF Maps
    <2>4. a[rkey] = p /\ \A x \in K : x # rkey => a[x] = m[x]
      BY <1>2, <2>1
    <2>5. ASSUME NEW key \in Keys
          PROVE  /\ key \in DOMAIN a => \E i \in 1..(k + 1) : a[key] = Place(i)
                                                          /\ Current(log, k + 1, key, i)
                 /\ \A i \in 1..(k + 1) : Current(log, k + 1, key, i) => key \in DOMAIN a
      <3>1. CASE key = rkey
        <4>1. k + 1 \in 1..(k + 1) /\ Current(log, k + 1, key, k + 1)
          BY <1>4, <1>7, <3>1
        <4>2. a[key] = Place(k + 1) /\ key \in DOMAIN a
          BY <2>2, <2>4, <3>1 DEF p
        <4>3. QED BY <4>1, <4>2
      <3>2. CASE key # rkey
        <4>1. (key \in DOMAIN a <=> key \in K) /\ (key \in K => a[key] = m[key])
          BY <2>2, <2>4, <3>2
        <4>2. QED BY <1>6, <2>3, <3>2, <4>1
      <3>3. QED BY <3>1, <3>2
    <2>6. Exact(log, k + 1, a)
      BY <2>3, <2>5 DEF Exact
    <2>7. QED BY <2>6 DEF a, p
  <1>8. CASE ~LiveAt(log, p)
    <2>1. a = [x \in DOMAIN m \ {rkey} |-> m[x]]
      BY <1>8 DEF Apply, Forget, Restrict, rkey
    <2> HIDE DEF a, p
    <2>2. a \in [K \ {rkey} -> Nat]
      BY <1>2, <2>1
    <2>3. a \in Maps
      BY <2>2 DEF Maps
    <2>4. \A x \in K : x # rkey => a[x] = m[x]
      BY <1>2, <2>1
    <2>5. ASSUME NEW key \in Keys
          PROVE  /\ key \in DOMAIN a => \E i \in 1..(k + 1) : a[key] = Place(i)
                                                          /\ Current(log, k + 1, key, i)
                 /\ \A i \in 1..(k + 1) : Current(log, k + 1, key, i) => key \in DOMAIN a
      <3>1. CASE key = rkey
        <4>1. key \notin DOMAIN a
          BY <2>2, <3>1
        <4>2. \A i \in 1..(k + 1) : ~Current(log, k + 1, key, i)
          <5>1. \A i \in 1..(k + 1) : i \in 1..k \/ i = k + 1
            OBVIOUS
          <5>2. QED BY <1>4, <1>5, <1>8, <3>1, <5>1
        <4>3. QED BY <4>1, <4>2
      <3>2. CASE key # rkey
        <4>1. (key \in DOMAIN a <=> key \in K) /\ (key \in K => a[key] = m[key])
          BY <2>2, <2>4, <3>2
        <4>2. QED BY <1>6, <2>3, <3>2, <4>1
      <3>3. QED BY <3>1, <3>2
    <2>6. Exact(log, k + 1, a)
      BY <2>3, <2>5 DEF Exact
    <2>7. QED BY <2>6 DEF a, p
  <1>9. QED BY <1>1, <1>7, <1>8

\* The replay of a log is exact.
LEMMA ReplayExact ==
  ASSUME NEW log \in Seq(Pieces)
  PROVE  Exact(log, Scanned(log), Replay(log))
  <1>1. PICK g : /\ Replay(log) = g[1..Scanned(log)]
                 /\ \A s \in SUBSET (1..Scanned(log)) : g[s] = Round(log, g, s)
    BY ReplayRounds
  <1> DEFINE Reached == {k \in Nat : k <= Scanned(log) => Exact(log, k, g[1..k])}
  <1>2. 0 \in Reached
    <2>1. g[1..0] = <<>>
      <3>1. {} \in SUBSET (1..Scanned(log)) /\ 1..0 = {}
        OBVIOUS
      <3>2. g[{}] = <<>>
        BY <1>1, <3>1 DEF Round
      <3>3. QED BY <3>1, <3>2
    <2>2. <<>> \in [{} -> Nat]
      OBVIOUS
    <2>3. Exact(log, 0, <<>>)
      <3>1. <<>> \in Maps
        BY <2>2 DEF Maps
      <3>2. DOMAIN <<>> = {} /\ 1..0 = {}
        OBVIOUS
      <3>3. QED BY <3>1, <3>2 DEF Exact
    <2>4. QED BY <2>1, <2>3
  <1>3. ASSUME NEW k \in Reached PROVE k + 1 \in Reached
    <2>1. SUFFICES ASSUME k + 1 <= Scanned(log) PROVE Exact(log, k + 1, g[1..(k + 1)])
      OBVIOUS
    <2>2. Exact(log, k, g[1..k])
      BY <2>1, ScanReads
    <2>3. /\ 1..(k + 1) \in SUBSET (1..Scanned(log)) /\ 1..(k + 1) # {}
          /\ (1..(k + 1)) \ {k + 1} = 1..k /\ k + 1 \in 1..Scanned(log)
      BY <2>1, ScanReads
    <2>4. Greatest(1..(k + 1)) = k + 1
      BY GreatestTop
    <2>5. Offsets(log)[k + 1] = Place(k + 1)
      BY <2>3 DEF Offsets
    <2>6. g[1..(k + 1)] = Apply(log, g[1..k], Place(k + 1))
      BY <1>1, <2>3, <2>4, <2>5 DEF Round
    <2>7. Readable(log, Place(k + 1))
      BY <2>3, ScanReads DEF Reads
    <2>8. QED BY <2>1, <2>2, <2>6, <2>7, ApplyExact
  <1>4. Reached = Nat
    <2> HIDE DEF Reached
    <2>1. Reached \in SUBSET Nat
      BY DEF Reached
    <2>2. QED BY <1>2, <1>3, <2>1, Inductive
  <1>5. Scanned(log) \in Nat
    BY ScanReads
  <1>6. QED BY <1>1, <1>4, <1>5

-----------------------------------------------------------------------------
(* Maps of a log that grows.                                               *)

\* A piece that is appended changes nothing of what is known of the records before.
LEMMA ExactAgain ==
  ASSUME NEW log \in Seq(Pieces), NEW r \in Pieces, NEW m, NEW k \in Nat, Reads(log, k),
         Exact(log, k, m)
  PROVE  Exact(Append(log, r), k, m)
  <1> DEFINE more == Append(log, r)
  <1>1. \A i \in 1..k : /\ KeyAt(more, Place(i)) = KeyAt(log, Place(i))
                        /\ LiveAt(more, Place(i)) = LiveAt(log, Place(i))
    BY ReadAgain DEF Reads
  <1> HIDE DEF more
  <1>2. \A key \in Keys : \A i : Current(log, k, key, i) <=> Current(more, k, key, i)
    BY <1>1 DEF Current
  <1>3. Exact(more, k, m)
    BY <1>2 DEF Exact
  <1>4. QED BY <1>3 DEF more

\* The offsets of an exact map read as their keys.
LEMMA ExactReads ==
  ASSUME NEW log \in Seq(Pieces), NEW m, Exact(log, Scanned(log), m)
  PROVE  \A key \in DOMAIN m : ReadsAs(log, m[key], key)
  <1>1. DOMAIN m \subseteq Keys
    BY DEF Exact, Maps
  <1>2. QED BY <1>1, ScanReads DEF Exact, Current, Reads, ReadsAs

-----------------------------------------------------------------------------
(* The inductive invariant.                                                *)

Handles == [name : Names, map : Maps, op : Appends \cup {None}, alone : BOOLEAN,
            crossed : SUBSET Keys]

TypeOK ==
  /\ manifest = Torn \/ manifest \subseteq Names
  /\ dirs \subseteq Names
  /\ logs \in [Names -> Seq(Pieces)]
  /\ up \in BOOLEAN
  /\ collections \subseteq Names
  /\ handles \in Seq(Handles)
  /\ DOMAIN repos \subseteq Names
  /\ task = Idle \/ task \in [name : Names, at : {"mkdir", "save", "open", "publish"}]
  /\ crashes \in 0..MaxCrashes
  /\ refused \subseteq Names

\* Nothing of a process is left when it has died.
Down == ~up => task = Idle /\ collections = {} /\ handles = <<>> /\ held = {}

\* What is handed out, or will be, has been opened.
Handed == /\ \A n \in DOMAIN repos : repos[n] \in DOMAIN handles
          /\ held \subseteq DOMAIN handles
          /\ task.at = "publish" => Len(handles) \in DOMAIN handles

\* The metadata is ahead of the disk by the directory that is being made, at most.
Registered ==
  collections \subseteq dirs \cup refused \cup (IF task.at = "mkdir" THEN {task.name} ELSE {})

\* What an append that nobody has crossed has written is the end of the log.
Contiguous(log, op) ==
  /\ op.offset + op.written = Len(log) + 1 /\ op.offset >= 1
  /\ op.written >= 1 => log[op.offset].part = "mark"
  /\ op.written = 2 => log[op.offset + 1].part = "kind" /\ log[op.offset + 1].live = op.live

\* The log holds whole records but for the w pieces at its end.
WholeBut(log, w) == Len(log) = 3 * Scanned(log) + w

Pending(op) == IF op = None THEN 0 ELSE op.written

\* What a repository h knows of its log: its offsets read, and are exact if it is alone.
Sound1(log, h) ==
  /\ \A key \in DOMAIN h.map \ h.crossed : ReadsAs(log, h.map[key], key)
  /\ h.op # None /\ ~h.op.crossed => Contiguous(log, h.op)
  /\ h.alone => /\ h.op # None => ~h.op.crossed
                /\ WholeBut(log, Pending(h.op)) => Exact(log, Scanned(log), h.map)

Sound == \A h \in DOMAIN handles : Sound1(logs[handles[h].name], handles[h])

IInv == TypeOK /\ Down /\ Handed /\ Registered /\ ListedHasDir /\ Sound

\* A handle is of a collection that has a log.
LEMMA HandleTyped ==
  ASSUME TypeOK, NEW h \in DOMAIN handles
  PROVE  /\ handles \in Seq(Handles) /\ handles[h] \in Handles
         /\ handles[h].name \in Names /\ logs[handles[h].name] \in Seq(Pieces)
  <1>1. handles \in Seq(Handles)
    BY DEF TypeOK
  <1>2. handles[h] \in Handles
    BY <1>1
  <1>3. handles[h].name \in Names
    BY <1>2 DEF Handles
  <1>4. QED BY <1>1, <1>2, <1>3 DEF TypeOK

-----------------------------------------------------------------------------
(* It holds initially, and every step keeps it.                            *)

LEMMA InitIInv == Init => IInv
  <1> SUFFICES ASSUME Init PROVE IInv
    OBVIOUS
  <1>1. TypeOK
    <2>1. logs \in [Names -> Seq(Pieces)]
      BY DEF Init
    <2>2. DOMAIN repos \subseteq Names /\ handles \in Seq(Handles)
      BY DEF Init
    <2>3. MaxCrashes \in Nat
      BY BoundsAssumption
    <2>4. crashes \in 0..MaxCrashes /\ manifest \subseteq Names /\ dirs \subseteq Names
      BY <2>3 DEF Init
    <2>5. up \in BOOLEAN /\ collections \subseteq Names /\ refused \subseteq Names /\ task = Idle
      BY DEF Init
    <2>6. QED BY <2>1, <2>2, <2>4, <2>5 DEF TypeOK
  <1>2. DOMAIN handles = {} /\ DOMAIN repos = {}
    BY DEF Init
  <1>3. QED BY <1>1, <1>2 DEF Init, IInv, Down, Handed, Registered, ListedHasDir, Sound, Idle

\* A repository is opened: a further handle, with the replay of its log.
LEMMA OpenKeeps ==
  ASSUME IInv, OpenRepository
  PROVE  IInv'
  <1> USE DEF IInv
  <1>1. CASE task.name \notin dirs
    <2>1. /\ task' = Idle /\ handles' = handles /\ repos' = repos /\ held' = held /\ logs' = logs
          /\ manifest' = manifest /\ dirs' = dirs /\ up' = up /\ collections' = collections
          /\ crashes' = crashes /\ refused' = refused
      BY <1>1 DEF OpenRepository
    <2>2. QED
      BY <2>1 DEF OpenRepository, TypeOK, Down, Handed, Registered, ListedHasDir, Sound, Idle
  <1>2. CASE task.name \in dirs
    <2> DEFINE n == task.name
               opened == [name |-> n, map |-> Replay(logs[n]), op |-> None, alone |-> TRUE,
                          crossed |-> {}]
    <2>1. /\ handles' = Append(handles, opened) /\ task' = [task EXCEPT !.at = "publish"]
          /\ repos' = repos /\ held' = held /\ logs' = logs
          /\ manifest' = manifest /\ dirs' = dirs /\ up' = up /\ collections' = collections
          /\ crashes' = crashes /\ refused' = refused
      BY <1>2 DEF OpenRepository
    <2>2. task \in [name : Names, at : {"mkdir", "save", "open", "publish"}] /\ task.at = "open"
      BY DEF OpenRepository, TypeOK, Idle
    <2>3. n \in Names /\ logs[n] \in Seq(Pieces)
      BY <2>2 DEF TypeOK
    <2>4. Exact(logs[n], Scanned(logs[n]), Replay(logs[n]))
      BY <2>3, ReplayExact
    <2>5. Replay(logs[n]) \in Maps
      BY <2>4 DEF Exact
    <2>6. opened \in Handles
      BY <2>3, <2>5 DEF Handles
    <2>7. /\ opened.name = n /\ opened.map = Replay(logs[n]) /\ opened.op = None
          /\ opened.crossed = {}
      OBVIOUS
    <2> HIDE DEF opened
    <2>16. Sound1(logs[n], opened)
      <3>1. \A key \in DOMAIN opened.map : ReadsAs(logs[n], opened.map[key], key)
        BY <2>3, <2>4, <2>7, ExactReads
      <3>2. QED BY <2>4, <2>7, <3>1 DEF Sound1
    <2>8. /\ handles' \in Seq(Handles)
          /\ DOMAIN handles' = DOMAIN handles \cup {Len(handles) + 1}
          /\ Len(handles') = Len(handles) + 1 /\ Len(handles') \in DOMAIN handles'
          /\ handles'[Len(handles) + 1] = opened
          /\ \A h \in DOMAIN handles : handles'[h] = handles[h]
      BY <2>1, <2>6 DEF TypeOK
    <2>9. task'.at = "publish" /\ task'.name = n
          /\ task' \in [name : Names, at : {"mkdir", "save", "open", "publish"}]
      BY <2>1, <2>2
    <2>10. TypeOK'
      BY <2>1, <2>8, <2>9 DEF TypeOK
    <2>11. Handed'
      BY <2>1, <2>8 DEF Handed
    <2>12. up
      BY <2>2 DEF Down, Idle
    <2>13. Sound'
      BY <2>1, <2>7, <2>8, <2>16 DEF Sound
    <2>14. Registered' /\ ListedHasDir' /\ Down'
      BY <2>1, <2>2, <2>9, <2>12 DEF Registered, ListedHasDir, Down
    <2>15. QED BY <2>10, <2>11, <2>13, <2>14
  <1>3. QED BY <1>1, <1>2

\* What is known of a log stays so when another repository writes a piece of its append.
LEMMA OtherKeeps ==
  ASSUME NEW log \in Seq(Pieces), NEW r \in Pieces, NEW g \in Handles, Sound1(log, g)
  PROVE  LET c == [g EXCEPT !.alone = FALSE,
                            !.op = IF @ = None THEN None ELSE [@ EXCEPT !.crossed = TRUE]]
         IN  /\ c \in Handles /\ c.name = g.name
             /\ Sound1(Append(log, r), c)
  <1> DEFINE op == IF g.op = None THEN None ELSE [g.op EXCEPT !.crossed = TRUE]
             c == [g EXCEPT !.alone = FALSE, !.op = op]
  <1>1. op \in Appends \cup {None}
    BY DEF Handles, Appends
  <1>2. op # None => op.crossed
    <2>1. CASE g.op = None
      BY <2>1
    <2>2. CASE g.op # None
      <3>1. g.op \in Appends
        BY <2>2 DEF Handles
      <3>2. QED BY <2>2, <3>1 DEF Appends
    <2>3. QED BY <2>1, <2>2
  <1> HIDE DEF op
  <1>3. /\ c \in Handles /\ c.name = g.name /\ c.map = g.map /\ c.crossed = g.crossed
        /\ c.alone = FALSE /\ c.op = op
    BY <1>1 DEF Handles
  <1> HIDE DEF c
  <1>4. \A key \in DOMAIN c.map \ c.crossed : ReadsAs(Append(log, r), c.map[key], key)
    BY <1>3, ReadAgain DEF Sound1, ReadsAs
  <1>5. Sound1(Append(log, r), c)
    BY <1>2, <1>3, <1>4 DEF Sound1
  <1>6. QED BY <1>3, <1>5 DEF c, op

\* A piece is written through one of the handles, which goes on as `next`: that is sound if
\* `next` is.
LEMMA CrossedKeeps ==
  ASSUME IInv, NEW h \in held, NEW r \in Pieces, NEW next \in Handles,
         LET n == handles[h].name IN
           /\ logs' = [logs EXCEPT ![n] = Append(logs[n], r)]
           /\ next.name = n /\ Sound1(Append(logs[n], r), next),
         handles' = Crossed(h, next),
         UNCHANGED <<manifest, dirs, up, collections, repos, held, task, crashes, refused>>
  PROVE  IInv'
  <1> USE DEF IInv
  <1> DEFINE n == handles[h].name
             log == logs[n]
             more == Append(log, r)
  <1>1. handles \in Seq(Handles) /\ h \in DOMAIN handles /\ n \in Names /\ log \in Seq(Pieces)
    BY HandleTyped DEF Handed
  <1>2. /\ logs' \in [Names -> Seq(Pieces)] /\ logs'[n] = more
        /\ \A m \in Names : m # n => logs'[m] = logs[m]
    <2>1. logs \in [Names -> Seq(Pieces)] /\ more \in Seq(Pieces)
      BY <1>1, PieceKeeps DEF TypeOK
    <2> HIDE DEF more
    <2>2. logs' = [logs EXCEPT ![n] = more]
      BY DEF more
    <2>3. QED BY <1>1, <2>1, <2>2
  <1> DEFINE Other(g) == [handles[g] EXCEPT !.alone = FALSE,
                             !.op = IF @ = None THEN None ELSE [@ EXCEPT !.crossed = TRUE]]
  <1>3. /\ DOMAIN handles' = DOMAIN handles /\ handles'[h] = next
        /\ \A g \in DOMAIN handles : g # h /\ handles[g].name # n => handles'[g] = handles[g]
        /\ \A g \in DOMAIN handles : g # h /\ handles[g].name = n => handles'[g] = Other(g)
    <2> HIDE DEF Other
    <2>1. handles' = [g \in DOMAIN handles |->
                        IF g = h THEN next
                        ELSE IF handles[g].name # handles[h].name THEN handles[g] ELSE Other(g)]
      BY DEF Crossed, Other
    <2>2. QED BY <1>1, <2>1
  <1>4. \A g \in DOMAIN handles : handles[g] \in Handles /\ handles[g].name \in Names
    BY HandleTyped
  <1>5. ASSUME NEW g \in DOMAIN handles
        PROVE  /\ handles'[g] \in Handles
               /\ Sound1(logs'[handles'[g].name], handles'[g])
    <2>1. CASE g = h
      BY <1>2, <1>3, <2>1
    <2>2. CASE g # h /\ handles[g].name = n
      <3>1. Sound1(log, handles[g])
        BY <2>2 DEF Sound
      <3>2. Other(g) \in Handles /\ Other(g).name = n /\ Sound1(more, Other(g))
        BY <1>1, <1>4, <2>2, <3>1, OtherKeeps
      <3> HIDE DEF Other, more
      <3>3. QED BY <1>2, <1>3, <2>2, <3>2
    <2>3. CASE g # h /\ handles[g].name # n
      BY <1>2, <1>3, <1>4, <2>3 DEF Sound
    <2>4. QED BY <2>1, <2>2, <2>3
  <1>6. handles' \in Seq(Handles) /\ Len(handles') = Len(handles)
    <2> HIDE DEF Other, log, more, n
    <2>4. DOMAIN handles = 1..Len(handles) /\ Len(handles) \in Nat
      BY <1>1
    <2>1. DOMAIN handles' = 1..Len(handles)
      BY <1>3, <2>4
    <2>2. handles' = [g \in 1..Len(handles) |-> handles'[g]]
      BY <2>4 DEF Crossed
    <2>3. \A g \in 1..Len(handles) : handles'[g] \in Handles
      BY <2>4, <1>5
    <2>5. QED BY <2>1, <2>2, <2>3, <2>4
  <1>7. TypeOK'
    BY <1>2, <1>6 DEF TypeOK
  <1>8. Handed'
    BY <1>3, <1>6 DEF Handed
  <1>9. up
    BY <1>1 DEF Down
  <1>10. Sound'
    BY <1>3, <1>5 DEF Sound
  <1>11. Registered' /\ ListedHasDir' /\ Down'
    BY <1>9 DEF Registered, ListedHasDir, Down
  <1>12. QED BY <1>7, <1>8, <1>10, <1>11

\* The piece that is written next.
Piece(op) == [part |-> <<"mark", "kind", "body">>[op.written + 1], key |-> op.key,
              live |-> op.live]

LEMMA PieceTyped ==
  ASSUME NEW op \in Appends
  PROVE  /\ Piece(op) \in Pieces /\ Piece(op).key = op.key /\ Piece(op).live = op.live
         /\ op.written = 0 => Piece(op).part = "mark"
         /\ op.written = 1 => Piece(op).part = "kind"
         /\ op.written = 2 => Piece(op).part = "body"
  <1>1. op.written \in {0, 1, 2} /\ op.key \in Keys /\ op.live \in BOOLEAN
    BY DEF Appends
  <1>2. /\ <<"mark", "kind", "body">>[1] = "mark" /\ <<"mark", "kind", "body">>[2] = "kind"
        /\ <<"mark", "kind", "body">>[3] = "body"
    OBVIOUS
  <1>3. QED BY <1>1, <1>2 DEF Piece, Pieces

\* The end of a log is not crossed by what its own repository writes next.
LEMMA PieceFollows ==
  ASSUME NEW log \in Seq(Pieces), NEW op \in Appends, Contiguous(log, op)
  PROVE  LET more == Append(log, Piece(op))
         IN  /\ op.written < 2 => Contiguous(more, [op EXCEPT !.written = @ + 1])
             /\ op.written = 2 => /\ Readable(more, op.offset) /\ KeyAt(more, op.offset) = op.key
                                 /\ LiveAt(more, op.offset) = op.live
  <1> DEFINE r == Piece(op)
             more == Append(log, r)
             next == [op EXCEPT !.written = @ + 1]
  <1>1. /\ r \in Pieces /\ r.key = op.key /\ r.live = op.live
        /\ op.written = 0 => r.part = "mark"
        /\ op.written = 1 => r.part = "kind"
        /\ op.written = 2 => r.part = "body"
    BY PieceTyped
  <1> HIDE DEF r
  <1>2. /\ Len(more) = Len(log) + 1 /\ more[Len(log) + 1] = r /\ Len(log) \in Nat
        /\ \A i \in 1..Len(log) : more[i] = log[i]
        /\ DOMAIN more = 1..(Len(log) + 1)
    BY <1>1
  <1> HIDE DEF more
  <1>3. /\ op.offset \in Nat /\ op.written \in 0..2
        /\ next.offset = op.offset /\ next.written = op.written + 1 /\ next.live = op.live
    BY DEF Appends
  <1> HIDE DEF next
  <1>4. CASE op.written = 0
    <2>1. op.offset = Len(log) + 1
      BY <1>2, <1>3, <1>4 DEF Contiguous
    <2>2. QED BY <1>1, <1>2, <1>3, <1>4, <2>1 DEF Contiguous, more, next, r
  <1>5. CASE op.written = 1
    <2>1. op.offset + 1 = Len(log) + 1 /\ op.offset \in 1..Len(log)
      BY <1>2, <1>3, <1>5 DEF Contiguous
    <2>2. more[op.offset] = log[op.offset] /\ more[op.offset + 1] = r
      BY <1>2, <2>1
    <2>3. Contiguous(more, next)
      BY <1>1, <1>2, <1>3, <1>5, <2>1, <2>2 DEF Contiguous
    <2>4. QED BY <1>5, <2>3 DEF more, next, r
  <1>6. CASE op.written = 2
    <2>1. op.offset + 2 = Len(log) + 1 /\ op.offset \in 1..Len(log) /\ op.offset + 1 \in 1..Len(log)
      BY <1>2, <1>3, <1>6 DEF Contiguous
    <2>2. /\ more[op.offset] = log[op.offset] /\ more[op.offset + 1] = log[op.offset + 1]
          /\ more[op.offset + 2] = r
      BY <1>2, <2>1
    <2>3. {op.offset, op.offset + 1, op.offset + 2} \subseteq DOMAIN more
      BY <1>2, <2>1
    <2>4. Readable(more, op.offset) /\ KeyAt(more, op.offset) = op.key
          /\ LiveAt(more, op.offset) = op.live
      BY <1>1, <1>6, <2>2, <2>3 DEF Contiguous, Readable, KeyAt, LiveAt
    <2>5. QED BY <1>6, <2>4 DEF more, r
  <1>7. QED BY <1>3, <1>4, <1>5, <1>6

\* The append of h that is under way, and the log it goes to.
LEMMA OpTyped ==
  ASSUME IInv, NEW h \in held, handles[h].op # None
  PROVE  /\ handles[h] \in Handles /\ handles[h].op \in Appends
         /\ handles[h].name \in Names /\ logs[handles[h].name] \in Seq(Pieces)
         /\ Sound1(logs[handles[h].name], handles[h])
  <1>1. h \in DOMAIN handles /\ TypeOK
    BY DEF IInv, Handed
  <1>2. QED BY <1>1, HandleTyped DEF IInv, Sound, Handles

LEMMA SeekKeeps ==
  ASSUME IInv, NEW h \in held, NEW key \in Keys, NEW live \in BOOLEAN, Seek(h, key, live)
  PROVE  IInv'
  <1> USE DEF IInv
  <1> DEFINE n == handles[h].name
             op == [key |-> key, live |-> live, offset |-> Len(logs[n]) + 1,
                    written |-> 0, crossed |-> FALSE]
             next == [handles[h] EXCEPT !.op = op]
  <1>1. /\ handles \in Seq(Handles) /\ h \in DOMAIN handles /\ handles[h] \in Handles
        /\ n \in Names /\ logs[n] \in Seq(Pieces)
    BY HandleTyped DEF Handed
  <1>2. /\ handles[h].op = None /\ handles' = [handles EXCEPT ![h] = next]
        /\ UNCHANGED <<manifest, dirs, logs, up, collections, repos, held, task, crashes, refused>>
    BY DEF Seek
  <1>3. op \in Appends /\ Contiguous(logs[n], op) /\ op.written = 0 /\ op.crossed = FALSE
    BY <1>1 DEF Appends, Contiguous
  <1> HIDE DEF op
  <1>4. /\ next \in Handles /\ next.name = n /\ next.map = handles[h].map /\ next.op = op
        /\ next.crossed = handles[h].crossed /\ next.alone = handles[h].alone
    BY <1>1, <1>3 DEF Handles
  <1>5. Sound1(logs[n], next)
    <2>1. Sound1(logs[n], handles[h])
      BY <1>1 DEF Sound
    <2>2. Pending(handles[h].op) = 0 /\ Pending(next.op) = 0
      BY <1>2, <1>3, <1>4 DEF Pending
    <2> HIDE DEF next
    <2>3. QED BY <1>2, <1>3, <1>4, <2>1, <2>2 DEF Sound1
  <1> HIDE DEF next
  <1>6. /\ handles' \in Seq(Handles) /\ DOMAIN handles' = DOMAIN handles
        /\ Len(handles') = Len(handles) /\ handles'[h] = next
        /\ \A g \in DOMAIN handles : g # h => handles'[g] = handles[g]
    BY <1>1, <1>2, <1>4
  <1>7. TypeOK' /\ Handed'
    BY <1>2, <1>6 DEF TypeOK, Handed
  <1>8. up
    BY <1>1 DEF Down
  <1>9. Sound'
    BY <1>2, <1>4, <1>5, <1>6 DEF Sound
  <1>10. Registered' /\ ListedHasDir' /\ Down'
    BY <1>2, <1>8 DEF Registered, ListedHasDir, Down
  <1>11. QED BY <1>7, <1>9, <1>10

LEMMA WriteKeeps ==
  ASSUME IInv, NEW h \in held, Write(h)
  PROVE  IInv'
  <1> DEFINE n == handles[h].name
             log == logs[n]
             op == handles[h].op
             r == Piece(op)
             more == Append(log, r)
             up1 == [op EXCEPT !.written = @ + 1]
             next == [handles[h] EXCEPT !.op.written = @ + 1]
  <1>1. /\ op # None /\ op.written < 2 /\ handles' = Crossed(h, next)
        /\ logs' = [logs EXCEPT ![n] = Append(logs[n], r)]
        /\ UNCHANGED <<manifest, dirs, up, collections, repos, held, task, crashes, refused>>
    BY DEF Write, PieceWritten, Piece
  <1>2. handles[h] \in Handles /\ op \in Appends /\ log \in Seq(Pieces) /\ Sound1(log, handles[h])
    BY <1>1, OpTyped
  <1>3. /\ up1 \in Appends /\ up1.written = op.written + 1 /\ up1.crossed = op.crossed
        /\ op.written \in {0, 1}
    BY <1>1, <1>2 DEF Appends
  <1>4. /\ next \in Handles /\ next.name = n /\ next.map = handles[h].map /\ next.op = up1
        /\ next.crossed = handles[h].crossed /\ next.alone = handles[h].alone
    BY <1>2, <1>3 DEF Handles
  <1>5. r \in Pieces
    BY <1>2, PieceTyped
  <1>6. ~op.crossed => Contiguous(more, up1)
    BY <1>1, <1>2, <1>3, PieceFollows DEF Sound1
  <1>7. \A key \in DOMAIN next.map \ next.crossed : ReadsAs(more, next.map[key], key)
    BY <1>2, <1>4, <1>5, ReadAgain DEF Sound1, ReadsAs
  <1>8. ASSUME next.alone
        PROVE  /\ ~op.crossed
               /\ WholeBut(more, op.written + 1) => Exact(more, Scanned(more), next.map)
    <2>1. ~op.crossed /\ (WholeBut(log, op.written) => Exact(log, Scanned(log), handles[h].map))
      BY <1>1, <1>2, <1>4, <1>8 DEF Sound1, Pending
    <2>2. Scanned(log) \in Nat /\ Reads(log, Scanned(log)) /\ Len(more) = Len(log) + 1 /\ Len(log) \in Nat
      BY <1>2, <1>5, ScanReads, PieceKeeps
    <2>3. \/ Scanned(more) = Scanned(log)
          \/ Scanned(more) = Scanned(log) + 1 /\ Len(log) = 3 * Scanned(log) + 2
      BY <1>2, <1>5, ScanStep
    <2>4. SUFFICES ASSUME WholeBut(more, op.written + 1) PROVE Exact(more, Scanned(more), next.map)
      BY <2>1
    <2> HIDE DEF more
    <2>5. Scanned(more) = Scanned(log) /\ WholeBut(log, op.written)
      <3> DEFINE w == op.written
      <3>1. w \in {0, 1} /\ Len(more) = 3 * Scanned(more) + (w + 1)
        BY <1>3, <2>4 DEF WholeBut
      <3> HIDE DEF w, log
      <3>2. Scanned(more) = Scanned(log) /\ Len(log) = 3 * Scanned(log) + w
        BY <2>2, <2>3, <3>1
      <3>3. QED BY <3>2 DEF WholeBut, w
    <2>6. Exact(log, Scanned(log), handles[h].map)
      BY <2>1, <2>5
    <2>7. Exact(more, Scanned(log), handles[h].map)
      BY <1>2, <1>5, <2>2, <2>6, ExactAgain DEF more
    <2>8. QED BY <1>4, <2>5, <2>7
  <1>9. Sound1(more, next)
    <2> HIDE DEF more, next, up1
    <2>1. next.op # None => Pending(next.op) = op.written + 1
      BY <1>3, <1>4 DEF Pending
    <2>2. next.op # None
      BY <1>3, <1>4, NoneAssumption
    <2>3. QED BY <1>3, <1>4, <1>6, <1>7, <1>8, <2>1, <2>2 DEF Sound1
  <1> HIDE DEF next, r
  <1>10. QED BY <1>1, <1>4, <1>5, <1>9, CrossedKeeps

\* An insertion ends.
LEMMA InsertKeeps ==
  ASSUME IInv, NEW h \in held, Insert(h)
  PROVE  IInv'
  <1> DEFINE n == handles[h].name
             log == logs[n]
             op == handles[h].op
             r == Piece(op)
             more == Append(log, r)
             p == op.offset
             map == Put(handles[h].map, op.key, p)
             next == [handles[h] EXCEPT !.map = map, !.op = None,
                        !.crossed = IF op.crossed THEN @ \cup {op.key} ELSE @ \ {op.key}]
  <1>1. /\ op # None /\ op.written = 2 /\ op.live /\ handles' = Crossed(h, next)
        /\ logs' = [logs EXCEPT ![n] = Append(logs[n], r)]
        /\ UNCHANGED <<manifest, dirs, up, collections, repos, held, task, crashes, refused>>
    BY DEF Insert, Written, PieceWritten, Piece
  <1>2. handles[h] \in Handles /\ op \in Appends /\ log \in Seq(Pieces) /\ Sound1(log, handles[h])
    BY <1>1, OpTyped
  <1>3. op.key \in Keys /\ p \in Nat /\ op.live \in BOOLEAN /\ op.crossed \in BOOLEAN
    BY <1>2 DEF Appends
  <1>4. PICK K \in SUBSET Keys : handles[h].map \in [K -> Nat]
    BY <1>2 DEF Handles, Maps
  <1>5. /\ map \in [K \cup {op.key} -> Nat] /\ map[op.key] = p
        /\ \A x \in K : x # op.key => map[x] = handles[h].map[x]
    BY <1>3, <1>4 DEF Put
  <1>6. map \in Maps
    BY <1>3, <1>5 DEF Maps
  <1> DEFINE crossed == IF op.crossed THEN handles[h].crossed \cup {op.key} ELSE handles[h].crossed \ {op.key}
  <1>7. crossed \in SUBSET Keys
    BY <1>2, <1>3 DEF Handles
  <1> HIDE DEF map
  <1>8. /\ next \in Handles /\ next.name = n /\ next.map = map /\ next.op = None
        /\ next.crossed = crossed /\ next.alone = handles[h].alone
    BY <1>2, <1>6, <1>7 DEF Handles
  <1>9. r \in Pieces
    BY <1>2, PieceTyped
  <1>10. ~op.crossed => /\ Readable(more, p) /\ KeyAt(more, p) = op.key /\ LiveAt(more, p) = op.live
                        /\ p + 2 = Len(log) + 1
    BY <1>1, <1>2, PieceFollows DEF Sound1, Contiguous
  <1>11. \A key \in DOMAIN handles[h].map \ handles[h].crossed : ReadsAs(more, handles[h].map[key], key)
    BY <1>2, <1>9, ReadAgain DEF Sound1, ReadsAs
  <1>12. \A key \in DOMAIN map \ crossed : ReadsAs(more, map[key], key)
    <2> HIDE DEF more, p
    <2>1. ASSUME NEW key \in DOMAIN map \ crossed PROVE ReadsAs(more, map[key], key)
      <3>1. CASE key = op.key
        <4>1. ~op.crossed
          BY <1>3, <3>1
        <4>2. QED BY <1>1, <1>5, <1>10, <3>1, <4>1 DEF ReadsAs
      <3>2. CASE key # op.key
        <4>1. key \in K /\ key \notin handles[h].crossed /\ map[key] = handles[h].map[key]
          BY <1>3, <1>5, <3>2
        <4>2. QED BY <1>4, <1>11, <4>1
      <3>3. QED BY <3>1, <3>2
    <2>2. QED BY <2>1
  <1>13. ASSUME next.alone, WholeBut(more, 0) PROVE Exact(more, Scanned(more), map)
    <2>1. ~op.crossed /\ (WholeBut(log, 2) => Exact(log, Scanned(log), handles[h].map))
      BY <1>1, <1>2, <1>8, <1>13 DEF Sound1, Pending
    <2>2. /\ Scanned(log) \in Nat /\ Reads(log, Scanned(log)) /\ 3 * Scanned(log) <= Len(log)
          /\ Len(more) = Len(log) + 1 /\ Len(log) \in Nat
      BY <1>2, <1>9, ScanReads, PieceKeeps
    <2>3. \/ Scanned(more) = Scanned(log)
          \/ Scanned(more) = Scanned(log) + 1 /\ Len(log) = 3 * Scanned(log) + 2
      BY <1>2, <1>9, ScanStep
    <2>4. more \in Seq(Pieces)
      BY <1>2, <1>9, PieceKeeps
    <2> HIDE DEF more, p
    <2>5. Scanned(more) = Scanned(log) + 1 /\ Len(log) = 3 * Scanned(log) + 2
      BY <1>13, <2>2, <2>3 DEF WholeBut
    <2>6. Exact(more, Scanned(log), handles[h].map)
      BY <1>2, <1>9, <2>1, <2>2, <2>5, ExactAgain DEF WholeBut, more
    <2>7. p = Place(Scanned(log) + 1)
      BY <1>3, <1>10, <2>1, <2>2, <2>5 DEF Place
    <2>8. map = Apply(more, handles[h].map, p)
      BY <1>1, <1>10, <2>1 DEF Apply, map, p
    <2>9. QED BY <1>10, <2>1, <2>2, <2>4, <2>5, <2>6, <2>7, <2>8, ApplyExact
  <1>14. Sound1(more, next)
    <2> HIDE DEF more, next
    <2>1. Pending(next.op) = 0
      BY <1>8 DEF Pending
    <2>2. QED BY <1>8, <1>12, <1>13, <2>1 DEF Sound1
  <1> HIDE DEF next, r
  <1>15. QED BY <1>1, <1>8, <1>9, <1>14, CrossedKeeps

\* A deletion ends.
LEMMA DeleteKeeps ==
  ASSUME IInv, NEW h \in held, Delete(h)
  PROVE  IInv'
  <1> DEFINE n == handles[h].name
             log == logs[n]
             op == handles[h].op
             r == Piece(op)
             more == Append(log, r)
             p == op.offset
             map == Forget(handles[h].map, op.key)
             next == [handles[h] EXCEPT !.map = map, !.op = None]
  <1>1. /\ op # None /\ op.written = 2 /\ ~op.live /\ handles' = Crossed(h, next)
        /\ logs' = [logs EXCEPT ![n] = Append(logs[n], r)]
        /\ UNCHANGED <<manifest, dirs, up, collections, repos, held, task, crashes, refused>>
    BY DEF Delete, Written, PieceWritten, Piece
  <1>2. handles[h] \in Handles /\ op \in Appends /\ log \in Seq(Pieces) /\ Sound1(log, handles[h])
    BY <1>1, OpTyped
  <1>3. op.key \in Keys /\ p \in Nat /\ op.live \in BOOLEAN /\ op.crossed \in BOOLEAN
    BY <1>2 DEF Appends
  <1>4. PICK K \in SUBSET Keys : handles[h].map \in [K -> Nat]
    BY <1>2 DEF Handles, Maps
  <1>5. /\ map \in [K \ {op.key} -> Nat]
        /\ \A x \in K : x # op.key => map[x] = handles[h].map[x]
    BY <1>3, <1>4 DEF Forget, Restrict
  <1>6. map \in Maps
    BY <1>3, <1>5 DEF Maps
  <1> DEFINE crossed == handles[h].crossed
  <1>7. crossed \in SUBSET Keys
    BY <1>2, <1>3 DEF Handles
  <1> HIDE DEF map
  <1>8. /\ next \in Handles /\ next.name = n /\ next.map = map /\ next.op = None
        /\ next.crossed = crossed /\ next.alone = handles[h].alone
    BY <1>2, <1>6, <1>7 DEF Handles
  <1>9. r \in Pieces
    BY <1>2, PieceTyped
  <1>10. ~op.crossed => /\ Readable(more, p) /\ KeyAt(more, p) = op.key /\ LiveAt(more, p) = op.live
                        /\ p + 2 = Len(log) + 1
    BY <1>1, <1>2, PieceFollows DEF Sound1, Contiguous
  <1>11. \A key \in DOMAIN handles[h].map \ handles[h].crossed : ReadsAs(more, handles[h].map[key], key)
    BY <1>2, <1>9, ReadAgain DEF Sound1, ReadsAs
  <1>12. \A key \in DOMAIN map \ crossed : ReadsAs(more, map[key], key)
    <2> HIDE DEF more, p
    <2>1. ASSUME NEW key \in DOMAIN map \ crossed PROVE ReadsAs(more, map[key], key)
      <3>1. key \in K /\ key # op.key /\ map[key] = handles[h].map[key]
        BY <1>5
      <3>2. QED BY <1>4, <1>11, <3>1
    <2>2. QED BY <2>1
  <1>13. ASSUME next.alone, WholeBut(more, 0) PROVE Exact(more, Scanned(more), map)
    <2>1. ~op.crossed /\ (WholeBut(log, 2) => Exact(log, Scanned(log), handles[h].map))
      BY <1>1, <1>2, <1>8, <1>13 DEF Sound1, Pending
    <2>2. /\ Scanned(log) \in Nat /\ Reads(log, Scanned(log)) /\ 3 * Scanned(log) <= Len(log)
          /\ Len(more) = Len(log) + 1 /\ Len(log) \in Nat
      BY <1>2, <1>9, ScanReads, PieceKeeps
    <2>3. \/ Scanned(more) = Scanned(log)
          \/ Scanned(more) = Scanned(log) + 1 /\ Len(log) = 3 * Scanned(log) + 2
      BY <1>2, <1>9, ScanStep
    <2>4. more \in Seq(Pieces)
      BY <1>2, <1>9, PieceKeeps
    <2> HIDE DEF more, p
    <2>5. Scanned(more) = Scanned(log) + 1 /\ Len(log) = 3 * Scanned(log) + 2
      BY <1>13, <2>2, <2>3 DEF WholeBut
    <2>6. Exact(more, Scanned(log), handles[h].map)
      BY <1>2, <1>9, <2>1, <2>2, <2>5, ExactAgain DEF WholeBut, more
    <2>7. p = Place(Scanned(log) + 1)
      BY <1>3, <1>10, <2>1, <2>2, <2>5 DEF Place
    <2>8. map = Apply(more, handles[h].map, p)
      BY <1>1, <1>10, <2>1 DEF Apply, map, p
    <2>9. QED BY <1>10, <2>1, <2>2, <2>4, <2>5, <2>6, <2>7, <2>8, ApplyExact
  <1>14. Sound1(more, next)
    <2> HIDE DEF more, next
    <2>1. Pending(next.op) = 0
      BY <1>8 DEF Pending
    <2>2. QED BY <1>8, <1>12, <1>13, <2>1 DEF Sound1
  <1> HIDE DEF next, r
  <1>15. QED BY <1>1, <1>8, <1>9, <1>14, CrossedKeeps

LEMMA NextIInv == IInv /\ [Next]_vars => IInv'
  <1> SUFFICES ASSUME IInv, [Next]_vars PROVE IInv'
    OBVIOUS
  <1> USE DEF IInv
  <1>1. CASE LoadFromFile
    <2>1. manifest \subseteq Names /\ manifest \subseteq dirs \cup refused
      BY <1>1 DEF LoadFromFile, TypeOK, ListedHasDir
    <2>2. QED
      BY <1>1, <2>1 DEF LoadFromFile, TypeOK, Down, Handed, Registered, ListedHasDir, Sound, Idle
  <1>2. ASSUME NEW n \in Names, RegisterCollection(n) PROVE IInv'
    <2>1. /\ task' \in [name : Names, at : {"mkdir", "save", "open", "publish"}]
          /\ task'.name = n /\ task'.at \in {"mkdir", "open"}
          /\ n \notin collections => task'.at = "mkdir"
      BY <1>2 DEF RegisterCollection
    <2>2. TypeOK' /\ Down'
      BY <1>2, <2>1 DEF RegisterCollection, TypeOK, Down
    <2>3. Handed' /\ ListedHasDir' /\ Sound'
      BY <1>2, <2>1 DEF RegisterCollection, Handed, ListedHasDir, Sound
    <2>4. Registered'
      BY <1>2, <2>1 DEF RegisterCollection, Registered, Idle
    <2>5. QED BY <2>2, <2>3, <2>4
  <1>3. CASE CreateDirAll
    <2>1. task \in [name : Names, at : {"mkdir", "save", "open", "publish"}] /\ task.at = "mkdir"
      BY <1>3 DEF CreateDirAll, TypeOK, Idle
    <2>2. task' = Idle \/ (/\ task'.at = "save"
                           /\ task' \in [name : Names, at : {"mkdir", "save", "open", "publish"}])
      BY <1>3, <2>1 DEF CreateDirAll
    <2>3. TypeOK'
      BY <1>3, <2>1, <2>2 DEF CreateDirAll, TypeOK
    <2>4. up
      BY <2>1 DEF Down, Idle
    <2>5. task'.at \notin {"mkdir", "publish"}
      BY <2>2 DEF Idle
    <2>6. Down' /\ Handed' /\ Registered' /\ ListedHasDir' /\ Sound'
      BY <1>3, <2>1, <2>4, <2>5
      DEF CreateDirAll, Down, Handed, Registered, ListedHasDir, Sound
    <2>7. QED BY <2>3, <2>6
  <1>4. CASE SaveToFile
    <2>1. task \in [name : Names, at : {"mkdir", "save", "open", "publish"}] /\ task.at = "save"
      BY <1>4 DEF SaveToFile, TypeOK, Idle
    <2>2. task' = Idle \/ (/\ task'.at = "open"
                           /\ task' \in [name : Names, at : {"mkdir", "save", "open", "publish"}])
      BY <1>4, <2>1 DEF SaveToFile
    <2>3. TypeOK'
      BY <1>4, <2>1, <2>2 DEF SaveToFile, TypeOK
    <2>4. up
      BY <2>1 DEF Down, Idle
    <2>5. task'.at \notin {"mkdir", "publish"}
      BY <2>2 DEF Idle
    <2>6. Down' /\ Handed' /\ Registered' /\ ListedHasDir' /\ Sound'
      BY <1>4, <2>1, <2>4, <2>5
      DEF SaveToFile, Down, Handed, Registered, ListedHasDir, Sound
    <2>7. QED BY <2>3, <2>6
  <1>5. CASE OpenRepository
    BY <1>5, OpenKeeps
  <1>6. CASE Publish
    <2>1. task \in [name : Names, at : {"mkdir", "save", "open", "publish"}] /\ task.at = "publish"
      BY <1>6 DEF Publish, TypeOK, Idle
    <2>2. /\ DOMAIN repos' = DOMAIN repos \cup {task.name}
          /\ repos'[task.name] = Len(handles)
          /\ \A n \in DOMAIN repos : n # task.name => repos'[n] = repos[n]
      BY <1>6 DEF Publish, Put
    <2>3. task'.at \notin {"mkdir", "publish"}
      BY <1>6 DEF Publish, Idle
    <2>4. TypeOK'
      BY <1>6, <2>1, <2>2 DEF Publish, TypeOK
    <2>5. Handed'
      BY <1>6, <2>1, <2>2, <2>3 DEF Publish, Handed
    <2>6. Down' /\ Registered' /\ ListedHasDir' /\ Sound'
      BY <1>6, <2>1, <2>3 DEF Publish, Down, Registered, ListedHasDir, Sound
    <2>7. QED BY <2>4, <2>5, <2>6
  <1>7. ASSUME NEW n \in Names, Collection(n) PROVE IInv'
    BY <1>7 DEF Collection, TypeOK, Down, Handed, Registered, ListedHasDir, Sound
  <1>8. ASSUME NEW h \in held, NEW key \in Keys, NEW live \in BOOLEAN,
               Seek(h, key, live)
        PROVE  IInv'
    BY <1>8, SeekKeeps
  <1>9. ASSUME NEW h \in held, Write(h) PROVE IInv'
    BY <1>9, WriteKeeps
  <1>10. ASSUME NEW h \in held, Insert(h) PROVE IInv'
    BY <1>10, InsertKeeps
  <1>11. ASSUME NEW h \in held, Delete(h) PROVE IInv'
    BY <1>11, DeleteKeeps
  <1>12. CASE Crash
    <2>1. handles' \in Seq(Handles) /\ DOMAIN handles' = {}
      BY <1>12 DEF Crash
    <2>2. DOMAIN repos' = {} /\ held' = {} /\ collections' = {} /\ task' = Idle
      BY <1>12 DEF Crash
    <2>3. crashes' \in 0..MaxCrashes
      BY <1>12, BoundsAssumption DEF Crash, TypeOK
    <2>4. manifest' = manifest \/ manifest' = Torn
      BY <1>12 DEF Crash
    <2>5. dirs' = dirs /\ logs' = logs /\ refused' = refused /\ up' = FALSE /\ handles' = <<>>
      BY <1>12 DEF Crash
    <2>6. TypeOK'
      BY <2>1, <2>2, <2>3, <2>4, <2>5 DEF TypeOK
    <2>7. Down' /\ Handed' /\ Registered' /\ ListedHasDir' /\ Sound'
      BY <2>1, <2>2, <2>4, <2>5 DEF Down, Handed, Registered, ListedHasDir, Sound, Idle
    <2>8. QED BY <2>6, <2>7
  <1>13. CASE UNCHANGED vars
    BY <1>13 DEF vars, TypeOK, Down, Handed, Registered, ListedHasDir, Sound
  <1>14. QED
    BY <1>1, <1>2, <1>3, <1>4, <1>5, <1>6, <1>7, <1>8, <1>9, <1>10,
       <1>11, <1>12, <1>13 DEF Next

\* The inductive invariant holds of every behaviour: the metadata is ahead of the disk by one
\* directory at most, and every offset map is live, an undisturbed one exact.
THEOREM Invariance == Spec => []IInv
  <1>1. QED BY InitIInv, NextIInv, PTL DEF Spec

-----------------------------------------------------------------------------
(* What it is for.                                                         *)

\* Every variable keeps its type: a repository's offsets are of keys, and there are no handles
\* for collections that were never named.
THEOREM TypeCorrect == Spec => []TypeOK
  <1>1. IInv => TypeOK
    BY DEF IInv
  <1>2. QED BY <1>1, Invariance, PTL

\* register_collection never leaves a manifest that lists a collection whose directory is not
\* there, but for those whose directory could once not be made: with any number of crashes and
\* of registrations that fail in their middle.
THEOREM ListedCanBeOpened == Spec => []ListedHasDir
  <1>1. IInv => ListedHasDir
    BY DEF IInv
  <1>2. QED BY <1>1, Invariance, PTL

\* A repository that was replaced reads no tombstone, no garbage and no record of another key,
\* with any number of repositories on any number of logs of any length, whatever they append at
\* once: but for the records another one has written into.
THEOREM OffsetsStayLive == Spec => []OffsetsLive
  <1>1. IInv => OffsetsLive
    BY DEF IInv, Sound, Sound1, OffsetsLive
  <1>2. QED BY <1>1, Invariance, PTL

\* The map of a repository nobody else has written beside is exactly the newest live record of
\* each key: initialize, insert and delete agree on what a collection holds, on logs of any
\* length, between any two pieces of an append.
THEOREM AloneIsExact == Spec => []AloneAgrees
  <1>1. IInv => AloneAgrees
    <2> SUFFICES ASSUME IInv, NEW h \in DOMAIN handles, handles[h].alone, WholeFor(h)
                 PROVE  LET log == logs[handles[h].name]
                            places == {Place(i) : i \in 1..Scanned(log)}
                            Newest(p) == \A q \in places : KeyAt(log, q) = KeyAt(log, p) => q <= p
                        IN  {<<key, handles[h].map[key]>> : key \in DOMAIN handles[h].map}
                              = {<<KeyAt(log, p), p>> :
                                   p \in {q \in places : LiveAt(log, q) /\ Newest(q)}}
      BY DEF AloneAgrees
    <2> DEFINE log == logs[handles[h].name]
               m == handles[h].map
               k == Scanned(log)
               places == {Place(i) : i \in 1..k}
               Newest(p) == \A q \in places : KeyAt(log, q) = KeyAt(log, p) => q <= p
               live == {q \in places : LiveAt(log, q) /\ Newest(q)}
    <2>1. TypeOK /\ h \in DOMAIN handles
      BY DEF IInv
    <2>2. log \in Seq(Pieces)
      BY <2>1, HandleTyped
    <2>3. Exact(log, k, m)
      BY DEF IInv, Sound, Sound1, WholeFor, WholeBut, Pending
    <2>4. k \in Nat /\ Reads(log, k)
      BY <2>2, ScanReads
    <2>5. \A i \in 1..k : KeyAt(log, Place(i)) \in Keys
      BY <2>2, <2>4, ReadTyped DEF Reads
    <2>6. DOMAIN m \subseteq Keys
      BY <2>3 DEF Exact, Maps
    <2> HIDE DEF log, m, k
    <2>7. \A i, j \in 1..k : Place(i) <= Place(j) <=> i <= j
      BY <2>4 DEF Place
    <2>8. ASSUME NEW i \in 1..k
          PROVE  Place(i) \in live <=> Current(log, k, KeyAt(log, Place(i)), i)
      BY <2>7 DEF Current
    <2>9. ASSUME NEW key \in DOMAIN m PROVE m[key] \in live /\ KeyAt(log, m[key]) = key
      <3>1. PICK i \in 1..k : m[key] = Place(i) /\ Current(log, k, key, i)
        BY <2>3, <2>6 DEF Exact
      <3>2. KeyAt(log, Place(i)) = key
        BY <3>1 DEF Current
      <3> HIDE DEF live
      <3>3. QED BY <2>8, <3>1, <3>2
    <2>10. ASSUME NEW p \in live PROVE KeyAt(log, p) \in DOMAIN m /\ m[KeyAt(log, p)] = p
      <3>1. PICK i \in 1..k : p = Place(i)
        OBVIOUS
      <3> HIDE DEF live
      <3>2. Current(log, k, KeyAt(log, p), i)
        BY <2>8, <3>1
      <3>3. KeyAt(log, p) \in DOMAIN m
        BY <2>3, <2>5, <3>1, <3>2 DEF Exact
      <3>4. PICK j \in 1..k : m[KeyAt(log, p)] = Place(j) /\ Current(log, k, KeyAt(log, p), j)
        BY <2>3, <2>6, <3>3 DEF Exact
      <3>5. i = j
        BY <2>4, <3>2, <3>4 DEF Current
      <3>6. QED BY <3>1, <3>3, <3>4, <3>5
    <2>11. {<<key, m[key]>> : key \in DOMAIN m} = {<<KeyAt(log, p), p>> : p \in live}
      <3> HIDE DEF live
      <3>1. ASSUME NEW key \in DOMAIN m PROVE \E p \in live : <<key, m[key]>> = <<KeyAt(log, p), p>>
        BY <2>9
      <3>2. ASSUME NEW p \in live
            PROVE  \E key \in DOMAIN m : <<KeyAt(log, p), p>> = <<key, m[key]>>
        BY <2>10
      <3>3. QED BY <3>1, <3>2
    <2>12. QED BY <2>11 DEF log, m, k
  <1>2. QED BY <1>1, Invariance, PTL
=============================================================================
