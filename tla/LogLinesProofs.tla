--------------------------- MODULE LogLinesProofs ---------------------------
(***************************************************************************)
(* Lemmas about the operators of LogTail: a set of offsets can be put in   *)
(* order, Split returns exactly the lines that end in a chunk, and lines   *)
(* of adjacent parts of a file make up the lines of both.                  *)
(***************************************************************************)
EXTENDS LogTail, FiniteSetTheorems, SequenceTheorems, WellFoundedInduction, TLAPS

\* A set of natural numbers that is not empty has a least one.
LEMMA LeastNat ==
    ASSUME NEW S \in SUBSET Nat, S # {}
    PROVE  \E x \in S : \A y \in S : x <= y
  <1>1. \E x \in S : \A y \in S : ~ (<<y, x>> \in OpToRel(<, Nat))
    BY WFMin, NatLessThanWellFounded, Zenon
  <1>2. OpToRel(<, Nat) = {ss \in Nat \X Nat : ss[1] < ss[2]}
    BY Zenon DEF OpToRel
  <1>3. PICK x \in S : \A y \in S : ~ (<<y, x>> \in OpToRel(<, Nat))
    BY <1>1
  <1>4. ASSUME NEW y \in S PROVE ~(y < x)
    BY <1>2, <1>3
  <1>5. QED
    BY <1>4

\* s enumerates the set S in ascending order.
Sorts(s, k, S) ==
    /\ s \in [1 .. k -> S]
    /\ \A i, j \in 1 .. k : i < j => s[i] < s[j]
    /\ \A x \in S : \E i \in 1 .. k : s[i] = x

\* One more element, greater than all others, goes to the end.
LEMMA SortsMore ==
    ASSUME NEW n \in Nat, NEW S \in SUBSET (0 .. n),
           NEW k \in Nat, NEW s, Sorts(s, k, S \ {n}), n \in S
    PROVE  \E t : Sorts(t, k + 1, S)
  <1> DEFINE t == [i \in 1 .. k + 1 |-> IF i = k + 1 THEN n ELSE s[i]]
  <1>1. t \in [1 .. k + 1 -> S]
    <2> SUFFICES ASSUME NEW i \in 1 .. k + 1 PROVE t[i] \in S
      OBVIOUS
    <2>1. i # k + 1 => i \in 1 .. k
      OBVIOUS
    <2>2. QED
      BY <2>1 DEF Sorts
  <1>2. \A i \in 1 .. k : t[i] = s[i] /\ s[i] \in S \ {n} /\ s[i] < n /\ s[i] \in Nat
    <2> SUFFICES ASSUME NEW i \in 1 .. k
                 PROVE  t[i] = s[i] /\ s[i] \in S \ {n} /\ s[i] < n /\ s[i] \in Nat
      OBVIOUS
    <2>1. i \in 1 .. k + 1 /\ i # k + 1
      OBVIOUS
    <2>2. s[i] \in S \ {n}
      BY DEF Sorts
    <2>3. s[i] \in 0 .. n /\ s[i] # n
      BY <2>2
    <2>4. QED
      BY <2>1, <2>2, <2>3
  <1>3. t[k + 1] = n
    OBVIOUS
  <1> HIDE DEF t
  <1>4. ASSUME NEW i \in 1 .. k + 1, NEW j \in 1 .. k + 1, i < j PROVE t[i] < t[j]
    <2>1. i \in 1 .. k
      BY <1>4
    <2>2. CASE j = k + 1
      BY <1>2, <1>3, <2>1, <2>2
    <2>3. CASE j \in 1 .. k
      BY <1>2, <1>4, <2>1, <2>3 DEF Sorts
    <2>4. QED
      BY <2>2, <2>3
  <1>5. ASSUME NEW x \in S PROVE \E i \in 1 .. k + 1 : t[i] = x
    <2>1. CASE x = n
      BY <1>3, <2>1
    <2>2. CASE x # n
      <3>1. PICK i \in 1 .. k : s[i] = x
        BY <2>2 DEF Sorts
      <3>2. i \in 1 .. k + 1
        OBVIOUS
      <3>3. QED
        BY <1>2, <3>1, <3>2
    <2>3. QED
      BY <2>1, <2>2
  <1>6. QED
    BY <1>1, <1>4, <1>5 DEF Sorts

\* Every set of offsets of a file has such an enumeration.  The least size of a
\* file for which one had none would have a predecessor for which all had one.
LEMMA SortsExist ==
    ASSUME NEW n \in Nat, NEW S \in SUBSET (0 .. n - 1)
    PROVE  \E k \in Nat : \E s : Sorts(s, k, S)
  <1> DEFINE Sortable(T) == \E k \in Nat : \E s : Sorts(s, k, T)
             Bad == {m \in Nat : \E T \in SUBSET (0 .. m - 1) : ~Sortable(T)}
  <1>1. SUFFICES ASSUME Bad # {} PROVE FALSE
    OBVIOUS
  <1>2. PICK m \in Bad : \A l \in Bad : m <= l
    <2>1. Bad \in SUBSET Nat
      OBVIOUS
    <2> HIDE DEF Bad
    <2>2. QED
      BY <1>1, <2>1, LeastNat
  <1>3. m \in Nat
    OBVIOUS
  <1>4. PICK T \in SUBSET (0 .. m - 1) : ~Sortable(T)
    OBVIOUS
  <1>5. CASE m = 0
    <2>1. T = {}
      BY <1>5
    <2>2. Sorts(<<>>, 0, T)
      BY <2>1 DEF Sorts
    <2>3. QED
      BY <1>4, <2>2
  <1>6. CASE m # 0
    <2>1. m - 1 \in Nat /\ m - 1 \notin Bad
      BY <1>2, <1>3, <1>6
    <2>2. T \ {m - 1} \in SUBSET (0 .. (m - 1) - 1)
      BY <1>3, <1>6
    <2>3. Sortable(T \ {m - 1})
      BY <2>1, <2>2
    <2>4. m - 1 \in T
      <3>1. SUFFICES ASSUME m - 1 \notin T PROVE FALSE
        OBVIOUS
      <3>2. T \ {m - 1} = T
        BY <3>1
      <3>3. QED
        BY <1>4, <2>3, <3>2
    <2>5. PICK k \in Nat : \E s : Sorts(s, k, T \ {m - 1})
      BY <2>3
    <2>6. PICK s : Sorts(s, k, T \ {m - 1})
      BY <2>5
    <2>7. T \in SUBSET (0 .. (m - 1))
      OBVIOUS
    <2>8. \E t : Sorts(t, k + 1, T)
      BY <2>1, <2>4, <2>6, <2>7, SortsMore
    <2>9. QED
      BY <1>4, <2>8
  <1>7. QED
    BY <1>5, <1>6

\* An ascending sequence has no element twice.
LEMMA AscendingInjects ==
    ASSUME NEW S \in SUBSET Nat, NEW k \in Nat, NEW s \in [1 .. k -> S],
           \A i, j \in 1 .. k : i < j => s[i] < s[j]
    PROVE  s \in Injection(1 .. k, S)
  <1>1. \A i \in 1 .. k : s[i] \in Nat
    OBVIOUS
  <1>2. ASSUME NEW i \in 1 .. k, NEW j \in 1 .. k, s[i] = s[j], i # j PROVE FALSE
    <2>1. i < j \/ j < i
      BY <1>2
    <2>2. s[i] < s[j] \/ s[j] < s[i]
      BY <2>1
    <2>3. QED
      BY <1>1, <1>2, <2>2
  <1>3. QED
    BY <1>2 DEF Injection, IsInjective

\* The sequence chosen by Ascending has the whole set, in order.
LEMMA AscendingSorts ==
    ASSUME NEW n \in Nat, NEW S \in SUBSET (0 .. n - 1)
    PROVE  /\ Cardinality(S) \in Nat
           /\ Sorts(Ascending(S), Cardinality(S), S)
  <1> DEFINE c == Cardinality(S)
  <1>0. PICK k \in Nat : \E s : Sorts(s, k, S)
    BY SortsExist
  <1>1. PICK s : Sorts(s, k, S)
    BY <1>0
  <1>2. s \in Bijection(1 .. k, S)
    <2>1. s \in Injection(1 .. k, S)
      BY <1>1, AscendingInjects DEF Sorts
    <2>2. QED
      BY <1>1, <2>1 DEF Sorts, Bijection, Surjection
  <1>3. IsFiniteSet(1 .. k) /\ Cardinality(1 .. k) = k
    BY FS_Interval
  <1>4. IsFiniteSet(S) /\ c = k
    BY <1>2, <1>3, FS_Bijection DEF ExistsBijection
  <1>5. /\ s \in [1 .. c -> S]
        /\ \A i, j \in DOMAIN s : i < j => s[i] < s[j]
    BY <1>1, <1>4 DEF Sorts
  <1> DEFINE a == Ascending(S)
  <1>6. /\ a \in [1 .. c -> S]
        /\ \A i, j \in DOMAIN a : i < j => a[i] < a[j]
    BY <1>5 DEF Ascending
  <1> HIDE DEF a
  <1>7. a \in Injection(1 .. c, S)
    BY <1>4, <1>6, AscendingInjects
  <1>8. a \in Surjection(1 .. c, S)
    BY <1>3, <1>4, <1>7, FS_Injection
  <1>9. QED
    BY <1>4, <1>6, <1>8 DEF Sorts, Surjection, a

-----------------------------------------------------------------------------
\* lines covers the bytes lo .. hi - 1 of a file with newlines N: each newline
\* there ends one line, and the lines are in order.
Covers(s, lo, hi, N) ==
    /\ s \in Seq(Intervals)
    /\ \A i \in 1 .. Len(s) : /\ lo <= s[i].from /\ s[i].from <= s[i].to
                              /\ s[i].to < hi /\ s[i].to \in N
    /\ \A i, j \in 1 .. Len(s) : i < j => s[i].to < s[j].from
    /\ \A n \in N : lo <= n /\ n < hi => \E i \in 1 .. Len(s) : s[i].to = n

\* Each line begins after a newline or at one of the offsets C.
Begins(s, C, N) ==
    \A i \in 1 .. Len(s) : s[i].from - 1 \in N \/ s[i].from \in C

\* u has the elements of s, then those of t.
Follows(u, s, t) ==
    /\ u \in Seq(Intervals) /\ Len(u) = Len(s) + Len(t)
    /\ Len(s) \in Nat /\ Len(t) \in Nat
    /\ \A i \in 1 .. Len(s) : u[i] = s[i]
    /\ \A i \in 1 .. Len(t) : u[Len(s) + i] = t[i]
    /\ \A i \in 1 .. Len(u) :
          i \in 1 .. Len(s) \/ \E j \in 1 .. Len(t) : i = Len(s) + j

\* That is what a concatenation is.
LEMMA Joined ==
    ASSUME NEW s \in Seq(Intervals), NEW t \in Seq(Intervals)
    PROVE  Follows(s \o t, s, t)
  <1> DEFINE u == s \o t
  <1>1. Len(s) \in Nat /\ Len(t) \in Nat
    BY LenProperties
  <1>2. /\ u \in Seq(Intervals) /\ Len(u) = Len(s) + Len(t)
        /\ \A i \in 1 .. Len(s) + Len(t) :
              u[i] = IF i <= Len(s) THEN s[i] ELSE t[i - Len(s)]
    BY ConcatProperties
  <1> HIDE DEF u
  <1>3. ASSUME NEW i \in 1 .. Len(t) PROVE u[Len(s) + i] = t[i]
    <2>1. Len(s) + i \in 1 .. Len(s) + Len(t) /\ ~(Len(s) + i <= Len(s))
          /\ (Len(s) + i) - Len(s) = i
      BY <1>1
    <2>2. QED
      BY <1>2, <2>1
  <1>4. \A i \in 1 .. Len(s) : u[i] = s[i]
    BY <1>1, <1>2
  <1>5. ASSUME NEW i \in 1 .. Len(u), i \notin 1 .. Len(s)
        PROVE  \E j \in 1 .. Len(t) : i = Len(s) + j
    <2>1. i - Len(s) \in 1 .. Len(t) /\ i = Len(s) + (i - Len(s))
      BY <1>1, <1>2, <1>5
    <2>2. QED
      BY <2>1
  <1>6. QED
    <2>1. Follows(u, s, t)
      BY <1>1, <1>2, <1>3, <1>4, <1>5 DEF Follows
    <2>2. QED
      BY <2>1 DEF u

\* The offsets of a line are natural numbers.
LEMMA LineOffsets ==
    ASSUME NEW s \in Seq(Intervals), NEW i \in 1 .. Len(s)
    PROVE  s[i].from \in Nat /\ s[i].to \in Nat
  <1>1. s[i] \in Intervals
    BY ElementOfSeq
  <1>2. QED
    BY <1>1, TailAssumption DEF Intervals

\* Lines of two adjacent parts of a file, one after the other.
LEMMA CoversJoin ==
    ASSUME NEW lo \in Nat, NEW mid \in Nat, NEW hi \in Nat, NEW N \in SUBSET Nat,
           lo <= mid, mid <= hi,
           NEW s, Covers(s, lo, mid, N), NEW t, Covers(t, mid, hi, N),
           NEW C, Begins(s, C, N), Begins(t, C, N)
    PROVE  Covers(s \o t, lo, hi, N) /\ Begins(s \o t, C, N)
  <1> DEFINE u == s \o t
  <1>1. s \in Seq(Intervals) /\ t \in Seq(Intervals)
    BY DEF Covers
  <1>0. u = s \o t
    OBVIOUS
  <1> HIDE DEF u
  <1>2. /\ u \in Seq(Intervals) /\ Len(u) = Len(s) + Len(t)
        /\ Len(s) \in Nat /\ Len(t) \in Nat
        /\ \A i \in 1 .. Len(s) : u[i] = s[i]
        /\ \A i \in 1 .. Len(t) : u[Len(s) + i] = t[i]
        /\ \A i \in 1 .. Len(u) :
              i \in 1 .. Len(s) \/ \E j \in 1 .. Len(t) : i = Len(s) + j
    <2>1. Follows(u, s, t)
      BY <1>0, <1>1, Joined
    <2>2. QED
      BY <2>1 DEF Follows
  <1>3. /\ \A i \in 1 .. Len(s) : s[i].from \in Nat /\ s[i].to \in Nat
        /\ \A i \in 1 .. Len(t) : t[i].from \in Nat /\ t[i].to \in Nat
    BY <1>1, LineOffsets
  <1>4. ASSUME NEW i \in 1 .. Len(u)
        PROVE  /\ lo <= u[i].from /\ u[i].from <= u[i].to
               /\ u[i].to < hi /\ u[i].to \in N
               /\ u[i].from - 1 \in N \/ u[i].from \in C
    <2>1. CASE i \in 1 .. Len(s)
      BY <1>2, <1>3, <2>1 DEF Covers, Begins
    <2>2. CASE i \notin 1 .. Len(s)
      <3>1. PICK j \in 1 .. Len(t) : i = Len(s) + j
        BY <1>2, <2>2
      <3>2. u[i] = t[j]
        BY <1>2, <3>1
      <3>3. QED
        BY <1>3, <3>2 DEF Covers, Begins
    <2>3. QED
      BY <2>1, <2>2
  <1>5. ASSUME NEW i \in 1 .. Len(u), NEW j \in 1 .. Len(u), i < j
        PROVE  u[i].to < u[j].from
    <2>1. CASE j \in 1 .. Len(s)
      <3>1. i \in 1 .. Len(s)
        BY <1>2, <1>5, <2>1
      <3>2. QED
        BY <1>2, <1>5, <2>1, <3>1 DEF Covers
    <2>2. CASE j \notin 1 .. Len(s)
      <3>1. PICK l \in 1 .. Len(t) : j = Len(s) + l
        BY <1>2, <2>2
      <3>2. u[j] = t[l]
        BY <1>2, <3>1
      <3>3. CASE i \in 1 .. Len(s)
        <4>1. u[i] = s[i] /\ s[i].to < mid /\ mid <= t[l].from
          BY <1>2, <3>3 DEF Covers
        <4>2. QED
          BY <1>3, <3>2, <3>3, <4>1
      <3>4. CASE i \notin 1 .. Len(s)
        <4>1. PICK k \in 1 .. Len(t) : i = Len(s) + k
          BY <1>2, <3>4
        <4>2. u[i] = t[k] /\ k < l
          BY <1>2, <1>5, <3>1, <4>1
        <4>3. QED
          BY <3>2, <4>2 DEF Covers
      <3>5. QED
        BY <3>3, <3>4
    <2>3. QED
      BY <2>1, <2>2
  <1>6. ASSUME NEW n \in N, lo <= n, n < hi PROVE \E i \in 1 .. Len(u) : u[i].to = n
    <2>1. CASE n < mid
      <3>1. PICK i \in 1 .. Len(s) : s[i].to = n
        BY <1>6, <2>1 DEF Covers
      <3>2. i \in 1 .. Len(u) /\ u[i] = s[i]
        BY <1>2
      <3>3. QED
        BY <3>1, <3>2
    <2>2. CASE ~(n < mid)
      <3>1. mid <= n
        BY <2>2
      <3>2. PICK i \in 1 .. Len(t) : t[i].to = n
        BY <1>6, <3>1 DEF Covers
      <3>3. Len(s) + i \in 1 .. Len(u) /\ u[Len(s) + i] = t[i]
        BY <1>2
      <3>4. QED
        BY <3>2, <3>3
    <2>3. QED
      BY <2>1, <2>2
  <1>7. Covers(u, lo, hi, N) /\ Begins(u, C, N)
    BY <1>2, <1>4, <1>5, <1>6 DEF Covers, Begins
  <1>8. QED
    BY <1>7, <1>0

\* The lines of one chunk.
LEMMA SplitCovers ==
    ASSUME size \in 0 .. MaxSize, newlines \subseteq 0 .. size - 1,
           NEW lo \in Nat, NEW hi \in Nat, lo <= hi, hi <= size
    PROVE  /\ Covers(Split(lo, hi), lo, hi, newlines)
           /\ Begins(Split(lo, hi), {lo}, newlines)
  <1> DEFINE N == NewlinesIn(lo, hi)
             ends == Ascending(N)
             k == Cardinality(N)
             s == Split(lo, hi)
  <1>1. size \in Nat /\ N \in SUBSET (0 .. size - 1) /\ \A n \in N : n \in Nat /\ lo <= n /\ n < hi
    <2>1. size \in Nat /\ N \subseteq newlines
      BY TailAssumption DEF NewlinesIn
    <2>2. ASSUME NEW n \in N PROVE n \in Nat /\ lo <= n /\ n < hi
      BY <2>1 DEF NewlinesIn
    <2>3. QED
      BY <2>1, <2>2
  <1>2. k \in Nat /\ Sorts(ends, k, N)
    BY <1>1, AscendingSorts
  <1>3. s = [i \in 1 .. Len(ends) |-> [from |-> IF i = 1 THEN lo ELSE ends[i - 1] + 1,
                                       to |-> ends[i]]]
    BY DEF Split
  <1> HIDE DEF ends, k, s
  <1>4. /\ ends \in Seq(N) /\ Len(ends) = k
        /\ \A i \in 1 .. k : ends[i] \in N
        /\ \A i, j \in 1 .. k : i < j => ends[i] < ends[j]
        /\ \A n \in N : \E i \in 1 .. k : ends[i] = n
    BY <1>2 DEF Sorts
  <1>5. ASSUME NEW i \in 1 .. k
        PROVE  /\ s[i] = [from |-> IF i = 1 THEN lo ELSE ends[i - 1] + 1, to |-> ends[i]]
               /\ s[i].to = ends[i]
               /\ s[i].from = IF i = 1 THEN lo ELSE ends[i - 1] + 1
               /\ lo <= s[i].from /\ s[i].from <= s[i].to
               /\ s[i].to < hi /\ s[i].to \in newlines
               /\ s[i].from \in Nat /\ s[i].to \in Nat
               /\ s[i] = [from |-> s[i].from, to |-> s[i].to]
               /\ s[i].from - 1 \in newlines \/ s[i].from = lo
    <2>1. /\ s[i].to = ends[i]
          /\ s[i].from = IF i = 1 THEN lo ELSE ends[i - 1] + 1
          /\ s[i] = [from |-> IF i = 1 THEN lo ELSE ends[i - 1] + 1, to |-> ends[i]]
      BY <1>3, <1>4
    <2>2. ends[i] \in N /\ ends[i] \in newlines /\ ends[i] \in Nat /\ ends[i] < hi /\ lo <= ends[i]
      BY <1>1, <1>4 DEF NewlinesIn
    <2>3. CASE i = 1
      BY <2>1, <2>2, <2>3
    <2>4. CASE i # 1
      <3>1. i - 1 \in 1 .. k /\ i - 1 < i
        BY <1>2, <2>4
      <3>2. ends[i - 1] \in N /\ ends[i - 1] < ends[i]
        BY <1>4, <3>1
      <3>3. ends[i - 1] \in newlines /\ ends[i - 1] \in Nat /\ lo <= ends[i - 1]
        BY <1>1, <3>2 DEF NewlinesIn
      <3>4. QED
        BY <2>1, <2>2, <2>4, <3>2, <3>3
    <2>5. QED
      BY <2>3, <2>4
  <1>6. s \in Seq(Intervals) /\ Len(s) = k
    <2>1. \A i \in 1 .. k : s[i] \in Intervals
      <3> SUFFICES ASSUME NEW i \in 1 .. k PROVE s[i] \in Intervals
        OBVIOUS
      <3>1. s[i].from \in 0 .. MaxSize /\ s[i].to \in 0 .. MaxSize
        <4>1. /\ s[i].from \in Nat /\ s[i].to \in Nat
              /\ s[i].from <= s[i].to /\ s[i].to < hi
          BY <1>5
        <4>2. QED
          BY <1>1, <4>1, TailAssumption
      <3>2. s[i] = [from |-> s[i].from, to |-> s[i].to]
        BY <1>5
      <3> DEFINE f == s[i].from   e == s[i].to
      <3> HIDE DEF f, e
      <3>3. f \in 0 .. MaxSize /\ e \in 0 .. MaxSize /\ s[i] = [from |-> f, to |-> e]
        BY <3>1, <3>2 DEF f, e
      <3>4. QED
        BY <3>3 DEF Intervals
    <2>2. s = [i \in 1 .. k |-> s[i]]
      BY <1>3, <1>4
    <2>3. QED
      BY <1>2, <2>1, <2>2
  <1>7. ASSUME NEW i \in 1 .. k, NEW j \in 1 .. k, i < j PROVE s[i].to < s[j].from
    <2>1. j - 1 \in 1 .. k /\ j # 1 /\ (i = j - 1 \/ i < j - 1)
      BY <1>2, <1>7
    <2>2. ends[i] <= ends[j - 1] /\ ends[i] \in Nat /\ ends[j - 1] \in Nat
      BY <1>1, <1>4, <2>1
    <2>3. s[i].to = ends[i] /\ s[j].from = ends[j - 1] + 1
      BY <1>5, <2>1
    <2>4. QED
      BY <2>2, <2>3
  <1>8. ASSUME NEW n \in newlines, lo <= n, n < hi PROVE \E i \in 1 .. k : s[i].to = n
    <2>1. n \in N
      BY <1>8 DEF NewlinesIn
    <2>2. PICK i \in 1 .. k : ends[i] = n
      BY <1>4, <2>1
    <2>3. QED
      BY <1>5, <2>2
  <1>9. QED
    BY <1>5, <1>6, <1>7, <1>8 DEF Covers, Begins, s

\* A byte that is appended is beyond what has been read.
LEMMA CoversGrow ==
    ASSUME NEW lo \in Nat, NEW hi \in Nat, NEW N, NEW M, N \subseteq M,
           \A n \in M : n \in N \/ ~(n < hi),
           NEW s, Covers(s, lo, hi, N), NEW C, Begins(s, C, N)
    PROVE  Covers(s, lo, hi, M) /\ Begins(s, C, M)
  BY DEF Covers, Begins
=============================================================================
