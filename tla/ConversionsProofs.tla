--------------------------- MODULE ConversionsProofs ---------------------------
(***************************************************************************)
(* Proofs about the pure algorithms of the library: the search in an       *)
(* advertisement, the lists of uuids, and the strings of addresses and     *)
(* uuids, for any inputs of any length.                                    *)
(*                                                                         *)
(* Each recursive function is shown to exist, on growing parts of its      *)
(* domain, and what it computes then follows along the fields or bytes     *)
(* (UpTo: a set that holds 0 and the successors up to n holds 0 .. n).     *)
(***************************************************************************)
EXTENDS Conversions, SequenceTheorems, WellFoundedInduction, TLAPS

(* A set of numbers that is not empty has a least one.                     *)
LEMMA LeastOf ==
    ASSUME NEW T \in SUBSET Nat, T # {}
    PROVE  \E x \in T : \A y \in T : x <= y
<1> DEFINE R == OpToRel(<, Nat)
<1>1. IsWellFoundedOn(R, Nat)
    BY NatLessThanWellFounded
<1>2. \A x, y \in Nat : <<y, x>> \in R <=> y < x
    BY DEF OpToRel
<1> HIDE DEF R
<1>3. PICK x \in T : \A y \in T : <<y, x>> \notin R
    BY <1>1, WFMin
<1>4. \A y \in T : ~(y < x)
    BY <1>2, <1>3
<1> QED
    BY <1>4

(* Induction up to n, on the set of those for which something holds.       *)
LEMMA UpTo ==
    ASSUME NEW n \in Nat, NEW S, 0 \in S,
           \A k, l \in 0 .. n : l = k + 1 /\ k \in S => l \in S
    PROVE  0 .. n \subseteq S
<1> SUFFICES ASSUME (0 .. n) \ S # {}
             PROVE  FALSE
    OBVIOUS
<1>1. (0 .. n) \ S \in SUBSET Nat
    OBVIOUS
<1>2. PICK x \in (0 .. n) \ S : \A y \in (0 .. n) \ S : x <= y
    BY <1>1, LeastOf
<1>3. x # 0 /\ x - 1 \in 0 .. n /\ x = (x - 1) + 1 /\ x \in 0 .. n
    BY <1>2
<1>4. x - 1 \in S
    BY <1>2, <1>3
<1> QED
    BY <1>2, <1>3, <1>4

------------------------------------------------------------------------------
(* The search of findAdvertisementDataType, one field at a time.           *)
FindStep(scan, type, f, i) ==
    IF i >= scan.size - 1 THEN NoAd
    ELSE LET fieldLen == At(scan, i) IN
         IF fieldLen = 0 \/ i + 1 + fieldLen > scan.size THEN NoAd
         ELSE IF At(scan, i + 1) = type THEN Ad(fieldLen - 1, i + 2)
         ELSE f[i + fieldLen + 1]

IsFind(scan, type, f) ==
    f = [i \in 0 .. scan.size |-> FindStep(scan, type, f, i)]

(* Scan data as there can be: bytes of which some were received.           *)
IsScan(scan) == scan.size \in Nat /\ \A i \in 0 .. scan.size : At(scan, i) \in Nat

(* The recursive function of the search exists: it goes on only to higher offsets. *)
LEMMA FindExists ==
    ASSUME NEW scan, NEW type, IsScan(scan)
    PROVE  \E f : IsFind(scan, type, f)
<1> DEFINE n == scan.size
           S == {k \in 0 .. n : \E f : f = [i \in n - k .. n |-> FindStep(scan, type, f, i)]}
<1>1. n \in Nat
    BY DEF IsScan
<1>2. 0 \in S
    <2> DEFINE f == [i \in n - 0 .. n |-> NoAd]
    <2>1. f = [i \in n - 0 .. n |-> FindStep(scan, type, f, i)]
        <3>1. \A i \in n - 0 .. n : FindStep(scan, type, f, i) = NoAd
            BY <1>1 DEF FindStep
        <3> QED
            BY <3>1
    <2> HIDE DEF f
    <2> QED
        BY <1>1, <2>1
<1>3. ASSUME NEW k \in 0 .. n, NEW l \in 0 .. n, l = k + 1, k \in S
      PROVE  l \in S
    <2>1. PICK f : f = [i \in n - k .. n |-> FindStep(scan, type, f, i)]
        BY <1>3
    <2> DEFINE first == n - l
               g     == [i \in first .. n |-> IF i = first THEN FindStep(scan, type, f, i) ELSE f[i]]
    <2>2. \A i \in first .. n : i # first => i \in n - k .. n
        BY <1>1, <1>3
    <2>3. \A i \in n - k .. n : i \in first .. n /\ i # first
        BY <1>1, <1>3
    <2>4. first \in 0 .. n
        BY <1>1
    <2> HIDE DEF first, n
    <2>5. \A i \in first .. n : FindStep(scan, type, g, i) = FindStep(scan, type, f, i)
        <3> SUFFICES ASSUME NEW i \in first .. n
                     PROVE  FindStep(scan, type, g, i) = FindStep(scan, type, f, i)
            OBVIOUS
        <3> DEFINE next == i + At(scan, i) + 1
        <3>1. CASE ~(i >= n - 1) /\ ~(At(scan, i) = 0 \/ i + 1 + At(scan, i) > n)
            <4>1. i \in 0 .. n /\ At(scan, i) \in Nat
                BY <1>1, <2>4 DEF IsScan, n
            <4>2. next \in first .. n /\ next # first
                BY <1>1, <2>4, <3>1, <4>1
            <4>3. g[next] = f[next]
                BY <4>2
            <4> QED
                BY <4>3 DEF FindStep
        <3>2. CASE i >= n - 1 \/ At(scan, i) = 0 \/ i + 1 + At(scan, i) > n
            BY <3>2 DEF FindStep, n
        <3> QED
            BY <3>1, <3>2
    <2>6. \A i \in first .. n : g[i] = FindStep(scan, type, f, i)
        BY <2>1, <2>2
    <2>7. g = [i \in first .. n |-> FindStep(scan, type, g, i)]
        <3>1. g = [i \in first .. n |-> FindStep(scan, type, f, i)]
            BY <2>6
        <3> HIDE DEF g
        <3> QED
            BY <2>5, <3>1
    <2> HIDE DEF g
    <2>8. \E h : h = [i \in n - l .. n |-> FindStep(scan, type, h, i)]
        BY <2>7 DEF first
    <2> QED
        BY <2>8
<1> HIDE DEF S
<1>4. 0 .. n \subseteq S
    BY <1>1, <1>2, <1>3, UpTo
<1>5. n \in S /\ n - n = 0
    BY <1>1, <1>4
<1> QED
    BY <1>5 DEF S, IsFind

(* The search is one such function.                                        *)
LEMMA FindIs ==
    ASSUME NEW scan, NEW type, IsScan(scan)
    PROVE  \E f : IsFind(scan, type, f) /\ findAdvertisementDataType(scan, type) = f[0]
<1> DEFINE g == CHOOSE f : f = [i \in 0 .. scan.size |-> FindStep(scan, type, f, i)]
<1>1. findAdvertisementDataType(scan, type) = g[0]
    BY DEF findAdvertisementDataType, FindStep
<1>2. g = [i \in 0 .. scan.size |-> FindStep(scan, type, g, i)]
    BY FindExists DEF IsFind
<1> QED
    BY <1>1, <1>2 DEF IsFind
------------------------------------------------------------------------------
(* FlattenSeq, one piece at a time.                                        *)
FlatStep(s, f, i) == IF i = 1 THEN s[i] ELSE f[i - 1] \o s[i]

(* FlattenSeq is a function of that step.                                  *)
LEMMA FlattenIs ==
    ASSUME NEW s, Len(s) \in Nat \ {0}
    PROVE  \E f : /\ f = [i \in 1 .. Len(s) |-> FlatStep(s, f, i)]
                  /\ FlattenSeq(s) = f[Len(s)]
<1> DEFINE n == Len(s)
           S == {k \in 0 .. n : \E f : f = [i \in 1 .. k |-> FlatStep(s, f, i)]}
           c == CHOOSE f : f = [i \in 1 .. n |-> FlatStep(s, f, i)]
<1>1. FlattenSeq(s) = c[n]
    BY DEF FlattenSeq, FlatStep
<1>2. 0 \in S
    <2> DEFINE f == [i \in 1 .. 0 |-> <<>>]
    <2>1. f = [i \in 1 .. 0 |-> FlatStep(s, f, i)]
        OBVIOUS
    <2> HIDE DEF f
    <2>2. \E h : h = [i \in 1 .. 0 |-> FlatStep(s, h, i)]
        BY <2>1
    <2>3. 0 \in 0 .. n
        OBVIOUS
    <2> QED
        BY <2>2, <2>3
<1>3. ASSUME NEW k \in 0 .. n, NEW l \in 0 .. n, l = k + 1, k \in S
      PROVE  l \in S
    <2>1. PICK f : f = [i \in 1 .. k |-> FlatStep(s, f, i)]
        BY <1>3
    <2> DEFINE g == [i \in 1 .. l |-> IF i = l THEN FlatStep(s, f, i) ELSE f[i]]
    <2>2. \A i \in 1 .. l : i # l => i \in 1 .. k
        BY <1>3
    <2>3. \A i \in 1 .. l : i # 1 => i - 1 \in 1 .. k /\ i - 1 \in 1 .. l /\ i - 1 # l
        BY <1>3
    <2>4. \A i \in 1 .. l : FlatStep(s, g, i) = FlatStep(s, f, i)
        BY <2>3 DEF FlatStep
    <2>5. \A i \in 1 .. l : g[i] = FlatStep(s, f, i)
        BY <2>1, <2>2
    <2>6. g = [i \in 1 .. l |-> FlatStep(s, g, i)]
        <3>1. g = [i \in 1 .. l |-> FlatStep(s, f, i)]
            BY <2>5
        <3> HIDE DEF g
        <3> QED
            BY <2>4, <3>1
    <2> HIDE DEF g
    <2> QED
        BY <2>6
<1> HIDE DEF S
<1>4. 0 .. n \subseteq S
    BY <1>2, <1>3, UpTo
<1>5. n \in S
    BY <1>4
<1>6. c = [i \in 1 .. n |-> FlatStep(s, c, i)]
    BY <1>5 DEF S
<1> QED
    BY <1>1, <1>6

(* The first k pieces, one after the other.                                *)
Flat(s, k) == FlattenSeq(SubSeq(s, 1, k))

LEMMA FlatNone ==
    ASSUME NEW s
    PROVE  Flat(s, 0) = <<>>
<1>1. SubSeq(s, 1, 0) = <<>> /\ Len(<<>>) = 0
    BY SubSeqEmpty, EmptySeq
<1> QED
    BY <1>1 DEF Flat, FlattenSeq

(* What a sequence of sequences is made of.                                *)
LEMMA PieceType ==
    ASSUME NEW R, NEW s \in Seq(Seq(R)), NEW k \in 1 .. Len(s)
    PROVE  Len(s) \in Nat /\ s[k] \in Seq(R) /\ Len(s[k]) \in Nat
<1>1. Len(s) \in Nat
    BY LenProperties
<1>2. s[k] \in Seq(R)
    BY ElementOfSeq
<1>3. Len(s[k]) \in Nat
    BY <1>2, LenProperties
<1> QED
    BY <1>1, <1>2, <1>3

LEMMA FlatOne ==
    ASSUME NEW R, NEW s \in Seq(Seq(R)), NEW k \in 1 .. Len(s)
    PROVE  \E f : /\ \A i \in 1 .. k : f[i] = FlatStep(s, f, i)
                  /\ Flat(s, k) = f[k]
<1> DEFINE t == SubSeq(s, 1, k)
<1>1. Len(s) \in Nat /\ \A i \in 1 .. k : s[i] \in Seq(R)
    BY LenProperties, ElementOfSeq
<1>2. Len(t) = k /\ \A i \in 1 .. k : t[i] = s[i]
    <2>1. /\ Len(t) = IF 1 <= k THEN k - 1 + 1 ELSE 0
          /\ \A i \in 1 .. k - 1 + 1 : t[i] = s[1 + i - 1]
        BY <1>1, SubSeqProperties
    <2>2. k - 1 + 1 = k /\ \A i \in 1 .. k : 1 + i - 1 = i
        BY <1>1
    <2> QED
        BY <1>1, <2>1, <2>2
<1> HIDE DEF t
<1>3. Len(t) \in Nat \ {0}
    BY <1>1, <1>2
<1>4. PICK f : f = [i \in 1 .. Len(t) |-> FlatStep(t, f, i)] /\ FlattenSeq(t) = f[Len(t)]
    BY <1>3, FlattenIs
<1>5. \A i \in 1 .. k : f[i] = FlatStep(s, f, i)
    <2>1. \A i \in 1 .. k : FlatStep(t, f, i) = FlatStep(s, f, i)
        BY <1>2 DEF FlatStep
    <2>2. \A i \in 1 .. k : f[i] = FlatStep(t, f, i)
        BY <1>2, <1>4
    <2> QED
        BY <2>1, <2>2
<1> QED
    BY <1>2, <1>4, <1>5 DEF Flat, t

(* One more piece.                                                         *)
LEMMA FlatNext ==
    ASSUME NEW R, NEW s \in Seq(Seq(R)), NEW j \in 0 .. Len(s), NEW k \in 1 .. Len(s), k = j + 1
    PROVE  Flat(s, k) = Flat(s, j) \o s[k]
<1>1. Len(s) \in Nat /\ s[k] \in Seq(R)
    BY PieceType
<1>2. PICK f : (\A i \in 1 .. k : f[i] = FlatStep(s, f, i)) /\ Flat(s, k) = f[k]
    BY FlatOne
<1>3. f[k] = FlatStep(s, f, k)
    BY <1>1, <1>2
<1>4. CASE j = 0
    <2>1. Flat(s, j) = <<>> /\ k = 1
        BY <1>4, FlatNone
    <2>2. f[k] = s[k]
        BY <1>3, <2>1 DEF FlatStep
    <2> QED
        BY <1>1, <1>2, <2>1, <2>2, ConcatEmptySeq
<1>5. CASE j # 0
    <2>1. j \in 1 .. Len(s) /\ j \in Nat
        BY <1>1, <1>5
    <2>2. PICK g : (\A i \in 1 .. j : g[i] = FlatStep(s, g, i)) /\ Flat(s, j) = g[j]
        BY <2>1, FlatOne
    <2> DEFINE T == {i \in 0 .. j : i = 0 \/ f[i] = g[i]}
    <2>3. 0 \in T
        BY <2>1
    <2>4. ASSUME NEW i \in 0 .. j, NEW l \in 0 .. j, l = i + 1, i \in T
          PROVE  l \in T
        <3>1. l \in 1 .. k /\ l \in 1 .. j /\ l - 1 = i
            BY <1>1, <2>1, <2>4
        <3>2. f[l] = FlatStep(s, f, l) /\ g[l] = FlatStep(s, g, l)
            BY <1>2, <2>2, <3>1
        <3>3. CASE i = 0
            <4>1. l = 1
                BY <2>4, <3>3
            <4> QED
                BY <3>2, <4>1 DEF FlatStep
        <3>4. CASE i # 0
            <4>1. l # 1 /\ f[i] = g[i]
                BY <2>4, <3>1, <3>4
            <4>2. f[l] = f[i] \o s[l] /\ g[l] = g[i] \o s[l]
                BY <3>1, <3>2, <4>1 DEF FlatStep
            <4> QED
                BY <4>1, <4>2
        <3> QED
            BY <3>3, <3>4
    <2> HIDE DEF T
    <2>5. 0 .. j \subseteq T
        BY <2>1, <2>3, <2>4, UpTo
    <2>6. f[j] = g[j]
        <3>1. j \in T
            BY <2>1, <2>5
        <3> QED
            BY <2>1, <3>1 DEF T
    <2>7. k - 1 = j /\ k # 1
        BY <2>1
    <2>8. f[k] = f[j] \o s[k]
        BY <1>3, <2>7 DEF FlatStep
    <2> QED
        BY <1>2, <2>2, <2>6, <2>8
<1> QED
    BY <1>4, <1>5

LEMMA FlatType ==
    ASSUME NEW R, NEW s \in Seq(Seq(R)), NEW k \in 0 .. Len(s)
    PROVE  Flat(s, k) \in Seq(R)
<1> DEFINE S == {i \in 0 .. k : Flat(s, i) \in Seq(R)}
<1>1. Len(s) \in Nat
    BY LenProperties
<1>2. 0 \in S
    <2>1. Flat(s, 0) \in Seq(R)
        BY FlatNone, EmptySeq
    <2> QED
        BY <1>1, <2>1
<1>3. ASSUME NEW i \in 0 .. k, NEW l \in 0 .. k, l = i + 1, i \in S
      PROVE  l \in S
    <2>1. i \in 0 .. Len(s) /\ l \in 1 .. Len(s)
        BY <1>1, <1>3
    <2>2. Flat(s, l) = Flat(s, i) \o s[l] /\ s[l] \in Seq(R)
        BY <1>3, <2>1, FlatNext, PieceType
    <2>3. Flat(s, i) \in Seq(R)
        BY <1>3
    <2>4. Flat(s, i) \o s[l] \in Seq(R)
        BY <2>2, <2>3, ConcatProperties
    <2> QED
        BY <2>2, <2>4
<1> HIDE DEF S
<1>4. 0 .. k \subseteq S
    <2>1. k \in Nat
        BY <1>1
    <2> QED
        BY <1>2, <1>3, <2>1, UpTo
<1>5. k \in S
    BY <1>4
<1> QED
    BY <1>5 DEF S

LEMMA FlatAll ==
    ASSUME NEW R, NEW s \in Seq(Seq(R))
    PROVE  FlattenSeq(s) = Flat(s, Len(s))
    BY SubSeqFull DEF Flat

(* Where the pieces are: the k-th starts after the ones before it, and     *)
(* what follows does not move it.                                          *)
LEMMA FlatLengths ==
    ASSUME NEW R, NEW s \in Seq(Seq(R)), NEW j \in 0 .. Len(s), NEW k \in 1 .. Len(s), k = j + 1
    PROVE  /\ Len(Flat(s, j)) \in Nat
           /\ Len(Flat(s, k)) = Len(Flat(s, j)) + Len(s[k])
           /\ \A x \in 1 .. Len(Flat(s, j)) : Flat(s, k)[x] = Flat(s, j)[x]
           /\ \A x \in 1 .. Len(s[k]) : Flat(s, k)[Len(Flat(s, j)) + x] = s[k][x]
<1> DEFINE a == Flat(s, j)
           b == s[k]
<1>1. a \in Seq(R) /\ b \in Seq(R)
    BY FlatType, PieceType
<1>2. Len(a) \in Nat /\ Len(b) \in Nat
    BY <1>1, LenProperties
<1>3. Flat(s, k) = a \o b
    BY FlatNext
<1> HIDE DEF a, b
<1>4. /\ Len(a \o b) = Len(a) + Len(b)
      /\ \A x \in 1 .. Len(a) + Len(b) : (a \o b)[x] = IF x <= Len(a) THEN a[x] ELSE b[x - Len(a)]
    BY <1>1, ConcatProperties
<1>5. \A x \in 1 .. Len(a) : x \in 1 .. Len(a) + Len(b) /\ x <= Len(a)
    BY <1>2
<1>6. \A x \in 1 .. Len(b) :
          Len(a) + x \in 1 .. Len(a) + Len(b) /\ ~(Len(a) + x <= Len(a)) /\ Len(a) + x - Len(a) = x
    BY <1>2
<1>7. /\ Len(a) \in Nat
      /\ Len(a \o b) = Len(a) + Len(b)
      /\ \A x \in 1 .. Len(a) : (a \o b)[x] = a[x]
      /\ \A x \in 1 .. Len(b) : (a \o b)[Len(a) + x] = b[x]
    BY <1>2, <1>4, <1>5, <1>6
<1> QED
    BY <1>3, <1>7 DEF a, b

(* What is there stays at its place when pieces follow.                    *)
LEMMA FlatGrows ==
    ASSUME NEW R, NEW s \in Seq(Seq(R)), NEW m \in 0 .. Len(s), NEW k \in 0 .. m
    PROVE  /\ Len(Flat(s, k)) \in Nat
           /\ Len(Flat(s, m)) \in Nat
           /\ Len(Flat(s, k)) <= Len(Flat(s, m))
           /\ \A x \in 1 .. Len(Flat(s, k)) : Flat(s, m)[x] = Flat(s, k)[x]
<1> DEFINE Same(i) == /\ Len(Flat(s, k)) <= Len(Flat(s, i))
                      /\ \A x \in 1 .. Len(Flat(s, k)) : Flat(s, i)[x] = Flat(s, k)[x]
           S == {i \in 0 .. m : i >= k => Same(i)}
<1>1. Len(s) \in Nat /\ m \in Nat /\ k \in 0 .. Len(s)
    BY LenProperties
<1>2. \A i \in 0 .. Len(s) : Flat(s, i) \in Seq(R) /\ Len(Flat(s, i)) \in Nat
    BY FlatType, LenProperties
<1>3. Same(k)
    BY <1>1, <1>2
<1>4. 0 \in S
    <2>1. 0 >= k => k = 0
        BY <1>1
    <2> QED
        BY <1>1, <1>3, <2>1
<1>5. ASSUME NEW i \in 0 .. m, NEW l \in 0 .. m, l = i + 1, i \in S
      PROVE  l \in S
    <2> SUFFICES ASSUME l >= k, l # k
                 PROVE  Same(l)
        BY <1>3
    <2>1. i \in 0 .. Len(s) /\ l \in 1 .. Len(s) /\ i >= k
        BY <1>1, <1>5
    <2>2. /\ Len(Flat(s, l)) = Len(Flat(s, i)) + Len(s[l])
          /\ \A x \in 1 .. Len(Flat(s, i)) : Flat(s, l)[x] = Flat(s, i)[x]
        BY <1>5, <2>1, FlatLengths
    <2>3. Same(i)
        BY <1>5, <2>1
    <2>4. Len(s[l]) \in Nat /\ Len(Flat(s, i)) \in Nat /\ Len(Flat(s, k)) \in Nat
        BY <1>1, <1>2, <2>1, PieceType
    <2>5. \A x \in 1 .. Len(Flat(s, k)) : x \in 1 .. Len(Flat(s, i))
        BY <2>3, <2>4
    <2>6. Len(Flat(s, k)) <= Len(Flat(s, l))
        BY <2>2, <2>3, <2>4
    <2> QED
        BY <2>2, <2>3, <2>5, <2>6
<1> HIDE DEF S
<1>6. 0 .. m \subseteq S
    BY <1>1, <1>4, <1>5, UpTo
<1>7. m \in S /\ m >= k
    BY <1>1, <1>6
<1> QED
    BY <1>1, <1>2, <1>7 DEF S

(* The k-th piece, among m of them, starts after the ones before it.       *)
LEMMA FlatPiece ==
    ASSUME NEW R, NEW s \in Seq(Seq(R)), NEW m \in 1 .. Len(s), NEW k \in 1 .. m,
           NEW j \in 0 .. m, k = j + 1, NEW x \in 1 .. Len(s[k])
    PROVE  /\ Flat(s, m)[Len(Flat(s, j)) + x] = s[k][x]
           /\ Len(Flat(s, j)) + x \in 1 .. Len(Flat(s, m))
<1>1. Len(s) \in Nat /\ k \in 1 .. Len(s) /\ j \in 0 .. Len(s) /\ k \in 0 .. m /\ m \in 0 .. Len(s)
    BY LenProperties
<1> DEFINE p == Len(Flat(s, j)) + x
<1>2. Len(s[k]) \in Nat
    BY <1>1, PieceType
<1>3. /\ Len(Flat(s, j)) \in Nat
      /\ Len(Flat(s, k)) = Len(Flat(s, j)) + Len(s[k])
      /\ Flat(s, k)[p] = s[k][x]
    BY <1>1, FlatLengths
<1>4. /\ Len(Flat(s, m)) \in Nat
      /\ Len(Flat(s, k)) <= Len(Flat(s, m))
      /\ \A y \in 1 .. Len(Flat(s, k)) : Flat(s, m)[y] = Flat(s, k)[y]
    BY <1>1, FlatGrows
<1>5. p \in 1 .. Len(Flat(s, k)) /\ p \in 1 .. Len(Flat(s, m))
    <2> DEFINE a == Len(Flat(s, j))
               b == Len(Flat(s, k))
               c == Len(Flat(s, m))
    <2>1. a \in Nat /\ b = a + Len(s[k]) /\ c \in Nat /\ b <= c
        BY <1>3, <1>4
    <2> HIDE DEF a, b, c
    <2>2. a + x \in 1 .. b /\ a + x \in 1 .. c
        BY <1>2, <2>1
    <2> QED
        BY <2>2 DEF a, b, c
<1> HIDE DEF p
<1>6. Flat(s, m)[p] = s[k][x]
    BY <1>3, <1>4, <1>5
<1> QED
    BY <1>5, <1>6 DEF p
------------------------------------------------------------------------------
(* An advertisement: each field after a byte with its length.              *)
Pieces(fields) == [k \in DOMAIN fields |-> <<Len(fields[k])>> \o fields[k]]

(* How many bytes the first k fields take.                                 *)
Off(fields, k) == Len(Flat(Pieces(fields), k))

LEMMA PiecesType ==
    ASSUME NEW fields \in Seq(Seq(Nat))
    PROVE  /\ Len(fields) \in Nat
           /\ Pieces(fields) \in Seq(Seq(Nat))
           /\ Len(Pieces(fields)) = Len(fields)
           /\ \A k \in 1 .. Len(fields) :
                  /\ fields[k] \in Seq(Nat)
                  /\ Len(fields[k]) \in Nat
                  /\ Pieces(fields)[k] = <<Len(fields[k])>> \o fields[k]
                  /\ Len(Pieces(fields)[k]) = Len(fields[k]) + 1
                  /\ Pieces(fields)[k][1] = Len(fields[k])
                  /\ \A x \in 1 .. Len(fields[k]) : Pieces(fields)[k][x + 1] = fields[k][x]
<1>1. Len(fields) \in Nat /\ DOMAIN fields = 1 .. Len(fields)
    BY LenProperties
<1>2. ASSUME NEW k \in 1 .. Len(fields)
      PROVE  /\ fields[k] \in Seq(Nat)
             /\ Len(fields[k]) \in Nat
             /\ Pieces(fields)[k] = <<Len(fields[k])>> \o fields[k]
             /\ Pieces(fields)[k] \in Seq(Nat)
             /\ Len(Pieces(fields)[k]) = Len(fields[k]) + 1
             /\ Pieces(fields)[k][1] = Len(fields[k])
             /\ \A x \in 1 .. Len(fields[k]) : Pieces(fields)[k][x + 1] = fields[k][x]
    <2> DEFINE t == fields[k]
               l == <<Len(t)>>
    <2>1. t \in Seq(Nat) /\ Len(t) \in Nat
        BY PieceType
    <2>2. Pieces(fields)[k] = l \o t
        BY <1>1 DEF Pieces
    <2> HIDE DEF t
    <2>3. l \in Seq(Nat) /\ Len(l) = 1 /\ l[1] = Len(t)
        BY <2>1
    <2> HIDE DEF l
    <2>4. /\ l \o t \in Seq(Nat)
          /\ Len(l \o t) = 1 + Len(t)
          /\ \A i \in 1 .. 1 + Len(t) : (l \o t)[i] = IF i <= 1 THEN l[i] ELSE t[i - 1]
        <3>1. /\ l \o t \in Seq(Nat)
              /\ Len(l \o t) = Len(l) + Len(t)
              /\ \A i \in 1 .. Len(l) + Len(t) :
                     (l \o t)[i] = IF i <= Len(l) THEN l[i] ELSE t[i - Len(l)]
            BY <2>1, <2>3, ConcatProperties
        <3> QED
            BY <2>3, <3>1
    <2>5. (l \o t)[1] = Len(t)
        BY <2>1, <2>3, <2>4
    <2>6. \A x \in 1 .. Len(t) : x + 1 \in 1 .. 1 + Len(t) /\ ~(x + 1 <= 1) /\ x + 1 - 1 = x
        BY <2>1
    <2>7. \A x \in 1 .. Len(t) : (l \o t)[x + 1] = t[x]
        BY <2>4, <2>6
    <2>8. Len(l \o t) = Len(t) + 1
        BY <2>1, <2>4
    <2>9. l = <<Len(t)>>
        BY DEF l
    <2> QED
        BY <2>1, <2>2, <2>4, <2>5, <2>7, <2>8, <2>9 DEF t
<1>3. Pieces(fields) \in Seq(Seq(Nat)) /\ Len(Pieces(fields)) = Len(fields)
    <2>1. Pieces(fields) = [k \in 1 .. Len(fields) |-> Pieces(fields)[k]]
        BY <1>1 DEF Pieces
    <2>2. Pieces(fields) \in [1 .. Len(fields) -> Seq(Nat)]
        BY <1>2, <2>1
    <2> QED
        BY <1>1, <2>1, <2>2, SeqDef
<1> QED
    BY <1>1, <1>2, <1>3

(* The length of the k-th field is after the first j fields, and then the  *)
(* field.                                                                  *)
LEMMA Offsets ==
    ASSUME NEW fields \in Seq(Seq(Nat)), NEW j \in 0 .. Len(fields), NEW k \in 1 .. Len(fields), k = j + 1
    PROVE  /\ Off(fields, j) \in Nat
           /\ Len(fields[k]) \in Nat
           /\ Off(fields, k) = Off(fields, j) + Len(fields[k]) + 1
           /\ Off(fields, k) <= Off(fields, Len(fields))
           /\ Flat(Pieces(fields), Len(fields))[Off(fields, j) + 1] = Len(fields[k])
           /\ \A x \in 1 .. Len(fields[k]) :
                 Flat(Pieces(fields), Len(fields))[Off(fields, j) + 1 + x] = fields[k][x]
<1> DEFINE s == Pieces(fields)
           n == Len(fields)
           a == Off(fields, j)
           len == Len(fields[k])
           all == Flat(s, n)
<1>1. s \in Seq(Seq(Nat)) /\ Len(s) = n /\ n \in Nat
    BY PiecesType
<1>2. /\ len \in Nat /\ Len(s[k]) = len + 1 /\ s[k][1] = len
      /\ \A x \in 1 .. len : s[k][x + 1] = fields[k][x]
    BY PiecesType
<1>3. a \in Nat /\ Off(fields, k) = a + Len(s[k])
    <2> HIDE DEF s
    <2>1. Len(Flat(s, j)) \in Nat /\ Len(Flat(s, k)) = Len(Flat(s, j)) + Len(s[k])
        BY <1>1, FlatLengths
    <2> QED
        BY <2>1 DEF s, Off
<1>4. Off(fields, k) <= Off(fields, n)
    <2> HIDE DEF s
    <2>1. n \in 0 .. Len(s) /\ k \in 0 .. n
        BY <1>1
    <2>2. Len(Flat(s, k)) <= Len(Flat(s, n))
        BY <1>1, <2>1, FlatGrows
    <2> QED
        BY <2>2 DEF s, Off
<1>5. \A x \in 1 .. Len(s[k]) : all[a + x] = s[k][x]
    <2> HIDE DEF s
    <2>1. n \in 1 .. Len(s) /\ k \in 1 .. n /\ j \in 0 .. n
        BY <1>1
    <2>2. \A x \in 1 .. Len(s[k]) : Flat(s, n)[Len(Flat(s, j)) + x] = s[k][x]
        BY <1>1, <2>1, FlatPiece
    <2> QED
        BY <2>2 DEF s, Off
<1> HIDE DEF s, a, all
<1>6. Off(fields, k) = a + len + 1
    BY <1>2, <1>3
<1>7. all[a + 1] = len
    <2>1. 1 \in 1 .. Len(s[k])
        BY <1>2
    <2> QED
        BY <1>2, <1>5, <2>1
<1>8. ASSUME NEW x \in 1 .. len
      PROVE  all[a + 1 + x] = fields[k][x]
    <2>1. x + 1 \in 1 .. Len(s[k]) /\ a + 1 + x = a + (x + 1)
        BY <1>2, <1>3
    <2>2. all[a + (x + 1)] = s[k][x + 1]
        BY <1>5, <2>1
    <2> QED
        BY <1>2, <2>1, <2>2
<1> QED
    BY <1>2, <1>3, <1>4, <1>6, <1>7, <1>8 DEF s, a, all

LEMMA OffZero ==
    ASSUME NEW fields
    PROVE  Off(fields, 0) = 0
    BY FlatNone, EmptySeq DEF Off

LEMMA OffNat ==
    ASSUME NEW fields \in Seq(Seq(Nat)), NEW k \in 0 .. Len(fields)
    PROVE  Off(fields, k) \in Nat
<1>1. Pieces(fields) \in Seq(Seq(Nat)) /\ Len(Pieces(fields)) = Len(fields)
    BY PiecesType
<1>2. Flat(Pieces(fields), k) \in Seq(Nat)
    BY <1>1, FlatType
<1> QED
    BY <1>2, LenProperties DEF Off

(* The first fields are encoded in the first pieces.                       *)
LEMMA EncodedPrefix ==
    ASSUME NEW fields \in Seq(Seq(Nat)), NEW k \in 0 .. Len(fields)
    PROVE  Encoded(SubSeq(fields, 1, k)) = Flat(Pieces(fields), k)
<1> DEFINE t == SubSeq(fields, 1, k)
           s == Pieces(fields)
           u == SubSeq(s, 1, k)
<1>1. Len(fields) \in Nat /\ s \in Seq(Seq(Nat)) /\ Len(s) = Len(fields)
    BY PiecesType
<1>2. \A i \in 1 .. k : i \in 1 .. Len(fields) /\ fields[i] \in Seq(Nat) /\ s[i] \in Seq(Nat)
    <2>1. \A i \in 1 .. k : i \in 1 .. Len(fields)
        BY <1>1
    <2>2. \A i \in 1 .. Len(fields) : fields[i] \in Seq(Nat)
        BY PieceType
    <2> HIDE DEF s
    <2>3. \A i \in 1 .. Len(s) : s[i] \in Seq(Nat)
        BY <1>1, PieceType
    <2> QED
        BY <1>1, <2>1, <2>2, <2>3
<1>3. (IF 1 <= k THEN k - 1 + 1 ELSE 0) = k /\ k - 1 + 1 = k /\ \A i \in 1 .. k : 1 + i - 1 = i
    BY <1>1
<1>4. t \in Seq(Seq(Nat)) /\ Len(t) = k /\ \A i \in 1 .. k : t[i] = fields[i]
    <2>1. /\ t \in Seq(Seq(Nat)) /\ Len(t) = IF 1 <= k THEN k - 1 + 1 ELSE 0
          /\ \A i \in 1 .. k - 1 + 1 : t[i] = fields[1 + i - 1]
        BY <1>1, <1>2, SubSeqProperties
    <2> QED
        BY <1>3, <2>1
<1>5. u \in Seq(Seq(Nat)) /\ Len(u) = k /\ \A i \in 1 .. k : u[i] = s[i]
    <2> HIDE DEF s
    <2>1. /\ u \in Seq(Seq(Nat)) /\ Len(u) = IF 1 <= k THEN k - 1 + 1 ELSE 0
          /\ \A i \in 1 .. k - 1 + 1 : u[i] = s[1 + i - 1]
        BY <1>1, <1>2, SubSeqProperties
    <2> QED
        BY <1>3, <2>1
<1> HIDE DEF t, u, s
<1>6. Pieces(t) \in Seq(Seq(Nat)) /\ Len(Pieces(t)) = k
      /\ \A i \in 1 .. k : Pieces(t)[i] = <<Len(t[i])>> \o t[i]
    BY <1>4, PiecesType
<1>7. \A i \in 1 .. k : Pieces(t)[i] = u[i]
    <2>1. \A i \in 1 .. k : s[i] = <<Len(fields[i])>> \o fields[i]
        BY <1>2, PiecesType DEF s
    <2> QED
        BY <1>4, <1>5, <1>6, <2>1
<1>8. Pieces(t) = u
    BY <1>5, <1>6, <1>7, SeqEqual
<1> QED
    BY <1>8 DEF Encoded, Flat, Pieces, t, u, s
------------------------------------------------------------------------------
(* Scan data that holds a number of bytes of an advertisement.             *)
HoldsFields(scan, fields) ==
    /\ IsScan(scan)
    /\ fields \in Seq(Seq(Nat))
    /\ scan.size <= Off(fields, Len(fields))
    /\ \A i \in 1 .. scan.size : scan.buffer[i] = Flat(Pieces(fields), Len(fields))[i]

(* The first k fields were received whole, and none of them is empty.      *)
WholeUpTo(scan, fields, k) ==
    Off(fields, k) <= scan.size /\ \A j \in 1 .. k : fields[j] # <<>>

NoneOf(type, fields, k) == \A j \in 1 .. k : fields[j][1] # type

(* What the search reads at the start of a field.                          *)
LEMMA ReadsField ==
    ASSUME NEW scan, NEW fields, HoldsFields(scan, fields),
           NEW j \in 0 .. Len(fields), NEW k \in 1 .. Len(fields), k = j + 1
    PROVE  /\ Off(fields, j) \in Nat
           /\ Len(fields[k]) \in Nat
           /\ Off(fields, k) = Off(fields, j) + Len(fields[k]) + 1
           /\ Off(fields, j) < scan.size => At(scan, Off(fields, j)) = Len(fields[k])
           /\ \A x \in 1 .. Len(fields[k]) :
                  Off(fields, k) <= scan.size
                      => scan.buffer[Off(fields, j) + 1 + x] = fields[k][x]
<1> DEFINE a == Off(fields, j)
           len == Len(fields[k])
           all == Flat(Pieces(fields), Len(fields))
           size == scan.size
<1>1. fields \in Seq(Seq(Nat)) /\ size \in Nat /\ \A i \in 1 .. size : scan.buffer[i] = all[i]
    BY DEF HoldsFields, IsScan
<1>2. /\ a \in Nat /\ len \in Nat /\ Off(fields, k) = a + len + 1
      /\ all[a + 1] = len
      /\ \A x \in 1 .. len : all[a + 1 + x] = fields[k][x]
    BY <1>1, Offsets
<1> HIDE DEF a, len, all, size
<1>3. ASSUME a < size
      PROVE  scan.buffer[a + 1] = len
    <2>1. a + 1 \in 1 .. size
        BY <1>1, <1>2, <1>3
    <2> QED
        BY <1>1, <1>2, <2>1
<1>4. ASSUME NEW x \in 1 .. len, a + len + 1 <= size
      PROVE  scan.buffer[a + 1 + x] = fields[k][x]
    <2>1. a + 1 + x \in 1 .. size
        BY <1>1, <1>2, <1>4
    <2> QED
        BY <1>1, <1>2, <2>1
<1> QED
    BY <1>2, <1>3, <1>4 DEF a, len, size, At

(* A whole field that is not empty: the search stops there or goes on      *)
(* after it.                                                               *)
LEMMA FindPasses ==
    ASSUME NEW scan, NEW fields, HoldsFields(scan, fields), NEW type,
           NEW f, IsFind(scan, type, f),
           NEW j \in 0 .. Len(fields), NEW k \in 1 .. Len(fields), k = j + 1,
           WholeUpTo(scan, fields, k)
    PROVE  f[Off(fields, j)] = IF fields[k][1] = type
                               THEN Ad(Len(fields[k]) - 1, Off(fields, j) + 2)
                               ELSE f[Off(fields, k)]
<1> DEFINE a == Off(fields, j)
           b == Off(fields, k)
           len == Len(fields[k])
           size == scan.size
<1>1. /\ a \in Nat /\ len \in Nat /\ b = a + len + 1
      /\ a < size => At(scan, a) = len
      /\ \A x \in 1 .. len : b <= size => scan.buffer[a + 1 + x] = fields[k][x]
    BY ReadsField
<1>2. size \in Nat /\ fields \in Seq(Seq(Nat)) /\ b <= size
    BY DEF HoldsFields, IsScan, WholeUpTo
<1>3. len # 0
    <2>1. fields[k] # <<>> /\ fields[k] \in Seq(Nat)
        <3>1. Len(fields) \in Nat /\ k \in 1 .. k
            BY <1>2, PiecesType
        <3> QED
            BY <1>2, <3>1, PiecesType DEF WholeUpTo
    <2> QED
        BY <2>1, EmptySeq
<1>4. f = [i \in 0 .. size |-> FindStep(scan, type, f, i)]
    BY DEF IsFind
<1> HIDE DEF a, b, len, size
<1>5. a \in 0 .. size /\ ~(a >= size - 1) /\ ~(len = 0 \/ a + 1 + len > size) /\ a < size /\ 1 \in 1 .. len
    BY <1>1, <1>2, <1>3
<1>6. f[a] = FindStep(scan, type, f, a) /\ At(scan, a) = len
    BY <1>1, <1>4, <1>5
<1>7. At(scan, a + 1) = fields[k][1]
    BY <1>1, <1>2, <1>5 DEF At
<1>8. FindStep(scan, type, f, a) = IF fields[k][1] = type THEN Ad(len - 1, a + 2) ELSE f[a + len + 1]
    BY <1>5, <1>6, <1>7 DEF FindStep, size
<1> QED
    BY <1>1, <1>6, <1>8 DEF a, b, len

(* Past whole fields of other types.                                       *)
LEMMA FindReaches ==
    ASSUME NEW scan, NEW fields, HoldsFields(scan, fields), NEW type,
           NEW f, IsFind(scan, type, f),
           NEW m \in 0 .. Len(fields), WholeUpTo(scan, fields, m), NoneOf(type, fields, m)
    PROVE  f[0] = f[Off(fields, m)]
<1> DEFINE S == {k \in 0 .. m : f[0] = f[Off(fields, k)]}
<1>1. fields \in Seq(Seq(Nat)) /\ Len(fields) \in Nat
    BY PiecesType DEF HoldsFields
<1>2. m \in Nat /\ scan.size \in Nat
    BY <1>1 DEF HoldsFields, IsScan
<1>3. 0 \in S
    BY <1>2, OffZero
<1>4. ASSUME NEW j \in 0 .. m, NEW k \in 0 .. m, k = j + 1, j \in S
      PROVE  k \in S
    <2>1. j \in 0 .. Len(fields) /\ k \in 1 .. Len(fields) /\ k \in 1 .. m
        BY <1>1, <1>4
    <2>2. WholeUpTo(scan, fields, k)
        <3>1. Off(fields, k) <= Off(fields, m)
            <4>1. Pieces(fields) \in Seq(Seq(Nat)) /\ Len(Pieces(fields)) = Len(fields)
                BY <1>1, PiecesType
            <4> QED
                BY <4>1, FlatGrows DEF Off
        <3>2. Off(fields, k) \in Nat /\ Off(fields, m) \in Nat
            BY <1>1, <2>1, OffNat
        <3>3. Off(fields, k) <= scan.size
            BY <1>2, <3>1, <3>2 DEF WholeUpTo
        <3>4. \A i \in 1 .. k : i \in 1 .. m
            BY <1>2
        <3> QED
            BY <3>3, <3>4 DEF WholeUpTo
    <2>3. fields[k][1] # type
        BY <2>1 DEF NoneOf
    <2>4. f[Off(fields, j)] = f[Off(fields, k)]
        BY <1>4, <2>1, <2>2, <2>3, FindPasses
    <2> QED
        BY <1>4, <2>4
<1> HIDE DEF S
<1>5. 0 .. m \subseteq S
    BY <1>2, <1>3, <1>4, UpTo
<1>6. m \in S
    BY <1>2, <1>5
<1> QED
    BY <1>6 DEF S

(* It ends where the next field is empty, or was not received whole.       *)
LEMMA FindEnds ==
    ASSUME NEW scan, NEW fields, HoldsFields(scan, fields), NEW type,
           NEW f, IsFind(scan, type, f),
           NEW m \in 0 .. Len(fields), WholeUpTo(scan, fields, m),
           m = Len(fields) \/ ~WholeUpTo(scan, fields, m + 1)
    PROVE  f[Off(fields, m)] = NoAd
<1> DEFINE a == Off(fields, m)
           size == scan.size
<1>1. fields \in Seq(Seq(Nat)) /\ Len(fields) \in Nat
    BY PiecesType DEF HoldsFields
<1>2. m \in Nat /\ size \in Nat /\ a \in Nat /\ a <= size /\ size <= Off(fields, Len(fields))
    BY <1>1, OffNat DEF HoldsFields, IsScan, WholeUpTo
<1>3. f[a] = FindStep(scan, type, f, a)
    BY <1>2 DEF IsFind
<1>4. CASE a >= size - 1
    BY <1>3, <1>4 DEF FindStep
<1>5. CASE ~(a >= size - 1)
    <2>1. m # Len(fields)
        BY <1>2, <1>5
    <2>2. PICK k \in 1 .. Len(fields) : k = m + 1
        BY <1>1, <1>2, <2>1
    <2>3. ~WholeUpTo(scan, fields, k)
        BY <2>1, <2>2
    <2> DEFINE len == Len(fields[k])
    <2>4. len \in Nat /\ Off(fields, k) = a + len + 1 /\ (a < size => At(scan, a) = len)
        BY <2>2, ReadsField
    <2>5. At(scan, a) = len
        BY <1>2, <1>5, <2>4
    <2>6. Off(fields, k) > size \/ fields[k] = <<>>
        <3> SUFFICES ASSUME Off(fields, k) <= size, fields[k] # <<>>
                     PROVE  FALSE
            BY <1>2, <2>4
        <3>1. \A j \in 1 .. k : j = k \/ j \in 1 .. m
            BY <1>2, <2>2
        <3>2. \A j \in 1 .. k : fields[j] # <<>>
            BY <3>1 DEF WholeUpTo
        <3> QED
            BY <2>3, <3>2 DEF WholeUpTo
    <2>7. fields[k] = <<>> => len = 0
        BY EmptySeq
    <2> HIDE DEF len, a, size
    <2>8. len = 0 \/ a + 1 + len > size
        BY <1>2, <2>4, <2>6, <2>7
    <2>9. FindStep(scan, type, f, a) = NoAd
        BY <2>5, <2>8 DEF FindStep, size
    <2> QED
        BY <1>3, <2>9 DEF a
<1> QED
    BY <1>4, <1>5

(* How far the fields are whole.                                           *)
LEMMA LastWhole ==
    ASSUME NEW scan, NEW fields, HoldsFields(scan, fields)
    PROVE  \E m \in 0 .. Len(fields) :
               /\ WholeUpTo(scan, fields, m)
               /\ m = Len(fields) \/ ~WholeUpTo(scan, fields, m + 1)
<1> DEFINE S == {m \in 0 .. Len(fields) : WholeUpTo(scan, fields, m)}
<1>1. fields \in Seq(Seq(Nat)) /\ Len(fields) \in Nat /\ scan.size \in Nat
    BY PiecesType DEF HoldsFields, IsScan
<1>2. 0 \in S
    <2>1. WholeUpTo(scan, fields, 0)
        BY <1>1, OffZero DEF WholeUpTo
    <2> QED
        BY <1>1, <2>1
<1> SUFFICES ASSUME \A m \in S : m # Len(fields) /\ WholeUpTo(scan, fields, m + 1)
             PROVE  FALSE
    OBVIOUS
<1>3. ASSUME NEW j \in 0 .. Len(fields), NEW k \in 0 .. Len(fields), k = j + 1, j \in S
      PROVE  k \in S
    <2>1. WholeUpTo(scan, fields, j + 1)
        BY <1>3
    <2> QED
        BY <1>3, <2>1
<1> HIDE DEF S
<1>4. 0 .. Len(fields) \subseteq S
    BY <1>1, <1>2, <1>3, UpTo
<1> QED
    BY <1>1, <1>4
------------------------------------------------------------------------------
(* The state is one of the inputs.                                         *)
InputOK ==
    input \in [kind : {"advertisement"}, fields : Seq(Fields), cut : Nat]
        \cup [kind : {"mac"}, bytes : [1 .. MAC_ADDRESS_LENGTH -> AddressBytes]]
        \cup [kind : {"uuid"}, uuid : Custom128 \cup Standard16]
        \cup [kind : {"presence"}, rooms : SUBSET Room]

(* A field that is added keeps it one.                                     *)
LEMMA InputHolds == Spec => []InputOK
<1>1. Init => InputOK
    <2> SUFFICES ASSUME Init
                 PROVE  InputOK
        OBVIOUS
    <2>1. ASSUME NEW cut \in 0 .. MaxCut,
                 input = [kind |-> "advertisement", fields |-> <<>>, cut |-> cut]
          PROVE  InputOK
        <3>1. cut \in Nat /\ <<>> \in Seq(Fields)
            BY ConversionsAssumption, EmptySeq
        <3> QED
            BY <2>1, <3>1 DEF InputOK
    <2>2. ASSUME NEW bytes \in [1 .. MAC_ADDRESS_LENGTH -> AddressBytes],
                 input = [kind |-> "mac", bytes |-> bytes]
          PROVE  InputOK
        BY <2>2 DEF InputOK
    <2>3. ASSUME NEW u \in Custom128 \cup Standard16, input = [kind |-> "uuid", uuid |-> u]
          PROVE  InputOK
        BY <2>3 DEF InputOK
    <2>4. ASSUME NEW rooms \in SUBSET Room, input = [kind |-> "presence", rooms |-> rooms]
          PROVE  InputOK
        BY <2>4 DEF InputOK
    <2> QED
        BY <2>1, <2>2, <2>3, <2>4 DEF Init
<1>2. InputOK /\ [Next]_input => InputOK'
    <2> SUFFICES ASSUME InputOK, [Next]_input
                 PROVE  InputOK'
        OBVIOUS
    <2>1. CASE AddField
        <3>1. PICK field \in Fields : input' = [input EXCEPT !.fields = Append(@, field)]
            BY <2>1 DEF AddField
        <3>2. input \in [kind : {"advertisement"}, fields : Seq(Fields), cut : Nat]
            BY <2>1 DEF AddField, InputOK
        <3>3. Append(input.fields, field) \in Seq(Fields)
            BY <3>2, AppendProperties
        <3>4. input' \in [kind : {"advertisement"}, fields : Seq(Fields), cut : Nat]
            BY <3>1, <3>2, <3>3
        <3> QED
            BY <3>4 DEF InputOK
    <2>2. CASE UNCHANGED input
        BY <2>2 DEF InputOK
    <2> QED
        BY <2>1, <2>2 DEF Next
<1> QED
    BY <1>1, <1>2, PTL DEF Spec

LEMMA AdvertisementInput ==
    ASSUME InputOK, input.kind = "advertisement"
    PROVE  input.fields \in Seq(Fields) /\ input.cut \in Nat
    BY DEF InputOK

(* What fields hold.                                                       *)
LEMMA FieldsAreBytes == Fields \subseteq Seq(Nat)
<1> SUFFICES ASSUME NEW field \in Fields
             PROVE  field \in Seq(Nat)
    OBVIOUS
<1>1. CASE field = <<>>
    BY <1>1, EmptySeq
<1>2. ASSUME NEW type \in AdvTypes, NEW data \in Payloads, field = <<type>> \o data
      PROVE  field \in Seq(Nat)
    <2>1. type \in Nat
        BY DEF AdvTypes, ToSet, serviceUuidListTypes, IncompleteList16BitServiceUuids,
               CompleteList16BitServiceUuids, ShortenedLocalName, CompleteLocalName
    <2>2. data \in Seq(Byte) /\ Byte \subseteq Nat
        BY ConversionsAssumption DEF Byte
    <2>3. data \in Seq(Nat)
        BY <2>2, SeqMonotonic
    <2>4. <<type>> \in Seq(Nat)
        BY <2>1
    <2> QED
        BY <1>2, <2>3, <2>4, ConcatProperties
<1>3. field = <<>> \/ \E type \in AdvTypes, data \in Payloads : field = <<type>> \o data
    BY DEF Fields
<1> QED
    BY <1>1, <1>2, <1>3

(* An advertisement is its pieces, one after the other.                    *)
LEMMA EncodedIs ==
    ASSUME NEW fields \in Seq(Seq(Nat))
    PROVE  /\ Encoded(fields) = Flat(Pieces(fields), Len(fields))
           /\ Encoded(fields) \in Seq(Nat)
           /\ Len(Encoded(fields)) = Off(fields, Len(fields))
<1>1. Len(fields) \in Nat /\ Pieces(fields) \in Seq(Seq(Nat)) /\ Len(Pieces(fields)) = Len(fields)
    BY PiecesType
<1>2. SubSeq(fields, 1, Len(fields)) = fields
    BY SubSeqFull
<1>3. Encoded(fields) = Flat(Pieces(fields), Len(fields))
    <2>1. Len(fields) \in 0 .. Len(fields)
        BY <1>1
    <2>2. Encoded(SubSeq(fields, 1, Len(fields))) = Flat(Pieces(fields), Len(fields))
        BY <2>1, EncodedPrefix
    <2> QED
        BY <1>2, <2>2
<1>4. Flat(Pieces(fields), Len(fields)) \in Seq(Nat)
    BY <1>1, FlatType
<1> QED
    BY <1>3, <1>4 DEF Off

(* What is scanned holds the bytes of the advertisement that came in.      *)
LEMMA ScanHolds ==
    ASSUME InputOK, input.kind = "advertisement"
    PROVE  /\ HoldsFields(Scan, input.fields)
           /\ Scan.buffer \in Seq(Nat)
           /\ Len(Scan.buffer) = Scan.size + 1
<1> DEFINE fields == input.fields
           cut    == input.cut
           bytes  == Encoded(fields)
           size   == IF Len(bytes) > cut THEN Len(bytes) - cut ELSE 0
           front  == SubSeq(bytes, 1, size)
<1>1. fields \in Seq(Seq(Nat)) /\ cut \in Nat
    BY AdvertisementInput, FieldsAreBytes, SeqMonotonic
<1>2. bytes \in Seq(Nat) /\ Len(bytes) \in Nat /\ Len(bytes) = Off(fields, Len(fields))
      /\ bytes = Flat(Pieces(fields), Len(fields))
    BY <1>1, EncodedIs, LenProperties
<1>3. Scan.buffer = Append(front, 0) /\ Scan.size = size
    BY DEF Scan
<1> HIDE DEF fields, cut, bytes
<1>4. size \in 0 .. Len(bytes) /\ size \in Nat
    BY <1>1, <1>2
<1> HIDE DEF size
<1>5. front \in Seq(Nat) /\ Len(front) = size /\ \A i \in 1 .. size : front[i] = bytes[i]
    <2>1. \A i \in 1 .. size : bytes[i] \in Nat
        BY <1>2, <1>4, ElementOfSeq
    <2>2. /\ front \in Seq(Nat) /\ Len(front) = IF 1 <= size THEN size - 1 + 1 ELSE 0
          /\ \A i \in 1 .. size - 1 + 1 : front[i] = bytes[1 + i - 1]
        BY <1>4, <2>1, SubSeqProperties
    <2>3. (IF 1 <= size THEN size - 1 + 1 ELSE 0) = size /\ size - 1 + 1 = size
          /\ \A i \in 1 .. size : 1 + i - 1 = i
        BY <1>4
    <2> QED
        BY <2>2, <2>3
<1> HIDE DEF front
<1> DEFINE buffer == Append(front, 0)
<1>6. /\ buffer \in Seq(Nat) /\ Len(buffer) = size + 1
      /\ \A i \in 1 .. size : buffer[i] = bytes[i]
    BY <1>5, AppendProperties
<1> HIDE DEF buffer
<1>7. \A i \in 0 .. size : buffer[i + 1] \in Nat
    <2>1. \A i \in 1 .. size + 1 : buffer[i] \in Nat
        BY <1>6, ElementOfSeq
    <2>2. \A i \in 0 .. size : i + 1 \in 1 .. size + 1
        BY <1>4
    <2> QED
        BY <2>1, <2>2
<1>8. Scan.buffer = buffer
    BY <1>3 DEF buffer
<1>9. HoldsFields(Scan, fields)
    <2>1. IsScan(Scan)
        BY <1>3, <1>4, <1>7, <1>8 DEF IsScan, At
    <2>2. Scan.size <= Off(fields, Len(fields))
        BY <1>2, <1>3, <1>4
    <2>3. \A i \in 1 .. Scan.size : Scan.buffer[i] = Flat(Pieces(fields), Len(fields))[i]
        BY <1>2, <1>3, <1>6, <1>8
    <2> QED
        BY <1>1, <2>1, <2>2, <2>3 DEF HoldsFields
<1> QED
    BY <1>3, <1>6, <1>8, <1>9 DEF fields
(* What counts as received whole is the first fields, up to some number.   *)
LEMMA WholeIs ==
    ASSUME InputOK, input.kind = "advertisement", NEW k
    PROVE  k \in Whole <=> k \in 1 .. Len(input.fields) /\ WholeUpTo(Scan, input.fields, k)
<1> DEFINE fields == input.fields
<1>1. fields \in Seq(Seq(Nat))
    BY AdvertisementInput, FieldsAreBytes, SeqMonotonic
<1>2. DOMAIN fields = 1 .. Len(fields) /\ Len(fields) \in Nat
    BY <1>1, LenProperties
<1> HIDE DEF fields
<1>3. ASSUME k \in 1 .. Len(fields)
      PROVE  Len(Encoded(SubSeq(fields, 1, k))) = Off(fields, k)
    <2>1. k \in 0 .. Len(fields)
        BY <1>2, <1>3
    <2> QED
        BY <1>1, <2>1, EncodedPrefix DEF Off
<1>4. k \in Whole <=> /\ k \in DOMAIN fields
                      /\ Len(Encoded(SubSeq(fields, 1, k))) <= Scan.size
                      /\ \A j \in 1 .. k : fields[j] # <<>>
    BY DEF Whole, fields
<1> QED
    BY <1>2, <1>3, <1>4 DEF WholeUpTo, fields

(* The search finds nothing when no whole field has the type.              *)
LEMMA FindsNothing ==
    ASSUME InputOK, input.kind = "advertisement", NEW type, OfType(type) = {}
    PROVE  findAdvertisementDataType(Scan, type) = NoAd
<1> DEFINE fields == input.fields
<1>1. HoldsFields(Scan, fields)
    BY ScanHolds
<1>2. PICK f : IsFind(Scan, type, f) /\ findAdvertisementDataType(Scan, type) = f[0]
    BY <1>1, FindIs DEF HoldsFields
<1>3. PICK m \in 0 .. Len(fields) : /\ WholeUpTo(Scan, fields, m)
                                    /\ m = Len(fields) \/ ~WholeUpTo(Scan, fields, m + 1)
    BY <1>1, LastWhole
<1>4. fields \in Seq(Seq(Nat)) /\ Len(fields) \in Nat
    BY <1>1, PiecesType DEF HoldsFields
<1>5. NoneOf(type, fields, m)
    <2> SUFFICES ASSUME NEW j \in 1 .. m
                 PROVE  fields[j][1] # type
        BY DEF NoneOf
    <2>1. WholeUpTo(Scan, fields, j)
        <3>1. Off(fields, j) <= Off(fields, m) /\ Off(fields, j) \in Nat /\ Off(fields, m) \in Nat
            <4>1. Pieces(fields) \in Seq(Seq(Nat)) /\ Len(Pieces(fields)) = Len(fields)
                BY <1>4, PiecesType
            <4>2. j \in 0 .. m
                BY <1>4
            <4> QED
                BY <4>1, <4>2, FlatGrows DEF Off
        <3>2. \A i \in 1 .. j : i \in 1 .. m
            BY <1>4
        <3>3. Off(fields, j) <= Scan.size
            BY <1>1, <1>3, <3>1 DEF WholeUpTo, HoldsFields, IsScan
        <3> QED
            BY <1>3, <3>2, <3>3 DEF WholeUpTo
    <2>2. j \in Whole
        <3>1. j \in 1 .. Len(fields)
            BY <1>4
        <3> QED
            BY <2>1, <3>1, WholeIs
    <2> QED
        BY <2>2 DEF OfType
<1> HIDE DEF fields
<1>6. f[0] = f[Off(fields, m)]
    BY <1>1, <1>2, <1>3, <1>5, FindReaches
<1>7. f[Off(fields, m)] = NoAd
    BY <1>1, <1>2, <1>3, FindEnds
<1> QED
    BY <1>2, <1>6, <1>7

(* The search finds the first field of the type.                           *)
LEMMA FindsField ==
    ASSUME InputOK, input.kind = "advertisement", NEW type, OfType(type) # {}
    PROVE  LET ad == findAdvertisementDataType(Scan, type)
           IN  ad # NoAd /\ ad.len \in Nat /\ DataOf(ad) = Tail(First(type))
<1> DEFINE fields == input.fields
<1>1. HoldsFields(Scan, fields)
    BY ScanHolds
<1>2. PICK f : IsFind(Scan, type, f) /\ findAdvertisementDataType(Scan, type) = f[0]
    BY <1>1, FindIs DEF HoldsFields
<1>3. fields \in Seq(Seq(Nat)) /\ Len(fields) \in Nat
    BY <1>1, PiecesType DEF HoldsFields
<1>4. \A k \in OfType(type) :
          k \in 1 .. Len(fields) /\ WholeUpTo(Scan, fields, k) /\ fields[k][1] = type
    BY WholeIs DEF OfType
<1>5. OfType(type) \in SUBSET Nat
    BY <1>3, <1>4
<1>6. PICK k \in OfType(type) : \A j \in OfType(type) : k <= j
    BY <1>5, LeastOf
<1>7. First(type) = fields[k]
    <2>1. \A i \in OfType(type) : (\A j \in OfType(type) : i <= j) => i = k
        BY <1>5, <1>6
    <2>2. (CHOOSE i \in OfType(type) : \A j \in OfType(type) : i <= j) = k
        BY <1>6, <2>1
    <2> QED
        BY <2>2 DEF First
<1>8. PICK m \in 0 .. Len(fields) : k = m + 1
    <2>1. k - 1 \in 0 .. Len(fields) /\ k = (k - 1) + 1
        BY <1>3, <1>4
    <2> QED
        BY <2>1
<1>9. Off(fields, m) <= Off(fields, k) /\ Off(fields, m) \in Nat /\ Off(fields, k) \in Nat
      /\ Len(fields[k]) \in Nat /\ Off(fields, k) = Off(fields, m) + Len(fields[k]) + 1
    <2>1. k \in 1 .. Len(fields)
        BY <1>4
    <2>2. /\ Off(fields, m) \in Nat /\ Len(fields[k]) \in Nat
          /\ Off(fields, k) = Off(fields, m) + Len(fields[k]) + 1
        BY <1>3, <1>8, <2>1, Offsets
    <2> QED
        BY <2>2
<1>10. WholeUpTo(Scan, fields, m) /\ NoneOf(type, fields, m)
    <2>1. \A i \in 1 .. m : i \in 1 .. k /\ i < k /\ i \in 1 .. Len(fields)
        BY <1>3, <1>8
    <2>2. WholeUpTo(Scan, fields, k)
        BY <1>4
    <2>3. Off(fields, m) <= Scan.size
        BY <1>1, <1>9, <2>2 DEF WholeUpTo, HoldsFields, IsScan
    <2>4. WholeUpTo(Scan, fields, m)
        BY <2>1, <2>2, <2>3 DEF WholeUpTo
    <2>5. ASSUME NEW i \in 1 .. m
          PROVE  fields[i][1] # type
        <3>1. WholeUpTo(Scan, fields, i)
            <4>1. Pieces(fields) \in Seq(Seq(Nat)) /\ Len(Pieces(fields)) = Len(fields) /\ i \in 0 .. m
                BY <1>3, PiecesType
            <4>2. Off(fields, i) <= Off(fields, m) /\ Off(fields, i) \in Nat
                BY <4>1, FlatGrows DEF Off
            <4>3. \A j \in 1 .. i : j \in 1 .. m
                BY <1>3
            <4>4. Off(fields, i) <= Scan.size
                BY <1>1, <1>9, <2>3, <4>2 DEF HoldsFields, IsScan
            <4> QED
                BY <2>4, <4>3, <4>4 DEF WholeUpTo
        <3>2. i \in Whole
            BY <2>1, <3>1, WholeIs
        <3>3. i \notin OfType(type)
            BY <1>3, <1>6, <1>8, <2>1
        <3> QED
            BY <3>2, <3>3 DEF OfType
    <2> QED
        BY <2>4, <2>5 DEF NoneOf
<1> DEFINE a   == Off(fields, m)
           len == Len(fields[k])
<1> HIDE DEF fields
<1>11. f[0] = f[a]
    BY <1>1, <1>2, <1>10, FindReaches
<1>12. f[a] = Ad(len - 1, a + 2)
    BY <1>1, <1>2, <1>4, <1>8, FindPasses
<1>13. len # 0 /\ fields[k] # <<>> /\ fields[k] \in Seq(Nat)
    <2>1. k \in 1 .. k /\ k \in 1 .. Len(fields)
        BY <1>3, <1>4
    <2>2. fields[k] # <<>>
        BY <1>4, <2>1 DEF WholeUpTo
    <2>3. fields[k] \in Seq(Nat)
        BY <1>3, <2>1, PiecesType
    <2> QED
        BY <2>2, <2>3, EmptySeq
<1> DEFINE ad == Ad(len - 1, a + 2)
<1>14. ad.len = len - 1 /\ ad.data = a + 2 /\ ad # NoAd
    <2>1. ad.len = len - 1 /\ ad.data = a + 2 /\ NoAd.data = -1
        BY DEF Ad, NoAd
    <2>2. a + 2 # -1
        BY <1>9
    <2> QED
        BY <2>1, <2>2
<1>15. a \in Nat /\ len \in Nat \ {0} /\ Off(fields, k) = a + len + 1
    BY <1>9, <1>13
<1>16. DataOf(ad) = Tail(fields[k])
    <2> DEFINE buffer == Scan.buffer
               t == Tail(fields[k])
               lo == a + 2 + 1
               hi == a + 2 + (len - 1)
               d == SubSeq(buffer, lo, hi)
    <2>1. buffer \in Seq(Nat) /\ Len(buffer) = Scan.size + 1 /\ Scan.size \in Nat
        BY <1>1, ScanHolds DEF HoldsFields, IsScan
    <2>2. a + len + 1 <= Scan.size
        BY <1>4, <1>15 DEF WholeUpTo
    <2>3. \A x \in 1 .. len : buffer[a + 1 + x] = fields[k][x]
        <3>1. k \in 1 .. Len(fields)
            BY <1>4
        <3> QED
            BY <1>1, <1>4, <1>8, <3>1, ReadsField DEF WholeUpTo
    <2>4. t \in Seq(Nat) /\ Len(t) = len - 1 /\ \A x \in 1 .. len - 1 : t[x] = fields[k][x + 1]
        BY <1>13, HeadTailProperties
    <2> HIDE DEF t, len, a, buffer
    <2>5. /\ lo \in Int /\ hi \in Int
          /\ (IF lo <= hi THEN hi - lo + 1 ELSE 0) = len - 1
          /\ hi - lo + 1 = len - 1
          /\ \A i \in lo .. hi : i \in 1 .. Len(buffer)
          /\ \A i \in 1 .. len - 1 : lo + i - 1 = a + 1 + (i + 1) /\ i + 1 \in 1 .. len
        BY <1>15, <2>1, <2>2
    <2> HIDE DEF lo, hi
    <2>6. \A i \in lo .. hi : buffer[i] \in Nat
        BY <2>1, <2>5, ElementOfSeq
    <2>7. /\ d \in Seq(Nat)
          /\ Len(d) = len - 1
          /\ \A i \in 1 .. len - 1 : d[i] = buffer[lo + i - 1]
        <3>1. /\ d \in Seq(Nat)
              /\ Len(d) = IF lo <= hi THEN hi - lo + 1 ELSE 0
              /\ \A i \in 1 .. hi - lo + 1 : d[i] = buffer[lo + i - 1]
            BY <2>5, <2>6, SubSeqProperties
        <3> QED
            BY <2>5, <3>1
    <2> HIDE DEF d
    <2>8. ASSUME NEW x \in 1 .. len - 1
          PROVE  d[x] = t[x]
        <3>1. d[x] = buffer[lo + x - 1]
            BY <2>7
        <3>2. lo + x - 1 = a + 1 + (x + 1) /\ x + 1 \in 1 .. len
            BY <2>5
        <3>3. buffer[a + 1 + (x + 1)] = fields[k][x + 1]
            BY <2>3, <3>2
        <3>4. t[x] = fields[k][x + 1]
            BY <2>4
        <3> QED
            BY <3>1, <3>2, <3>3, <3>4
    <2>9. d = t
        BY <2>4, <2>7, <2>8, SeqEqual
    <2>10. DataOf(ad) = d
        BY <1>14 DEF DataOf, d, lo, hi, buffer
    <2> QED
        BY <2>9, <2>10 DEF t
<1> QED
    BY <1>2, <1>7, <1>11, <1>12, <1>14, <1>15, <1>16

(* The search finds the first whole field of a type, for any fields, any   *)
(* number of them and any number of bytes that came in.                    *)
THEOREM SearchFindsFirst == Spec => []FindsFirst
<1>1. InputOK => FindsFirst
    <2> SUFFICES ASSUME InputOK, input.kind = "advertisement", NEW type \in AdvTypes
                 PROVE  LET ad == findAdvertisementDataType(Scan, type) IN
                        IF OfType(type) = {} THEN ad = NoAd
                        ELSE ad # NoAd /\ DataOf(ad) = Tail(First(type))
        BY DEF FindsFirst
    <2> QED
        BY FindsNothing, FindsField
<1> QED
    BY <1>1, InputHolds, PTL
------------------------------------------------------------------------------
(* The two lists of uuids.                                                 *)
LEMMA ListsOfUuids ==
    ASSUME InputOK, input.kind = "advertisement"
    PROVE  \E ad1, ad2 :
               /\ ad1.len \in Nat /\ ad2.len \in Nat
               /\ ListsIn(Scan)[1] = ad1 /\ ListsIn(Scan)[2] = ad2
               /\ ToSet(ListsIn(Scan)) = {ad1, ad2}
               /\ {findAdvertisementDataType(Scan, type) : type \in ToSet(serviceUuidListTypes)}
                      = {ad1, ad2}
<1> DEFINE first  == serviceUuidListTypes[1]
           second == serviceUuidListTypes[2]
           ad1 == findAdvertisementDataType(Scan, first)
           ad2 == findAdvertisementDataType(Scan, second)
<1>1. ASSUME NEW type
      PROVE  findAdvertisementDataType(Scan, type).len \in Nat
    <2>1. CASE OfType(type) = {}
        BY <2>1, FindsNothing DEF NoAd, Ad
    <2>2. CASE OfType(type) # {}
        BY <2>2, FindsField
    <2> QED
        BY <2>1, <2>2
<1>2. DOMAIN serviceUuidListTypes = {1, 2}
    <2>1. DOMAIN serviceUuidListTypes = 1 .. 2
        BY DEF serviceUuidListTypes
    <2> QED
        BY <2>1
<1>3. ToSet(serviceUuidListTypes) = {first, second}
    BY <1>2 DEF ToSet
<1> HIDE DEF first, second
<1>4. DOMAIN ListsIn(Scan) = {1, 2}
    BY <1>2 DEF ListsIn
<1>5. ListsIn(Scan)[1] = ad1 /\ ListsIn(Scan)[2] = ad2
    BY <1>2 DEF ListsIn, first, second
<1>6. ToSet(ListsIn(Scan)) = {ad1, ad2}
    BY <1>4, <1>5 DEF ToSet
<1>7. {findAdvertisementDataType(Scan, type) : type \in ToSet(serviceUuidListTypes)} = {ad1, ad2}
    BY <1>3
<1>8. ad1.len \in Nat /\ ad2.len \in Nat
    BY <1>1
<1> HIDE DEF ad1, ad2
<1> QED
    BY <1>5, <1>6, <1>7, <1>8

(* The three functions, for two lists of whole uuids.                      *)
LEMMA ListsAgree ==
    ASSUME NEW scan, NEW ad1, NEW ad2,
           ad1.len \in Nat, ad2.len \in Nat, ad1.len % 2 = 0, ad2.len % 2 = 0,
           ListsIn(scan)[1] = ad1, ListsIn(scan)[2] = ad2, ToSet(ListsIn(scan)) = {ad1, ad2}
    PROVE  LET counted == {serviceUuid(scan, i) : i \in 0 .. serviceUuidCount(scan) - 1} IN
           /\ \A uuid : uuid # 0 => (hasServiceUuid(scan, uuid) <=> uuid \in counted)
           /\ hasServiceUuid(scan, 0) <=> serviceUuidCount(scan) > 0
           /\ serviceUuid(scan, serviceUuidCount(scan)) = 0
<1> DEFINE R == {Uuid16At(scan, ad, j) : ad \in {ad1, ad2}, j \in Int}
           n1 == ad1.len \div 2
           n2 == ad2.len \div 2
           u1 == UuidsOf(scan, ad1)
           u2 == UuidsOf(scan, ad2)
           uuids == u1 \o u2
<1>1. /\ n1 \in Nat /\ n2 \in Nat
      /\ (ad1.len + 1) \div 2 = n1 /\ (ad2.len + 1) \div 2 = n2
      /\ ad1.len = 2 * n1 /\ ad2.len = 2 * n2
    OBVIOUS
<1> HIDE DEF n1, n2
<1>2. /\ u1 \in Seq(R) /\ Len(u1) = n1
      /\ \A n \in 1 .. n1 : u1[n] = Uuid16At(scan, ad1, 2 * (n - 1))
    <2>1. u1 = [n \in 1 .. n1 |-> Uuid16At(scan, ad1, 2 * (n - 1))]
        BY <1>1 DEF UuidsOf
    <2>2. \A n \in 1 .. n1 : Uuid16At(scan, ad1, 2 * (n - 1)) \in R
        OBVIOUS
    <2> HIDE DEF R
    <2>3. u1 \in [1 .. n1 -> R]
        BY <2>1, <2>2
    <2> HIDE DEF u1
    <2>4. u1 \in Seq(R)
        BY <1>1, <2>3, SeqDef
    <2>5. Len(u1) = n1
        BY <1>1, <2>3, <2>4, LenProperties
    <2> QED
        BY <2>1, <2>4, <2>5
<1>3. /\ u2 \in Seq(R) /\ Len(u2) = n2
      /\ \A n \in 1 .. n2 : u2[n] = Uuid16At(scan, ad2, 2 * (n - 1))
    <2>1. u2 = [n \in 1 .. n2 |-> Uuid16At(scan, ad2, 2 * (n - 1))]
        BY <1>1 DEF UuidsOf
    <2>2. \A n \in 1 .. n2 : Uuid16At(scan, ad2, 2 * (n - 1)) \in R
        OBVIOUS
    <2> HIDE DEF R
    <2>3. u2 \in [1 .. n2 -> R]
        BY <2>1, <2>2
    <2> HIDE DEF u2
    <2>4. u2 \in Seq(R)
        BY <1>1, <2>3, SeqDef
    <2>5. Len(u2) = n2
        BY <1>1, <2>3, <2>4, LenProperties
    <2> QED
        BY <2>1, <2>4, <2>5
<1>4. serviceUuidCount(scan) = n1 + n2
    BY DEF serviceUuidCount, n1, n2
<1>5. \A i : serviceUuid(scan, i) = IF i < Len(uuids) THEN uuids[i + 1] ELSE 0
    BY DEF serviceUuid
<1>6. \A uuid : hasServiceUuid(scan, uuid) <=>
          \E ad \in {ad1, ad2} :
              \/ uuid = 0 /\ ad.len >= 2
              \/ \E j \in Steps(ad) : Uuid16At(scan, ad, j) = uuid
    BY DEF hasServiceUuid
<1> HIDE DEF R, u1, u2
<1>7. /\ Len(uuids) = n1 + n2
      /\ \A n \in 1 .. n1 + n2 : uuids[n] = IF n <= n1 THEN u1[n] ELSE u2[n - n1]
    <2>1. /\ Len(uuids) = Len(u1) + Len(u2)
          /\ \A n \in 1 .. Len(u1) + Len(u2) :
                uuids[n] = IF n <= Len(u1) THEN u1[n] ELSE u2[n - Len(u1)]
        BY <1>2, <1>3, ConcatProperties
    <2> QED
        BY <1>2, <1>3, <2>1
<1> HIDE DEF uuids
(* Every other byte of a list is where one of its uuids is.                *)
<1>8. ASSUME NEW ad, NEW n \in Nat, ad.len = 2 * n, NEW j
      PROVE  j \in Steps(ad) <=> \E m \in 1 .. n : j = 2 * (m - 1)
    <2>1. ASSUME j \in Steps(ad)
          PROVE  \E m \in 1 .. n : j = 2 * (m - 1)
        <3>1. j \in 0 .. 2 * n - 1 /\ j % 2 = 0
            BY <1>8, <2>1 DEF Steps
        <3>2. j \div 2 + 1 \in 1 .. n /\ j = 2 * ((j \div 2 + 1) - 1)
            BY <3>1
        <3> QED
            BY <3>2
    <2>2. ASSUME NEW m \in 1 .. n, j = 2 * (m - 1)
          PROVE  j \in Steps(ad)
        <3>1. j \in 0 .. 2 * n - 1 /\ j % 2 = 0
            BY <2>2
        <3> QED
            BY <1>8, <3>1 DEF Steps
    <2> QED
        BY <2>1, <2>2
<1>9. ASSUME NEW uuid
      PROVE  (\E ad \in {ad1, ad2} : \E j \in Steps(ad) : Uuid16At(scan, ad, j) = uuid)
                 <=> \E n \in 1 .. n1 + n2 : uuids[n] = uuid
    <2>1. ASSUME NEW j \in Steps(ad1), Uuid16At(scan, ad1, j) = uuid
          PROVE  \E n \in 1 .. n1 + n2 : uuids[n] = uuid
        <3>1. PICK m \in 1 .. n1 : j = 2 * (m - 1)
            BY <1>1, <1>8
        <3>2. m \in 1 .. n1 + n2 /\ m <= n1
            BY <1>1
        <3>3. uuids[m] = uuid
            BY <1>2, <1>7, <2>1, <3>1, <3>2
        <3> QED
            BY <3>2, <3>3
    <2>2. ASSUME NEW j \in Steps(ad2), Uuid16At(scan, ad2, j) = uuid
          PROVE  \E n \in 1 .. n1 + n2 : uuids[n] = uuid
        <3>1. PICK m \in 1 .. n2 : j = 2 * (m - 1)
            BY <1>1, <1>8
        <3>2. PICK n \in 1 .. n1 + n2 : ~(n <= n1) /\ n - n1 = m
            <4> DEFINE n == n1 + m
            <4>1. n \in 1 .. n1 + n2 /\ ~(n <= n1) /\ n - n1 = m
                BY <1>1
            <4> HIDE DEF n
            <4> QED
                BY <4>1
        <3>3. uuids[n] = u2[m]
            BY <1>7, <3>2
        <3>4. u2[m] = Uuid16At(scan, ad2, j)
            BY <1>3, <3>1
        <3> QED
            BY <2>2, <3>3, <3>4
    <2>3. ASSUME NEW n \in 1 .. n1 + n2, uuids[n] = uuid
          PROVE  \E ad \in {ad1, ad2} : \E j \in Steps(ad) : Uuid16At(scan, ad, j) = uuid
        <3>1. CASE n <= n1
            <4>1. n \in 1 .. n1
                BY <1>1, <3>1
            <4>2. uuid = Uuid16At(scan, ad1, 2 * (n - 1))
                BY <1>2, <1>7, <2>3, <3>1, <4>1
            <4>3. 2 * (n - 1) \in Steps(ad1)
                BY <1>1, <1>8, <4>1
            <4> QED
                BY <4>2, <4>3
        <3>2. CASE ~(n <= n1)
            <4>1. PICK m \in 1 .. n2 : m = n - n1
                BY <1>1, <3>2
            <4>2. uuid = u2[m]
                BY <1>7, <2>3, <3>2, <4>1
            <4>3. u2[m] = Uuid16At(scan, ad2, 2 * (m - 1))
                BY <1>3
            <4>4. 2 * (m - 1) \in Steps(ad2)
                BY <1>1, <1>8
            <4> QED
                BY <4>2, <4>3, <4>4
        <3> QED
            BY <3>1, <3>2
    <2> QED
        BY <2>1, <2>2, <2>3
<1> DEFINE counted == {serviceUuid(scan, i) : i \in 0 .. serviceUuidCount(scan) - 1}
<1>10. ASSUME NEW uuid
       PROVE  uuid \in counted <=> \E n \in 1 .. n1 + n2 : uuids[n] = uuid
    <2>1. ASSUME NEW i \in 0 .. serviceUuidCount(scan) - 1, uuid = serviceUuid(scan, i)
          PROVE  \E n \in 1 .. n1 + n2 : uuids[n] = uuid
        <3>1. PICK n \in 1 .. n1 + n2 : n = i + 1 /\ i < n1 + n2
            BY <1>1, <1>4
        <3> QED
            BY <1>5, <1>7, <2>1, <3>1
    <2>2. ASSUME NEW n \in 1 .. n1 + n2, uuids[n] = uuid
          PROVE  uuid \in counted
        <3>1. PICK i \in 0 .. n1 + n2 - 1 : n = i + 1 /\ i < n1 + n2
            <4> DEFINE i == n - 1
            <4>1. i \in 0 .. n1 + n2 - 1 /\ n = i + 1 /\ i < n1 + n2
                BY <1>1
            <4> HIDE DEF i
            <4> QED
                BY <4>1
        <3>2. serviceUuid(scan, i) = uuid
            <4>1. i < Len(uuids) /\ uuids[i + 1] = uuids[n]
                BY <1>7, <3>1
            <4>2. serviceUuid(scan, i) = IF i < Len(uuids) THEN uuids[i + 1] ELSE 0
                BY <1>5
            <4>3. serviceUuid(scan, i) = uuids[i + 1]
                BY <4>1, <4>2
            <4> QED
                BY <2>2, <4>1, <4>3
        <3>3. i \in 0 .. serviceUuidCount(scan) - 1
            BY <1>1, <1>4
        <3> QED
            BY <3>2, <3>3
    <2> QED
        BY <2>1, <2>2
<1>11. hasServiceUuid(scan, 0) <=> serviceUuidCount(scan) > 0
    <2>1. ASSUME NEW ad \in {ad1, ad2}, ad.len >= 2
          PROVE  n1 + n2 > 0
        <3>1. ad1.len >= 2 \/ ad2.len >= 2
            BY <2>1
        <3> QED
            BY <1>1, <3>1
    <2>2. ASSUME NEW ad \in {ad1, ad2}, NEW j \in Steps(ad)
          PROVE  n1 + n2 > 0
        <3>1. (\E m \in 1 .. n1 : TRUE) \/ (\E m \in 1 .. n2 : TRUE)
            BY <1>1, <1>8, <2>2
        <3> QED
            BY <1>1, <3>1
    <2>3. ASSUME n1 + n2 > 0
          PROVE  \E ad \in {ad1, ad2} : ad.len >= 2
        <3>1. ad1.len >= 2 \/ ad2.len >= 2
            BY <1>1, <2>3
        <3> QED
            BY <3>1
    <2> QED
        BY <1>4, <1>6, <2>1, <2>2, <2>3
<1>12. serviceUuid(scan, serviceUuidCount(scan)) = 0
    <2>1. ~(n1 + n2 < n1 + n2)
        BY <1>1
    <2> QED
        BY <1>4, <1>5, <1>7, <2>1
<1>13. ASSUME NEW uuid, uuid # 0
       PROVE  hasServiceUuid(scan, uuid) <=> uuid \in counted
    <2>1. hasServiceUuid(scan, uuid) <=>
              \E ad \in {ad1, ad2} : \E j \in Steps(ad) : Uuid16At(scan, ad, j) = uuid
        BY <1>6, <1>13
    <2>2. uuid \in counted <=> \E n \in 1 .. n1 + n2 : uuids[n] = uuid
        BY <1>10
    <2> HIDE DEF counted
    <2> QED
        BY <1>9, <2>1, <2>2
<1> QED
    BY <1>11, <1>12, <1>13

(* A uuid is had exactly when it is counted, for any advertisement whose   *)
(* lists are of whole uuids.                                               *)
THEOREM UuidListsAgree == Spec => []UuidsAgree
<1>1. InputOK => UuidsAgree
    <2> DEFINE ads == {findAdvertisementDataType(Scan, type) : type \in ToSet(serviceUuidListTypes)}
    <2> SUFFICES ASSUME InputOK, input.kind = "advertisement", \A ad \in ads : ad.len % 2 = 0
                 PROVE  LET counted == {serviceUuid(Scan, i) : i \in 0 .. serviceUuidCount(Scan) - 1}
                        IN /\ \A uuid : uuid # 0 => (hasServiceUuid(Scan, uuid) <=> uuid \in counted)
                           /\ hasServiceUuid(Scan, 0) <=> serviceUuidCount(Scan) > 0
                           /\ serviceUuid(Scan, serviceUuidCount(Scan)) = 0
        BY DEF UuidsAgree
    <2>1. PICK ad1, ad2 : /\ ad1.len \in Nat /\ ad2.len \in Nat
                          /\ ListsIn(Scan)[1] = ad1 /\ ListsIn(Scan)[2] = ad2
                          /\ ToSet(ListsIn(Scan)) = {ad1, ad2}
                          /\ ads = {ad1, ad2}
        BY ListsOfUuids
    <2>2. ad1.len % 2 = 0 /\ ad2.len % 2 = 0
        BY <2>1
    <2> QED
        BY <2>1, <2>2, ListsAgree
<1> QED
    BY <1>1, InputHolds, PTL

------------------------------------------------------------------------------
(* The characters of the strings, and the value of a hexadecimal one.      *)
Chars == {Digits[n] : n \in 1 .. 16} \cup {Letters[n] : n \in 1 .. 6} \cup {":", "-", "g"}

(* The characters differ.                                                  *)
LEMMA DigitsAre ==
    /\ DOMAIN Digits = 1 .. 16 /\ DOMAIN Letters = 1 .. 6
    /\ \A m, n \in 1 .. 16 : Digits[m] = Digits[n] => m = n
    /\ \A m, n \in 1 .. 6 : Letters[m] = Letters[n] => m = n
    /\ \A m \in 1 .. 16, n \in 1 .. 6 : Digits[m] # Letters[n]
    /\ \A n \in 1 .. 16 : Digits[n] \notin {":", "-", "g"}
    /\ \A n \in 1 .. 6 : Letters[n] \notin {":", "-", "g"}
<1>1. DOMAIN Digits = 1 .. 16 /\ DOMAIN Letters = 1 .. 6
    BY DEF Digits, Letters
<1>2. \A n \in 1 .. 16 :
          \/ n = 1 /\ Digits[n] = "0"
          \/ n = 2 /\ Digits[n] = "1"
          \/ n = 3 /\ Digits[n] = "2"
          \/ n = 4 /\ Digits[n] = "3"
          \/ n = 5 /\ Digits[n] = "4"
          \/ n = 6 /\ Digits[n] = "5"
          \/ n = 7 /\ Digits[n] = "6"
          \/ n = 8 /\ Digits[n] = "7"
          \/ n = 9 /\ Digits[n] = "8"
          \/ n = 10 /\ Digits[n] = "9"
          \/ n = 11 /\ Digits[n] = "A"
          \/ n = 12 /\ Digits[n] = "B"
          \/ n = 13 /\ Digits[n] = "C"
          \/ n = 14 /\ Digits[n] = "D"
          \/ n = 15 /\ Digits[n] = "E"
          \/ n = 16 /\ Digits[n] = "F"
    BY DEF Digits
<1>3. \A n \in 1 .. 6 :
          \/ n = 1 /\ Letters[n] = "a"
          \/ n = 2 /\ Letters[n] = "b"
          \/ n = 3 /\ Letters[n] = "c"
          \/ n = 4 /\ Letters[n] = "d"
          \/ n = 5 /\ Letters[n] = "e"
          \/ n = 6 /\ Letters[n] = "f"
    BY DEF Letters
<1>4. \A m, n \in 1 .. 16 : Digits[m] = Digits[n] => m = n
    BY <1>2
<1>5. \A m, n \in 1 .. 6 : Letters[m] = Letters[n] => m = n
    BY <1>3
<1>6. \A m \in 1 .. 16, n \in 1 .. 6 : Digits[m] # Letters[n]
    BY <1>2, <1>3
<1>7. \A n \in 1 .. 16 : Digits[n] \notin {":", "-", "g"}
    BY <1>2
<1>8. \A n \in 1 .. 6 : Letters[n] \notin {":", "-", "g"}
    BY <1>3
<1> QED
    BY <1>1, <1>4, <1>5, <1>6, <1>7, <1>8

(* A digit has one value, and what is no digit has none.                   *)
LEMMA ValuesAre ==
    /\ \A n \in 1 .. 16 : Values(Digits[n]) = {n - 1}
    /\ \A n \in 1 .. 6 : Values(Letters[n]) = {n + 9}
    /\ Values("-") = {} /\ Values("g") = {}
    /\ \A c : Values(c) \subseteq Nat
<1>1. ASSUME NEW n \in 1 .. 16
      PROVE  Values(Digits[n]) = {n - 1}
    <2>1. {m \in DOMAIN Digits : Digits[m] = Digits[n]} = {n}
        BY DigitsAre
    <2>2. {m \in DOMAIN Letters : Letters[m] = Digits[n]} = {}
        BY DigitsAre
    <2> QED
        BY <2>1, <2>2 DEF Values
<1>2. ASSUME NEW n \in 1 .. 6
      PROVE  Values(Letters[n]) = {n + 9}
    <2>1. {m \in DOMAIN Digits : Digits[m] = Letters[n]} = {}
        BY DigitsAre
    <2>2. {m \in DOMAIN Letters : Letters[m] = Letters[n]} = {n}
        BY DigitsAre
    <2> QED
        BY <2>1, <2>2 DEF Values
<1>3. ASSUME NEW c \in {"-", "g"}
      PROVE  Values(c) = {}
    <2>1. {m \in DOMAIN Digits : Digits[m] = c} = {} /\ {m \in DOMAIN Letters : Letters[m] = c} = {}
        BY DigitsAre
    <2> QED
        BY <2>1 DEF Values
<1>4. ASSUME NEW c, NEW v \in Values(c)
      PROVE  v \in Nat
    <2>1. (\E n \in 1 .. 16 : v = n - 1) \/ (\E n \in 1 .. 6 : v = n + 9)
        BY DigitsAre DEF Values
    <2> QED
        BY <2>1
<1> QED
    BY <1>1, <1>2, <1>3, <1>4

(* A text has the two digits of a byte at p.                               *)
HasByte(t, p, b) == Values(t[p]) = {b \div 16} /\ Values(t[p + 1]) = {b % 16}

(* Two digits are read as their byte.                                      *)
LEMMA ReadsByte ==
    ASSUME NEW t, NEW p \in Nat, NEW b \in Byte, p + 1 <= Len(t), HasByte(t, p, b)
    PROVE  AreHex(t, p) /\ convertTwoHexCharsToByte(t, p) = b
<1> DEFINE high == b \div 16
           low  == b % 16
<1>1. Values(t[p]) = {high} /\ Values(t[p + 1]) = {low}
    BY DEF HasByte
<1>2. 16 * high + low = b
    BY DEF Byte
<1> HIDE DEF high, low
<1>3. Hex(t[p]) = high /\ Hex(t[p + 1]) = low
    BY <1>1 DEF Hex
<1>4. AreHex(t, p)
    BY <1>1 DEF AreHex, IsHex
<1>5. convertTwoHexCharsToByte(t, p) = 16 * high + low
    BY <1>3 DEF convertTwoHexCharsToByte
<1> QED
    BY <1>2, <1>4, <1>5

(* A byte is written as its two digits.                                    *)
LEMMA WritesByte ==
    ASSUME NEW b \in Byte
    PROVE  /\ convertByteToTwoHexChars(b) \in Seq(Chars)
           /\ Len(convertByteToTwoHexChars(b)) = 2
           /\ convertByteToTwoHexChars(b)[1] = Digits[b \div 16 + 1]
           /\ convertByteToTwoHexChars(b)[2] = Digits[(b % 16) + 1]
           /\ b \div 16 + 1 \in 1 .. 16 /\ (b % 16) + 1 \in 1 .. 16
           /\ Values(Digits[b \div 16 + 1]) = {b \div 16}
           /\ Values(Digits[(b % 16) + 1]) = {b % 16}
<1>1. b \div 16 + 1 \in 1 .. 16 /\ (b % 16) + 1 \in 1 .. 16
    BY DEF Byte
<1>2. PICK m, n \in 1 .. 16 : m = b \div 16 + 1 /\ n = (b % 16) + 1
    BY <1>1
<1>3. Values(Digits[m]) = {m - 1} /\ Values(Digits[n]) = {n - 1}
    BY ValuesAre
<1>4. m - 1 = b \div 16 /\ n - 1 = b % 16
    BY <1>2 DEF Byte
<1>5. convertByteToTwoHexChars(b) = <<Digits[m], Digits[n]>>
    BY <1>2 DEF convertByteToTwoHexChars
<1>6. Digits[m] \in Chars /\ Digits[n] \in Chars
    BY DEF Chars
<1> QED
    BY <1>1, <1>2, <1>3, <1>4, <1>5, <1>6

(* In lower case, a character has the same value.                          *)
LowerOf(c) == IF c \in {"A", "B", "C", "D", "E", "F"} THEN Letters[Hex(c) - 9] ELSE c

LEMMA LowerKeeps ==
    /\ \A c \in Chars : LowerOf(c) \in Chars /\ Values(LowerOf(c)) = Values(c)
    /\ LowerOf("-") = "-" /\ LowerOf(":") = ":"
<1>1. ASSUME NEW c \in {"A", "B", "C", "D", "E", "F"}
      PROVE  LowerOf(c) \in Chars /\ Values(LowerOf(c)) = Values(c)
    <2>1. PICK n \in 1 .. 6 : c = Digits[n + 10]
        <3>1. /\ Digits[1 + 10] = "A" /\ Digits[2 + 10] = "B" /\ Digits[3 + 10] = "C"
              /\ Digits[4 + 10] = "D" /\ Digits[5 + 10] = "E" /\ Digits[6 + 10] = "F"
            BY DEF Digits
        <3> QED
            BY <3>1
    <2>2. PICK m \in 1 .. 16 : m = n + 10 /\ m - 1 = n + 9 /\ m - 10 = n
        OBVIOUS
    <2>3. Values(c) = {n + 9}
        BY <2>1, <2>2, ValuesAre
    <2>4. Hex(c) = n + 9
        BY <2>3 DEF Hex
    <2>5. LowerOf(c) = Letters[n]
        BY <2>4 DEF LowerOf
    <2>6. Values(Letters[n]) = {n + 9} /\ Letters[n] \in Chars
        BY ValuesAre DEF Chars
    <2> QED
        BY <2>3, <2>5, <2>6
<1>2. ASSUME NEW c, c \notin {"A", "B", "C", "D", "E", "F"}
      PROVE  LowerOf(c) = c
    BY <1>2 DEF LowerOf
<1> QED
    BY <1>1, <1>2

(* A function on 1 .. n is a sequence.                                     *)
LEMMA FunctionIsSeq ==
    ASSUME NEW S, NEW n \in Nat, NEW f \in [1 .. n -> S]
    PROVE  f \in Seq(S) /\ Len(f) = n
<1>1. f \in Seq(S)
    BY SeqDef
<1>2. Len(f) = n
    BY <1>1, LenProperties
<1> QED
    BY <1>1, <1>2

(* A text in lower case, character by character.                           *)
LEMMA LowerIs ==
    ASSUME NEW s \in Seq(Chars)
    PROVE  /\ Lower(s) \in Seq(Chars) /\ Len(Lower(s)) = Len(s)
           /\ \A i \in 1 .. Len(s) : Lower(s)[i] = LowerOf(s[i])
<1>1. Len(s) \in Nat /\ DOMAIN s = 1 .. Len(s) /\ \A i \in 1 .. Len(s) : s[i] \in Chars
    BY LenProperties
<1>2. Lower(s) = [i \in 1 .. Len(s) |-> LowerOf(s[i])]
    BY <1>1 DEF Lower, LowerOf
<1>3. \A i \in 1 .. Len(s) : LowerOf(s[i]) \in Chars
    BY <1>1, LowerKeeps
<1>4. Lower(s) \in [1 .. Len(s) -> Chars]
    BY <1>2, <1>3
<1>5. Lower(s) \in Seq(Chars) /\ Len(Lower(s)) = Len(s)
    BY <1>1, <1>4, FunctionIsSeq
<1> QED
    BY <1>2, <1>5
------------------------------------------------------------------------------
(* A string of bytes: the pieces are two digits and what is between bytes. *)
LEMMA PieceIs ==
    ASSUME NEW b \in Byte, NEW between \in Seq(Chars), Len(between) <= 1
    PROVE  LET piece == convertByteToTwoHexChars(b) \o between IN
           /\ piece \in Seq(Chars) /\ Len(piece) = 2 + Len(between)
           /\ Values(piece[1]) = {b \div 16} /\ Values(piece[2]) = {b % 16}
           /\ Len(between) = 1 => piece[3] = between[1]
<1> DEFINE two   == convertByteToTwoHexChars(b)
           piece == two \o between
<1>1. /\ two \in Seq(Chars) /\ Len(two) = 2
      /\ Values(two[1]) = {b \div 16} /\ Values(two[2]) = {b % 16}
    BY WritesByte
<1>2. Len(between) \in Nat
    BY LenProperties
<1> HIDE DEF two
<1>3. /\ piece \in Seq(Chars)
      /\ Len(piece) = Len(two) + Len(between)
      /\ \A i \in 1 .. Len(two) + Len(between) :
            piece[i] = IF i <= Len(two) THEN two[i] ELSE between[i - Len(two)]
    BY <1>1, ConcatProperties
<1> HIDE DEF piece
<1>4. piece[1] = two[1] /\ piece[2] = two[2] /\ (Len(between) = 1 => piece[3] = between[1])
    BY <1>1, <1>2, <1>3
<1> QED
    BY <1>1, <1>3, <1>4 DEF piece, two

(* The pieces of a text s start at the places at.                          *)
PiecesAt(s, n, at) ==
    /\ n \in Nat \ {0}
    /\ s \in Seq(Seq(Chars)) /\ Len(s) = n
    /\ at \in [1 .. n + 1 -> Nat] /\ at[1] = 1
    /\ \A k \in 1 .. n : at[k + 1] = at[k] + Len(s[k])

(* Each character of a piece is at its place in the text.                  *)
LEMMA TextOfPieces ==
    ASSUME NEW s, NEW n, NEW at, PiecesAt(s, n, at)
    PROVE  /\ FlattenSeq(s) \in Seq(Chars)
           /\ Len(FlattenSeq(s)) = at[n + 1] - 1
           /\ \A k \in 1 .. n, x \in Nat : x \in 1 .. Len(s[k]) =>
                 /\ FlattenSeq(s)[at[k] + x - 1] = s[k][x]
                 /\ at[k] + x - 1 \in 1 .. Len(FlattenSeq(s))
<1> DEFINE S == {k \in 0 .. n : Len(Flat(s, k)) = at[k + 1] - 1}
<1>1. /\ n \in Nat \ {0} /\ s \in Seq(Seq(Chars)) /\ Len(s) = n
      /\ at \in [1 .. n + 1 -> Nat] /\ at[1] = 1
      /\ \A k \in 1 .. n : at[k + 1] = at[k] + Len(s[k])
    BY DEF PiecesAt
<1>2. 0 \in S
    <2>1. Len(Flat(s, 0)) = 0
        BY FlatNone, EmptySeq
    <2>2. at[0 + 1] - 1 = 0 /\ 0 \in 0 .. n
        BY <1>1
    <2> QED
        BY <2>1, <2>2
<1>3. ASSUME NEW k \in 0 .. n, NEW l \in 0 .. n, l = k + 1, k \in S
      PROVE  l \in S
    <2>1. k \in 0 .. Len(s) /\ l \in 1 .. Len(s) /\ l \in 1 .. n
        BY <1>1, <1>3
    <2>2. /\ Len(Flat(s, k)) \in Nat
          /\ Len(Flat(s, l)) = Len(Flat(s, k)) + Len(s[l])
        BY <1>1, <1>3, <2>1, FlatLengths
    <2>3. at[l + 1] = at[l] + Len(s[l]) /\ Len(Flat(s, k)) = at[l] - 1
        BY <1>1, <1>3, <2>1
    <2>4. at[l] \in Nat /\ Len(s[l]) \in Nat
        BY <1>1, <2>1, PieceType
    <2>5. Len(Flat(s, l)) = at[l + 1] - 1
        BY <2>2, <2>3, <2>4
    <2> QED
        BY <2>5
<1> HIDE DEF S
<1>4. 0 .. n \subseteq S
    BY <1>1, <1>2, <1>3, UpTo
<1>5. FlattenSeq(s) = Flat(s, n) /\ FlattenSeq(s) \in Seq(Chars)
    <2>1. n \in 0 .. Len(s)
        BY <1>1
    <2>2. FlattenSeq(s) = Flat(s, Len(s)) /\ Flat(s, n) \in Seq(Chars)
        BY <1>1, <2>1, FlatAll, FlatType
    <2> QED
        BY <1>1, <2>2
<1>6. Len(Flat(s, n)) = at[n + 1] - 1
    <2>1. n \in S
        BY <1>1, <1>4
    <2> QED
        BY <2>1 DEF S
<1>7. ASSUME NEW k \in 1 .. n, NEW x \in Nat, x \in 1 .. Len(s[k])
      PROVE  /\ Flat(s, n)[at[k] + x - 1] = s[k][x]
             /\ at[k] + x - 1 \in 1 .. Len(Flat(s, n))
    <2>1. PICK j \in 0 .. n : k = j + 1
        <3> DEFINE j == k - 1
        <3>1. j \in 0 .. n /\ k = j + 1
            BY <1>1
        <3> HIDE DEF j
        <3> QED
            BY <3>1
    <2>2. j \in S /\ n \in 1 .. Len(s)
        BY <1>1, <1>4
    <2>3. /\ Flat(s, n)[Len(Flat(s, j)) + x] = s[k][x]
          /\ Len(Flat(s, j)) + x \in 1 .. Len(Flat(s, n))
        <3>1. s \in Seq(Seq(Chars))
            BY <1>1
        <3> QED
            BY <1>7, <2>1, <2>2, <3>1, FlatPiece
    <2>4. Len(Flat(s, j)) = at[k] - 1
        BY <2>1, <2>2 DEF S
    <2>5. at[k] \in Nat
        BY <1>1
    <2>6. at[k] - 1 + x = at[k] + x - 1
        BY <2>5
    <2> QED
        BY <2>3, <2>4, <2>6
<1> QED
    BY <1>5, <1>6, <1>7

(* A text whose pieces start with the digits of the bytes b has them.      *)
LEMMA TextHasBytes ==
    ASSUME NEW s, NEW n, NEW at, NEW b, PiecesAt(s, n, at),
           \A k \in 1 .. n : /\ Len(s[k]) \in {2, 3}
                             /\ Values(s[k][1]) = {b[k] \div 16}
                             /\ Values(s[k][2]) = {b[k] % 16}
    PROVE  \A k \in 1 .. n :
               /\ HasByte(FlattenSeq(s), at[k], b[k])
               /\ at[k] + 1 <= Len(FlattenSeq(s))
               /\ Len(s[k]) = 3 => /\ FlattenSeq(s)[at[k] + 2] = s[k][3]
                                   /\ at[k] + 2 <= Len(FlattenSeq(s))
<1> DEFINE t == FlattenSeq(s)
<1> SUFFICES ASSUME NEW k \in 1 .. n
             PROVE  /\ HasByte(t, at[k], b[k])
                    /\ at[k] + 1 <= Len(t)
                    /\ Len(s[k]) = 3 => t[at[k] + 2] = s[k][3] /\ at[k] + 2 <= Len(t)
    OBVIOUS
<1>1. \A x \in Nat : x \in 1 .. Len(s[k]) =>
          t[at[k] + x - 1] = s[k][x] /\ at[k] + x - 1 \in 1 .. Len(t)
    BY TextOfPieces
<1>2. Len(t) \in Nat /\ at[k] \in Nat
    <2>1. t \in Seq(Chars)
        BY TextOfPieces
    <2>2. k \in 1 .. n + 1
        BY DEF PiecesAt
    <2> QED
        BY <2>1, <2>2, LenProperties DEF PiecesAt
<1> HIDE DEF t
<1>3. at[k] + 1 - 1 = at[k] /\ at[k] + 2 - 1 = at[k] + 1 /\ at[k] + 3 - 1 = at[k] + 2
    BY <1>2
<1>4. t[at[k]] = s[k][1]
    BY <1>1, <1>3
<1>5. t[at[k] + 1] = s[k][2] /\ at[k] + 1 \in 1 .. Len(t)
    BY <1>1, <1>3
<1>6. Len(s[k]) = 3 => t[at[k] + 2] = s[k][3] /\ at[k] + 2 \in 1 .. Len(t)
    BY <1>1, <1>3
<1>7. HasByte(t, at[k], b[k])
    <2>1. Values(s[k][1]) = {b[k] \div 16} /\ Values(s[k][2]) = {b[k] % 16}
        OBVIOUS
    <2> QED
        BY <1>4, <1>5, <2>1, Zenon DEF HasByte
<1>8. at[k] + 1 <= Len(t) /\ (Len(s[k]) = 3 => at[k] + 2 <= Len(t))
    BY <1>2, <1>5, <1>6
<1> QED
    BY <1>6, <1>7, <1>8
------------------------------------------------------------------------------
(* Addresses.                                                              *)
MacPlaces == <<1, 4, 7, 10, 13, 16, 18>>

LEMMA MacPlacesAre ==
    /\ MacPlaces \in [1 .. 7 -> Nat] /\ MacPlaces[1] = 1 /\ MacPlaces[7] = 18
    /\ \A k \in 1 .. 6 : MacPlaces[k] = 3 * (k - 1) + 1
    /\ \A k \in 1 .. 6 : MacPlaces[k + 1] = MacPlaces[k] + (IF k < 6 THEN 3 ELSE 2)
<1>1. MacPlaces \in [1 .. 7 -> Nat]
    BY DEF MacPlaces
<1>2. /\ MacPlaces[1] = 1 /\ MacPlaces[2] = 4 /\ MacPlaces[3] = 7 /\ MacPlaces[4] = 10
      /\ MacPlaces[5] = 13 /\ MacPlaces[6] = 16 /\ MacPlaces[7] = 18
    BY DEF MacPlaces
<1>3. \A k \in 1 .. 6 : k = 1 \/ k = 2 \/ k = 3 \/ k = 4 \/ k = 5 \/ k = 6
    OBVIOUS
<1>4. \A k \in 1 .. 6 : MacPlaces[k] = 3 * (k - 1) + 1
    BY <1>2, <1>3
<1>5. \A k \in 1 .. 6 : MacPlaces[k + 1] = MacPlaces[k] + (IF k < 6 THEN 3 ELSE 2)
    BY <1>2, <1>3
<1> QED
    BY <1>1, <1>2, <1>4, <1>5

(* The bytes in a string that has them at its places.                      *)
LEMMA MacReads ==
    ASSUME NEW t, NEW bytes \in [1 .. MAC_ADDRESS_LENGTH -> Byte], Len(t) = 17,
           \A k \in 1 .. 6 : HasByte(t, MacPlaces[k], bytes[7 - k])
    PROVE  MacAddress(t) = [valid |-> TRUE, bytes |-> bytes]
<1>1. ASSUME NEW k \in 1 .. 6
      PROVE  /\ AreHex(t, 3 * (k - 1) + 1)
             /\ convertTwoHexCharsToByte(t, 3 * (k - 1) + 1) = bytes[7 - k]
    <2>1. PICK p \in Nat : p = 3 * (k - 1) + 1 /\ p + 1 <= 17
        <3> DEFINE p == 3 * (k - 1) + 1
        <3>1. p \in Nat /\ p + 1 <= 17
            OBVIOUS
        <3> HIDE DEF p
        <3>2. \E q \in Nat : q = p /\ q + 1 <= 17
            BY <3>1
        <3> QED
            BY <3>2 DEF p
    <2>2. PICK b \in Byte : b = bytes[7 - k]
        BY DEF MAC_ADDRESS_LENGTH
    <2>3. HasByte(t, p, b)
        BY <2>1, <2>2, MacPlacesAre
    <2>4. AreHex(t, p) /\ convertTwoHexCharsToByte(t, p) = b
        BY <2>1, <2>3, ReadsByte
    <2> QED
        BY <2>1, <2>2, <2>4
<1>2. \A i \in 0 .. 5 : AreHex(t, 3 * i + 1)
    <2> SUFFICES ASSUME NEW i \in 0 .. 5
                 PROVE  AreHex(t, 3 * i + 1)
        OBVIOUS
    <2>1. i + 1 \in 1 .. 6 /\ (i + 1) - 1 = i
        OBVIOUS
    <2>2. AreHex(t, 3 * ((i + 1) - 1) + 1)
        BY <1>1, <2>1
    <2> QED
        BY <2>1, <2>2
<1>3. \A n \in 1 .. 6 : convertTwoHexCharsToByte(t, 3 * (6 - n) + 1) = bytes[n]
    <2> SUFFICES ASSUME NEW n \in 1 .. 6
                 PROVE  convertTwoHexCharsToByte(t, 3 * (6 - n) + 1) = bytes[n]
        OBVIOUS
    <2>1. PICK k \in 1 .. 6 : k - 1 = 6 - n /\ 7 - k = n
        <3>1. 7 - n \in 1 .. 6 /\ (7 - n) - 1 = 6 - n /\ 7 - (7 - n) = n
            OBVIOUS
        <3> QED
            BY <3>1
    <2>2. convertTwoHexCharsToByte(t, 3 * (k - 1) + 1) = bytes[7 - k]
        BY <1>1
    <2> QED
        BY <2>1, <2>2
<1>4. [n \in 1 .. 6 |-> convertTwoHexCharsToByte(t, 3 * (6 - n) + 1)] = bytes
    BY <1>3 DEF MAC_ADDRESS_LENGTH
<1>5. ~(Len(t) # 3 * 6 - 1 \/ \E i \in 0 .. 5 : ~AreHex(t, 3 * i + 1))
    BY <1>2
<1> QED
    BY <1>4, <1>5 DEF MacAddress, MAC_ADDRESS_LENGTH

(* No address is read where a digit is none.                               *)
LEMMA MacRefuses ==
    ASSUME NEW t, NEW i \in 1 .. 17, i % 3 # 0, Values(t[i]) = {}
    PROVE  MacAddress(t) = Invalid
<1>1. \E k \in 0 .. 5 : ~AreHex(t, 3 * k + 1)
    <2>1. PICK k \in 0 .. 5 : i = 3 * k + 1 \/ i = (3 * k + 1) + 1
        <3>1. (i - 1) \div 3 \in 0 .. 5
              /\ (i = 3 * ((i - 1) \div 3) + 1 \/ i = (3 * ((i - 1) \div 3) + 1) + 1)
            OBVIOUS
        <3> QED
            BY <3>1
    <2>2. ~AreHex(t, 3 * k + 1)
        BY <2>1 DEF AreHex, IsHex
    <2> QED
        BY <2>2
<1> QED
    BY <1>1 DEF MacAddress

(* The string of an address has its bytes at the places.                   *)
LEMMA MacString ==
    ASSUME NEW bytes \in [1 .. MAC_ADDRESS_LENGTH -> Byte]
    PROVE  /\ convertMacToString(bytes) \in Seq(Chars)
           /\ Len(convertMacToString(bytes)) = 17
           /\ \A k \in 1 .. 6 : HasByte(convertMacToString(bytes), MacPlaces[k], bytes[7 - k])
<1> DEFINE between == [k \in 1 .. 6 |-> IF k < 6 THEN <<":">> ELSE <<>>]
           s == [k \in 1 .. 6 |-> convertByteToTwoHexChars(bytes[6 - k + 1]) \o between[k]]
           b == [k \in 1 .. 6 |-> bytes[7 - k]]
<1>1. convertMacToString(bytes) = FlattenSeq(s)
    BY DEF convertMacToString, MAC_ADDRESS_LENGTH
<1>2. \A k \in 1 .. 6 : /\ bytes[6 - k + 1] = b[k]
                        /\ b[k] \in Byte
                        /\ b[k] = bytes[7 - k]
    <2>1. \A k \in 1 .. 6 : 6 - k + 1 = 7 - k /\ 7 - k \in 1 .. 6
        OBVIOUS
    <2> QED
        BY <2>1 DEF MAC_ADDRESS_LENGTH
<1> HIDE DEF b
<1>3. \A k \in 1 .. 6 :
          /\ between[k] \in Seq(Chars) /\ Len(between[k]) = IF k < 6 THEN 1 ELSE 0
    <2>1. <<":">> \in Seq(Chars) /\ Len(<<":">>) = 1
        BY DEF Chars
    <2>2. <<>> \in Seq(Chars) /\ Len(<<>>) = 0
        BY EmptySeq
    <2> QED
        BY <2>1, <2>2
<1>4. \A k \in 1 .. 6 : s[k] = convertByteToTwoHexChars(b[k]) \o between[k]
    BY <1>2
<1> HIDE DEF between
<1>5. \A k \in 1 .. 6 :
          /\ s[k] \in Seq(Chars) /\ Len(s[k]) = IF k < 6 THEN 3 ELSE 2
          /\ Values(s[k][1]) = {b[k] \div 16} /\ Values(s[k][2]) = {b[k] % 16}
    <2> SUFFICES ASSUME NEW k \in 1 .. 6
                 PROVE  /\ s[k] \in Seq(Chars) /\ Len(s[k]) = IF k < 6 THEN 3 ELSE 2
                        /\ Values(s[k][1]) = {b[k] \div 16} /\ Values(s[k][2]) = {b[k] % 16}
        OBVIOUS
    <2> DEFINE piece == convertByteToTwoHexChars(b[k]) \o between[k]
    <2>1. /\ between[k] \in Seq(Chars) /\ Len(between[k]) <= 1 /\ b[k] \in Byte
          /\ 2 + Len(between[k]) = IF k < 6 THEN 3 ELSE 2
        <3>1. between[k] \in Seq(Chars) /\ Len(between[k]) = IF k < 6 THEN 1 ELSE 0
            BY <1>3
        <3>2. Len(between[k]) <= 1 /\ 2 + Len(between[k]) = IF k < 6 THEN 3 ELSE 2
            BY <3>1
        <3>3. b[k] \in Byte
            BY <1>2
        <3> QED
            BY <3>1, <3>2, <3>3
    <2>2. /\ piece \in Seq(Chars) /\ Len(piece) = 2 + Len(between[k])
          /\ Values(piece[1]) = {b[k] \div 16} /\ Values(piece[2]) = {b[k] % 16}
        BY <2>1, PieceIs
    <2>3. s[k] = piece
        BY <1>4
    <2> HIDE DEF s, piece
    <2> QED
        BY <2>1, <2>2, <2>3
<1>6. s \in Seq(Seq(Chars)) /\ Len(s) = 6
    <2>1. s \in [1 .. 6 -> Seq(Chars)]
        <3>1. s = [k \in 1 .. 6 |-> convertByteToTwoHexChars(bytes[6 - k + 1]) \o between[k]]
            OBVIOUS
        <3> HIDE DEF s
        <3>2. DOMAIN s = 1 .. 6 /\ s = [k \in DOMAIN s |-> s[k]]
            BY <3>1
        <3> QED
            BY <1>5, <3>2
    <2> HIDE DEF s
    <2>2. 6 \in Nat
        OBVIOUS
    <2> QED
        BY <2>1, <2>2, FunctionIsSeq, Zenon
<1> HIDE DEF s
<1>7. PiecesAt(s, 6, MacPlaces)
    <2>1. MacPlaces \in [1 .. 6 + 1 -> Nat]
        BY MacPlacesAre
    <2>2. \A k \in 1 .. 6 : MacPlaces[k + 1] = MacPlaces[k] + Len(s[k])
        BY <1>5, MacPlacesAre
    <2> QED
        BY <1>6, <2>1, <2>2, MacPlacesAre DEF PiecesAt
<1>8. FlattenSeq(s) \in Seq(Chars) /\ Len(FlattenSeq(s)) = 17
    <2>1. FlattenSeq(s) \in Seq(Chars) /\ Len(FlattenSeq(s)) = MacPlaces[6 + 1] - 1
        BY <1>7, TextOfPieces
    <2> QED
        BY <2>1, MacPlacesAre
<1>9. \A k \in 1 .. 6 : HasByte(FlattenSeq(s), MacPlaces[k], b[k])
    <2>1. \A k \in 1 .. 6 : Len(s[k]) \in {2, 3}
        BY <1>5
    <2> QED
        BY <1>5, <1>7, <2>1, TextHasBytes
<1> QED
    BY <1>1, <1>2, <1>8, <1>9

(* Lower case, and one character replaced.                                 *)
LEMMA LowerHasByte ==
    ASSUME NEW s \in Seq(Chars), NEW p \in 1 .. Len(s), p + 1 <= Len(s), NEW b,
           HasByte(s, p, b)
    PROVE  HasByte(Lower(s), p, b)
<1>1. Len(s) \in Nat /\ p + 1 \in 1 .. Len(s)
    BY LenProperties
<1>2. s[p] \in Chars /\ s[p + 1] \in Chars
    BY <1>1, ElementOfSeq
<1>3. Lower(s)[p] = LowerOf(s[p]) /\ Lower(s)[p + 1] = LowerOf(s[p + 1])
    BY <1>1, LowerIs
<1>4. Values(LowerOf(s[p])) = Values(s[p]) /\ Values(LowerOf(s[p + 1])) = Values(s[p + 1])
    BY <1>2, LowerKeeps
<1> QED
    BY <1>3, <1>4 DEF HasByte

(* From an address to its string and back.                                 *)
LEMMA MacRoundTrip ==
    ASSUME NEW bytes \in [1 .. MAC_ADDRESS_LENGTH -> Byte], NEW s, s = convertMacToString(bytes)
    PROVE  /\ \A t \in {s, Lower(s)} : MacAddress(t) = [valid |-> TRUE, bytes |-> bytes]
           /\ \A i \in DOMAIN s : i % 3 # 0 => MacAddress([s EXCEPT ![i] = "g"]) = Invalid
<1>1. /\ s \in Seq(Chars) /\ Len(s) = 17 /\ DOMAIN s = 1 .. 17
      /\ \A k \in 1 .. 6 : HasByte(s, MacPlaces[k], bytes[7 - k])
    BY MacString, LenProperties
<1>2. MacAddress(s) = [valid |-> TRUE, bytes |-> bytes]
    BY <1>1, MacReads
<1>3. MacAddress(Lower(s)) = [valid |-> TRUE, bytes |-> bytes]
    <2>1. Len(Lower(s)) = 17
        BY <1>1, LowerIs
    <2>2. \A k \in 1 .. 6 : HasByte(Lower(s), MacPlaces[k], bytes[7 - k])
        <3> SUFFICES ASSUME NEW k \in 1 .. 6
                     PROVE  HasByte(Lower(s), MacPlaces[k], bytes[7 - k])
            OBVIOUS
        <3>1. MacPlaces[k] \in 1 .. Len(s) /\ MacPlaces[k] + 1 <= Len(s)
            <4>1. MacPlaces[k] = 3 * (k - 1) + 1
                BY MacPlacesAre
            <4>2. Len(s) = 17
                BY <1>1
            <4> QED
                BY <4>1, <4>2
        <3> QED
            BY <1>1, <3>1, LowerHasByte
    <2> QED
        BY <2>1, <2>2, MacReads
<1>4. ASSUME NEW i \in DOMAIN s, i % 3 # 0
      PROVE  MacAddress([s EXCEPT ![i] = "g"]) = Invalid
    <2> DEFINE t == [s EXCEPT ![i] = "g"]
    <2>1. i \in 1 .. 17 /\ t[i] = "g"
        BY <1>1
    <2>2. Values(t[i]) = {}
        BY <2>1, ValuesAre
    <2> HIDE DEF t
    <2>3. MacAddress(t) = Invalid
        BY <1>4, <2>1, <2>2, MacRefuses
    <2> QED
        BY <2>3 DEF t
<1> QED
    BY <1>2, <1>3, <1>4
------------------------------------------------------------------------------
(* The bytes that convertStringToUuid128Bit reads, from each place on.     *)
ReadStep(t, f, p) ==
    IF p <= Len(t) /\ t[p] = "-" THEN f[p + 1]
    ELSE IF ~AreHex(t, p) THEN <<>>
    ELSE <<convertTwoHexCharsToByte(t, p)>> \o f[p + 2]

IsRead(t, f) == f = [p \in 1 .. Len(t) + 1 |-> ReadStep(t, f, p)]

(* The recursive function exists: it reads from each place what is after it. *)
LEMMA ReadExists ==
    ASSUME NEW t, Len(t) \in Nat
    PROVE  \E f : IsRead(t, f)
<1> DEFINE n == Len(t)
           Reads(f, first) == f = [p \in first .. n + 1 |-> ReadStep(t, f, p)]
           S == {k \in 0 .. n : \E f : Reads(f, n + 1 - k)}
<1>1. n \in Nat
    OBVIOUS
<1>2. 0 \in S
    <2> DEFINE f == [p \in n + 1 .. n + 1 |-> <<>>]
    <2>1. \A p \in n + 1 .. n + 1 : ReadStep(t, f, p) = <<>>
        <3> SUFFICES ASSUME NEW p \in n + 1 .. n + 1
                     PROVE  ReadStep(t, f, p) = <<>>
            OBVIOUS
        <3>1. ~(p <= Len(t)) /\ ~(p + 1 <= Len(t))
            BY <1>1
        <3> QED
            BY <3>1 DEF ReadStep, AreHex
    <2>2. f = [p \in n + 1 .. n + 1 |-> ReadStep(t, f, p)]
        BY <2>1
    <2> HIDE DEF f
    <2>3. Reads(f, n + 1)
        BY <2>2
    <2>4. n + 1 - 0 = n + 1 /\ 0 \in 0 .. n
        BY <1>1
    <2> HIDE DEF Reads
    <2> QED
        BY <2>3, <2>4
<1>3. ASSUME NEW k \in 0 .. n, NEW l \in 0 .. n, l = k + 1, k \in S
      PROVE  l \in S
    <2> DEFINE last  == n + 1 - k
               first == n + 1 - l
    <2>1. PICK f : Reads(f, last)
        BY <1>3
    <2> DEFINE g == [p \in first .. n + 1 |-> IF p = first THEN ReadStep(t, f, p) ELSE f[p]]
    <2>2. last \in 2 .. n + 1 /\ first \in 1 .. n /\ last = first + 1
        BY <1>1, <1>3
    <2> HIDE DEF n, first, last
    <2>3. f = [p \in last .. n + 1 |-> ReadStep(t, f, p)]
        BY <2>1
    <2>4. \A p \in last .. n + 1 : p \in first .. n + 1 /\ p # first
        BY <1>1, <2>2
    <2>5. \A p \in first .. n + 1 : p # first => p \in last .. n + 1
        BY <1>1, <2>2
    <2>6. \A p \in last .. n + 1 : g[p] = f[p]
        BY <2>4
    <2>7. \A p \in first .. n + 1 :
              /\ p <= n => p + 1 \in last .. n + 1
              /\ p + 1 <= n => p + 2 \in last .. n + 1
        BY <1>1, <2>2
    <2>8. \A p \in first .. n + 1 : g[p] = ReadStep(t, f, p)
        BY <2>3, <2>5
    <2>9. \A p \in first .. n + 1 : ReadStep(t, g, p) = ReadStep(t, f, p)
        <3> SUFFICES ASSUME NEW p \in first .. n + 1
                     PROVE  ReadStep(t, g, p) = ReadStep(t, f, p)
            OBVIOUS
        <3>1. CASE p <= Len(t) /\ t[p] = "-"
            <4>1. p + 1 \in last .. n + 1
                BY <2>7, <3>1 DEF n
            <4>2. g[p + 1] = f[p + 1]
                BY <2>6, <4>1
            <4> HIDE DEF g
            <4> QED
                BY <3>1, <4>2 DEF ReadStep
        <3>2. CASE ~(p <= Len(t) /\ t[p] = "-") /\ AreHex(t, p)
            <4>1. p + 2 \in last .. n + 1
                BY <2>7, <3>2 DEF n, AreHex
            <4>2. g[p + 2] = f[p + 2]
                BY <2>6, <4>1
            <4> HIDE DEF g
            <4> QED
                BY <3>2, <4>2 DEF ReadStep
        <3>3. CASE ~(p <= Len(t) /\ t[p] = "-") /\ ~AreHex(t, p)
            <4> HIDE DEF g
            <4> QED
                BY <3>3 DEF ReadStep
        <3> QED
            BY <3>1, <3>2, <3>3
    <2>10. g = [p \in first .. n + 1 |-> ReadStep(t, g, p)]
        <3>1. g = [p \in first .. n + 1 |-> ReadStep(t, f, p)]
            BY <2>8
        <3> HIDE DEF g
        <3> QED
            BY <2>9, <3>1
    <2> HIDE DEF g
    <2>11. Reads(g, first)
        BY <2>10
    <2>12. \E h : Reads(h, n + 1 - l)
        BY <2>11 DEF first
    <2> QED
        BY <2>12
<1> HIDE DEF S
<1>4. 0 .. n \subseteq S
    BY <1>1, <1>2, <1>3, UpTo
<1>5. n \in S /\ n + 1 - n = 1
    BY <1>1, <1>4
<1>6. \E f : Reads(f, 1)
    BY <1>5 DEF S
<1> QED
    BY <1>6 DEF IsRead

LEMMA ReadType ==
    ASSUME NEW t, NEW p, AreHex(t, p)
    PROVE  convertTwoHexCharsToByte(t, p) \in Nat
<1>1. Hex(t[p]) \in Values(t[p]) /\ Hex(t[p + 1]) \in Values(t[p + 1])
    BY DEF AreHex, IsHex, Hex
<1>2. Hex(t[p]) \in Nat /\ Hex(t[p + 1]) \in Nat
    BY <1>1, ValuesAre
<1> QED
    BY <1>2 DEF convertTwoHexCharsToByte

(* Its values are sequences of bytes.                                      *)
LEMMA ReadTyped ==
    ASSUME NEW t, Len(t) \in Nat, NEW f, IsRead(t, f), NEW p \in 1 .. Len(t) + 1
    PROVE  f[p] \in Seq(Nat)
<1> DEFINE n == Len(t)
           S == {k \in 0 .. n : \A q \in n + 1 - k .. n + 1 : f[q] \in Seq(Nat)}
<1>1. n \in Nat
    OBVIOUS
<1>2. \A q \in 1 .. n + 1 : f[q] = ReadStep(t, f, q)
    BY DEF IsRead
(* A value is well typed when those further on are.                        *)
<1>3. ASSUME NEW q \in 1 .. n + 1, \A r \in 1 .. n + 1 : r > q => f[r] \in Seq(Nat)
      PROVE  f[q] \in Seq(Nat)
    <2>1. f[q] = ReadStep(t, f, q)
        BY <1>2
    <2>2. CASE q <= Len(t) /\ t[q] = "-"
        <3>1. q + 1 \in 1 .. n + 1 /\ q + 1 > q
            BY <1>1, <2>2
        <3>2. f[q + 1] \in Seq(Nat)
            BY <1>3, <3>1
        <3> QED
            BY <2>1, <2>2, <3>2 DEF ReadStep
    <2>3. CASE ~(q <= Len(t) /\ t[q] = "-") /\ AreHex(t, q)
        <3>1. q + 2 \in 1 .. n + 1 /\ q + 2 > q
            BY <1>1, <2>3 DEF AreHex
        <3>2. f[q + 2] \in Seq(Nat)
            BY <1>3, <3>1
        <3>3. <<convertTwoHexCharsToByte(t, q)>> \in Seq(Nat)
            BY <2>3, ReadType
        <3>4. <<convertTwoHexCharsToByte(t, q)>> \o f[q + 2] \in Seq(Nat)
            BY <3>2, <3>3, ConcatProperties
        <3> QED
            BY <2>1, <2>3, <3>4 DEF ReadStep
    <2>4. CASE ~(q <= Len(t) /\ t[q] = "-") /\ ~AreHex(t, q)
        BY <2>1, <2>4, EmptySeq DEF ReadStep
    <2> QED
        BY <2>2, <2>3, <2>4
<1> HIDE DEF n
<1>4. 0 \in S
    <2> SUFFICES ASSUME NEW q \in n + 1 - 0 .. n + 1
                 PROVE  f[q] \in Seq(Nat)
        BY <1>1
    <2>1. q \in 1 .. n + 1 /\ \A r \in 1 .. n + 1 : ~(r > q)
        BY <1>1
    <2> QED
        BY <1>3, <2>1
<1>5. ASSUME NEW k \in 0 .. n, NEW l \in 0 .. n, l = k + 1, k \in S
      PROVE  l \in S
    <2> SUFFICES ASSUME NEW q \in n + 1 - l .. n + 1
                 PROVE  f[q] \in Seq(Nat)
        BY <1>1
    <2>1. q \in 1 .. n + 1 /\ \A r \in 1 .. n + 1 : r > q => r \in n + 1 - k .. n + 1
        BY <1>1, <1>5
    <2>2. \A r \in n + 1 - k .. n + 1 : f[r] \in Seq(Nat)
        BY <1>5
    <2> QED
        BY <1>3, <2>1, <2>2
<1> HIDE DEF S
<1>6. 0 .. n \subseteq S
    BY <1>1, <1>4, <1>5, UpTo
<1>7. n \in S /\ n + 1 - n = 1
    BY <1>1, <1>6
<1>8. \A q \in 1 .. n + 1 : f[q] \in Seq(Nat)
    BY <1>7 DEF S
<1> QED
    BY <1>8 DEF n

(* The code reads with one such function.                                  *)
LEMMA ReadIs ==
    ASSUME NEW t, Len(t) \in Nat
    PROVE  \E f : /\ IsRead(t, f)
                  /\ convertStringToUuid128Bit(t) =
                        IF Len(f[1]) < UUID_128BIT_BYTE_LENGTH THEN Invalid
                        ELSE Uuid([n \in 1 .. UUID_128BIT_BYTE_LENGTH |->
                                      f[1][UUID_128BIT_BYTE_LENGTH - n + 1]],
                                  UUID_128BIT_BYTE_LENGTH, "none")
<1> DEFINE c == CHOOSE f : f = [p \in 1 .. Len(t) + 1 |-> ReadStep(t, f, p)]
<1>1. \E f : f = [p \in 1 .. Len(t) + 1 |-> ReadStep(t, f, p)]
    BY ReadExists DEF IsRead
<1>2. c = [p \in 1 .. Len(t) + 1 |-> ReadStep(t, c, p)]
    BY <1>1
<1>3. convertStringToUuid128Bit(t) =
          IF Len(c[1]) < UUID_128BIT_BYTE_LENGTH THEN Invalid
          ELSE Uuid([n \in 1 .. UUID_128BIT_BYTE_LENGTH |->
                        c[1][UUID_128BIT_BYTE_LENGTH - n + 1]],
                    UUID_128BIT_BYTE_LENGTH, "none")
    BY DEF convertStringToUuid128Bit, ReadStep
<1> QED
    BY <1>2, <1>3 DEF IsRead
------------------------------------------------------------------------------
(* The text t starts with the bytes b[1] to b[m], at the places at, with   *)
(* at most a hyphen between two of them; at[m + 1] is where the rest of it *)
(* starts.                                                                 *)
StartsWith(t, at, b, m) ==
    /\ m \in Nat
    /\ at \in [1 .. m + 1 -> Nat \ {0}] /\ at[1] = 1 /\ at[m + 1] <= Len(t) + 1
    /\ \A k \in 1 .. m :
          /\ b[k] \in Byte /\ HasByte(t, at[k], b[k]) /\ at[k] + 1 <= Len(t)
          /\ \/ at[k + 1] = at[k] + 2
             \/ at[k + 1] = at[k] + 3 /\ at[k] + 2 <= Len(t) /\ t[at[k] + 2] = "-"

(* One byte is read.                                                       *)
LEMMA ReadsNext ==
    ASSUME NEW t, Len(t) \in Nat, NEW f, IsRead(t, f), NEW p \in Nat \ {0}, NEW q \in Nat,
           NEW b \in Byte, HasByte(t, p, b), p + 1 <= Len(t), q <= Len(t) + 1,
           q = p + 2 \/ (q = p + 3 /\ p + 2 <= Len(t) /\ t[p + 2] = "-")
    PROVE  f[p] = <<b>> \o f[q]
<1>1. AreHex(t, p) /\ convertTwoHexCharsToByte(t, p) = b
    BY ReadsByte
<1>2. t[p] # "-"
    <2>1. Values(t[p]) # {}
        BY DEF HasByte
    <2> QED
        BY <2>1, ValuesAre
<1>3. f[p] = ReadStep(t, f, p)
    <2>1. p \in 1 .. Len(t) + 1
        OBVIOUS
    <2> QED
        BY <2>1 DEF IsRead
<1>4. f[p] = <<b>> \o f[p + 2]
    BY <1>1, <1>2, <1>3 DEF ReadStep
<1>5. CASE q = p + 2
    BY <1>4, <1>5
<1>6. CASE q = p + 3 /\ p + 2 <= Len(t) /\ t[p + 2] = "-"
    <2>1. PICK r \in 1 .. Len(t) + 1 : r = p + 2 /\ q = r + 1 /\ r <= Len(t)
        BY <1>6
    <2>2. f[r] = ReadStep(t, f, r)
        BY DEF IsRead
    <2>3. f[r] = f[r + 1]
        BY <1>6, <2>1, <2>2 DEF ReadStep
    <2> QED
        BY <1>4, <2>1, <2>3
<1> QED
    BY <1>5, <1>6

(* The bytes that a text starts with are read, and then the rest of it.    *)
LEMMA ReadsStart ==
    ASSUME NEW t, Len(t) \in Nat, NEW f, IsRead(t, f), NEW at, NEW b, NEW m,
           StartsWith(t, at, b, m)
    PROVE  /\ Len(f[1]) = m + Len(f[at[m + 1]])
           /\ \A x \in 1 .. m : f[1][x] = b[x]
<1> DEFINE rest == Len(f[at[m + 1]])
           S == {j \in 0 .. m : /\ Len(f[at[m + 1 - j]]) = j + rest
                                /\ \A x \in 1 .. j : f[at[m + 1 - j]][x] = b[m - j + x]}
<1>1. m \in Nat /\ at \in [1 .. m + 1 -> Nat \ {0}] /\ at[1] = 1 /\ at[m + 1] <= Len(t) + 1
    BY DEF StartsWith
<1>2. \A k \in 1 .. m + 1 : at[k] \in 1 .. Len(t) + 1
    <2> SUFFICES ASSUME NEW k \in 1 .. m + 1
                 PROVE  at[k] \in 1 .. Len(t) + 1
        OBVIOUS
    <2>1. CASE k = m + 1
        BY <1>1, <2>1
    <2>2. CASE k # m + 1
        <3>1. k \in 1 .. m
            BY <1>1, <2>2
        <3>2. at[k] + 1 <= Len(t) /\ at[k] \in Nat \ {0}
            BY <1>1, <3>1 DEF StartsWith
        <3> QED
            BY <3>2
    <2> QED
        BY <2>1, <2>2
<1>3. \A k \in 1 .. m + 1 : f[at[k]] \in Seq(Nat) /\ Len(f[at[k]]) \in Nat
    BY <1>2, ReadTyped, LenProperties
<1>4. rest \in Nat
    BY <1>1, <1>3
<1> HIDE DEF rest
<1>5. 0 \in S
    <2>1. m + 1 - 0 = m + 1 /\ 0 \in 0 .. m
        BY <1>1
    <2>2. Len(f[at[m + 1]]) = 0 + rest
        BY <1>4 DEF rest
    <2> QED
        BY <2>1, <2>2
<1>6. ASSUME NEW k \in 0 .. m, NEW l \in 0 .. m, l = k + 1, k \in S
      PROVE  l \in S
    <2>1. PICK first \in 1 .. m : first = m + 1 - l /\ first + 1 = m + 1 - k /\ first = m - l + 1
        <3>1. m + 1 - l \in 1 .. m /\ (m + 1 - l) + 1 = m + 1 - k /\ m + 1 - l = m - l + 1
            BY <1>1, <1>6
        <3> QED
            BY <3>1
    <2> DEFINE v == f[at[first + 1]]
               w == f[at[first]]
    <2>2. v \in Seq(Nat) /\ Len(v) = k + rest /\ \A x \in 1 .. k : v[x] = b[m - k + x]
        <3>1. first + 1 \in 1 .. m + 1
            BY <1>1
        <3>2. v \in Seq(Nat)
            BY <1>3, <3>1
        <3> QED
            BY <1>6, <2>1, <3>2
    <2>3. b[first] \in Byte
        BY DEF StartsWith
    <2>4. w = <<b[first]>> \o v
        <3>1. first \in 1 .. m + 1 /\ first + 1 \in 1 .. m + 1
            BY <1>1
        <3>2. /\ at[first] \in Nat \ {0} /\ at[first + 1] \in Nat /\ at[first + 1] <= Len(t) + 1
            BY <1>2, <3>1
        <3>3. /\ HasByte(t, at[first], b[first]) /\ at[first] + 1 <= Len(t)
              /\ \/ at[first + 1] = at[first] + 2
                 \/ /\ at[first + 1] = at[first] + 3
                    /\ at[first] + 2 <= Len(t) /\ t[at[first] + 2] = "-"
            BY DEF StartsWith
        <3> HIDE DEF v, w
        <3>4. PICK p \in Nat \ {0}, q \in Nat, c \in Byte :
                  p = at[first] /\ q = at[first + 1] /\ c = b[first]
            BY <2>3, <3>2
        <3>5. /\ HasByte(t, p, c) /\ p + 1 <= Len(t) /\ q <= Len(t) + 1
              /\ q = p + 2 \/ (q = p + 3 /\ p + 2 <= Len(t) /\ t[p + 2] = "-")
            BY <3>2, <3>3, <3>4
        <3>6. f[p] = <<c>> \o f[q]
            BY <3>5, ReadsNext
        <3> QED
            BY <3>4, <3>6 DEF v, w
    <2> HIDE DEF v, w
    <2>5. /\ Len(w) = 1 + Len(v)
          /\ \A x \in 1 .. 1 + Len(v) : w[x] = IF x <= 1 THEN b[first] ELSE v[x - 1]
        <3>1. <<b[first]>> \in Seq(Nat) /\ Len(<<b[first]>>) = 1 /\ <<b[first]>>[1] = b[first]
            <4>1. PICK c \in Byte : c = b[first]
                BY <2>3
            <4>2. c \in Nat
                BY DEF Byte
            <4>3. <<c>> \in Seq(Nat) /\ Len(<<c>>) = 1 /\ <<c>>[1] = c
                BY <4>2
            <4> QED
                BY <4>1, <4>3
        <3>2. /\ Len(w) = Len(<<b[first]>>) + Len(v)
              /\ \A x \in 1 .. Len(<<b[first]>>) + Len(v) :
                    w[x] = IF x <= Len(<<b[first]>>) THEN <<b[first]>>[x]
                           ELSE v[x - Len(<<b[first]>>)]
            BY <2>2, <2>4, <3>1, ConcatProperties
        <3>3. /\ Len(w) = 1 + Len(v)
              /\ \A x \in 1 .. 1 + Len(v) : w[x] = IF x <= 1 THEN <<b[first]>>[x] ELSE v[x - 1]
            BY <3>1, <3>2
        <3>4. \A x \in 1 .. 1 + Len(v) : x <= 1 => x = 1
            BY <1>4, <2>2
        <3> QED
            BY <3>1, <3>3, <3>4
    <2>6. Len(w) = l + rest
        BY <1>4, <1>6, <2>2, <2>5
    <2>7. \A x \in 1 .. l : w[x] = b[m - l + x]
        <3> SUFFICES ASSUME NEW x \in 1 .. l
                     PROVE  w[x] = b[m - l + x]
            OBVIOUS
        <3>1. x \in 1 .. 1 + Len(v)
            BY <1>4, <1>6, <2>2
        <3>2. CASE x = 1
            BY <2>1, <2>5, <3>1, <3>2
        <3>3. CASE x # 1
            <4>1. PICK y \in 1 .. k : x - 1 = y /\ m - k + y = m - l + x
                <5>1. x - 1 \in 1 .. k /\ m - k + (x - 1) = m - l + x
                    BY <1>1, <1>6, <3>3
                <5> QED
                    BY <5>1
            <4>2. w[x] = v[y]
                BY <2>5, <3>1, <3>3, <4>1
            <4> QED
                BY <2>2, <4>1, <4>2
        <3> QED
            BY <3>2, <3>3
    <2>8. w = f[at[m + 1 - l]]
        BY <2>1 DEF w
    <2> QED
        BY <2>6, <2>7, <2>8
<1> HIDE DEF S
<1>7. 0 .. m \subseteq S
    BY <1>1, <1>5, <1>6, UpTo
<1>8. m \in S /\ m + 1 - m = 1
    BY <1>1, <1>7
<1>9. \A x \in 1 .. m : m - m + x = x
    BY <1>1
<1> QED
    BY <1>1, <1>8, <1>9 DEF S, rest

(* A text of 16 bytes, the highest first.                                  *)
LEMMA ReadsLong ==
    ASSUME NEW t, Len(t) \in Nat, NEW at, NEW b, NEW m, m >= 16, StartsWith(t, at, b, m)
    PROVE  convertStringToUuid128Bit(t) = Uuid([n \in 1 .. 16 |-> b[16 - n + 1]], 16, "none")
<1>1. PICK f : /\ IsRead(t, f)
               /\ convertStringToUuid128Bit(t) =
                     IF Len(f[1]) < 16 THEN Invalid
                     ELSE Uuid([n \in 1 .. 16 |-> f[1][16 - n + 1]], 16, "none")
    BY ReadIs DEF UUID_128BIT_BYTE_LENGTH
<1>2. Len(f[1]) = m + Len(f[at[m + 1]]) /\ \A x \in 1 .. m : f[1][x] = b[x]
    BY <1>1, ReadsStart
<1>3. m \in Nat /\ at[m + 1] \in 1 .. Len(t) + 1
    BY DEF StartsWith
<1>4. Len(f[at[m + 1]]) \in Nat
    <2>1. f[at[m + 1]] \in Seq(Nat)
        BY <1>1, <1>3, ReadTyped
    <2> QED
        BY <2>1, LenProperties
<1>5. ~(Len(f[1]) < 16)
    BY <1>2, <1>3, <1>4
<1>6. \A n \in 1 .. 16 : f[1][16 - n + 1] = b[16 - n + 1]
    <2>1. \A n \in 1 .. 16 : 16 - n + 1 \in 1 .. m
        BY <1>3
    <2> QED
        BY <1>2, <2>1
<1>7. [n \in 1 .. 16 |-> f[1][16 - n + 1]] = [n \in 1 .. 16 |-> b[16 - n + 1]]
    BY <1>6
<1> QED
    BY <1>1, <1>5, <1>7

(* The order of the bytes in a string, and in memory.                      *)
Reversed(b, bytes) == \A k \in 1 .. 16 : b[k] = bytes[17 - k]

(* They are the bytes of the uuid.                                         *)
LEMMA UuidReads ==
    ASSUME NEW t, Len(t) \in Nat, NEW at, NEW b, NEW m, m >= 16, StartsWith(t, at, b, m),
           NEW bytes \in [1 .. UUID_128BIT_BYTE_LENGTH -> Byte],
           Reversed(b, bytes)
    PROVE  convertStringToUuid128Bit(t) = Uuid(bytes, UUID_128BIT_BYTE_LENGTH, "none")
<1>1. \A n \in 1 .. 16 : b[16 - n + 1] = bytes[n]
    <2> SUFFICES ASSUME NEW n \in 1 .. 16
                 PROVE  b[16 - n + 1] = bytes[n]
        OBVIOUS
    <2>1. PICK k \in 1 .. 16 : k = 16 - n + 1 /\ 17 - k = n
        <3>1. 16 - n + 1 \in 1 .. 16 /\ 17 - (16 - n + 1) = n
            OBVIOUS
        <3> QED
            BY <3>1
    <2> QED
        BY <2>1 DEF Reversed
<1>2. [n \in 1 .. 16 |-> b[16 - n + 1]] = bytes
    BY <1>1 DEF UUID_128BIT_BYTE_LENGTH
<1>3. convertStringToUuid128Bit(t) = Uuid([n \in 1 .. 16 |-> b[16 - n + 1]], 16, "none")
    BY ReadsLong
<1> QED
    BY <1>2, <1>3 DEF UUID_128BIT_BYTE_LENGTH

(* No uuid is read where fewer than 16 bytes come before what is none.     *)
LEMMA UuidRefuses ==
    ASSUME NEW t, Len(t) \in Nat, NEW at, NEW b, NEW m, m < 16, StartsWith(t, at, b, m),
           ~AreHex(t, at[m + 1]), t[at[m + 1]] # "-"
    PROVE  convertStringToUuid128Bit(t) = Invalid
<1>1. PICK f : /\ IsRead(t, f)
               /\ convertStringToUuid128Bit(t) =
                     IF Len(f[1]) < 16 THEN Invalid
                     ELSE Uuid([n \in 1 .. 16 |-> f[1][16 - n + 1]], 16, "none")
    BY ReadIs DEF UUID_128BIT_BYTE_LENGTH
<1>2. Len(f[1]) = m + Len(f[at[m + 1]])
    BY <1>1, ReadsStart
<1>3. m \in Nat /\ at[m + 1] \in 1 .. Len(t) + 1
    BY DEF StartsWith
<1>4. f[at[m + 1]] = ReadStep(t, f, at[m + 1])
    BY <1>1, <1>3 DEF IsRead
<1>5. f[at[m + 1]] = <<>>
    BY <1>4 DEF ReadStep
<1>6. Len(f[1]) < 16
    <2>1. Len(<<>>) = 0
        BY EmptySeq
    <2> QED
        BY <1>2, <1>3, <1>5, <2>1
<1> QED
    BY <1>1, <1>6
------------------------------------------------------------------------------
(* The string of a long uuid.                                              *)
UuidPlaces == <<1, 3, 5, 7, 10, 12, 15, 17, 20, 22, 25, 27, 29, 31, 33, 35, 37>>
Hyphened   == {4, 6, 8, 10}

(* The places of the bytes, and of the hyphens.                            *)
LEMMA UuidPlacesAre ==
    /\ UuidPlaces \in [1 .. 17 -> Nat \ {0}] /\ UuidPlaces[1] = 1 /\ UuidPlaces[17] = 37
    /\ \A k \in 1 .. 16 :
          UuidPlaces[k + 1] = UuidPlaces[k] + (IF k \in Hyphened THEN 3 ELSE 2)
    /\ \A k, l \in 1 .. 17 : k <= l => UuidPlaces[k] <= UuidPlaces[l]
    /\ \A i \in 1 .. 36 : \E k \in 1 .. 16 :
          \/ i = UuidPlaces[k] \/ i = UuidPlaces[k] + 1
          \/ k \in Hyphened /\ i = UuidPlaces[k] + 2
<1> DEFINE P == UuidPlaces
<1>1. P \in [1 .. 17 -> Nat \ {0}]
    BY DEF UuidPlaces
<1>2. /\ P[1] = 1 /\ P[2] = 3 /\ P[3] = 5 /\ P[4] = 7 /\ P[5] = 10 /\ P[6] = 12
      /\ P[7] = 15 /\ P[8] = 17 /\ P[9] = 20 /\ P[10] = 22 /\ P[11] = 25 /\ P[12] = 27
      /\ P[13] = 29 /\ P[14] = 31 /\ P[15] = 33 /\ P[16] = 35 /\ P[17] = 37
    BY DEF UuidPlaces
<1> HIDE DEF P
<1>3. \A k \in 1 .. 17 :
          \/ k = 1
          \/ k = 2
          \/ k = 3
          \/ k = 4
          \/ k = 5
          \/ k = 6
          \/ k = 7
          \/ k = 8
          \/ k = 9
          \/ k = 10
          \/ k = 11
          \/ k = 12
          \/ k = 13
          \/ k = 14
          \/ k = 15
          \/ k = 16
          \/ k = 17
    OBVIOUS
<1>4. \A k \in 1 .. 16 : P[k + 1] = P[k] + (IF k \in Hyphened THEN 3 ELSE 2)
    BY <1>2, <1>3 DEF Hyphened
<1>5. \A k, l \in 1 .. 17 : k <= l => P[k] <= P[l]
    BY <1>2, <1>3
(* Any place is of the last byte that starts at or before it.              *)
<1>6. ASSUME NEW i \in 1 .. 36
      PROVE  \E k \in 1 .. 16 :
                 i = P[k] \/ i = P[k] + 1 \/ (k \in Hyphened /\ i = P[k] + 2)
    <2> DEFINE T == {k \in 1 .. 17 : P[k] > i}
    <2>1. T \in SUBSET Nat /\ T # {}
        <3>1. 17 \in T
            BY <1>2
        <3> QED
            BY <3>1
    <2>2. PICK l \in T : \A m \in T : l <= m
        BY <2>1, LeastOf
    <2>3. PICK k \in 1 .. 16 : l = k + 1
        <3>1. l # 1 /\ l \in 1 .. 17
            BY <1>2
        <3>2. l - 1 \in 1 .. 16 /\ l = (l - 1) + 1
            BY <3>1
        <3> QED
            BY <3>2
    <2>4. k \in 1 .. 17 /\ k \notin T /\ P[k] \in Nat
        BY <1>1, <2>2, <2>3
    <2>5. P[k] <= i /\ i < P[k + 1]
        BY <2>3, <2>4
    <2>6. P[k + 1] = P[k] + (IF k \in Hyphened THEN 3 ELSE 2)
        BY <1>4
    <2> QED
        BY <2>4, <2>5, <2>6
<1> QED
    BY <1>1, <1>2, <1>4, <1>5, <1>6 DEF P

(* A text of the bytes b, the highest first.                               *)
UuidText(t, b) ==
    /\ t \in Seq(Chars) /\ Len(t) = 36
    /\ b \in [1 .. 16 -> Byte]
    /\ \A k \in 1 .. 16 : HasByte(t, UuidPlaces[k], b[k])
    /\ \A k \in Hyphened : t[UuidPlaces[k] + 2] = "-"

(* They are within the text.                                               *)
LEMMA PlacesFit ==
    ASSUME NEW k \in 1 .. 16
    PROVE  /\ UuidPlaces[k] \in 1 .. 35 /\ UuidPlaces[k + 1] \in 1 .. 37
           /\ k \in Hyphened => UuidPlaces[k] + 2 <= 36
           /\ k \notin Hyphened => UuidPlaces[k + 1] = UuidPlaces[k] + 2
           /\ k \in Hyphened => UuidPlaces[k + 1] = UuidPlaces[k] + 3
<1>1. UuidPlaces[k + 1] = UuidPlaces[k] + (IF k \in Hyphened THEN 3 ELSE 2)
    BY UuidPlacesAre
<1>2. UuidPlaces[k + 1] <= UuidPlaces[17] /\ UuidPlaces[17] = 37
    <2>1. k + 1 \in 1 .. 17 /\ 17 \in 1 .. 17 /\ k + 1 <= 17
        OBVIOUS
    <2> QED
        BY <2>1, UuidPlacesAre
<1>3. UuidPlaces[k] \in Nat \ {0} /\ UuidPlaces[k + 1] \in Nat \ {0}
    BY UuidPlacesAre
<1> QED
    BY <1>1, <1>2, <1>3

(* Where two texts are the same.                                           *)
LEMMA SameByte ==
    ASSUME NEW s, NEW t, NEW p, NEW q, NEW b, HasByte(s, p, b),
           t[q] = s[p], t[q + 1] = s[p + 1]
    PROVE  HasByte(t, q, b)
    BY DEF HasByte

(* Such a text starts with its 16 bytes.                                   *)
LEMMA TextStarts ==
    ASSUME NEW t, NEW b, UuidText(t, b)
    PROVE  StartsWith(t, UuidPlaces, b, 16)
<1>1. Len(t) = 36 /\ 16 \in Nat /\ b \in [1 .. 16 -> Byte]
    BY DEF UuidText
<1>2. UuidPlaces \in [1 .. 16 + 1 -> Nat \ {0}] /\ UuidPlaces[1] = 1
    BY UuidPlacesAre
<1>3. UuidPlaces[16 + 1] <= Len(t) + 1
    BY <1>1, UuidPlacesAre
<1>4. ASSUME NEW k \in 1 .. 16
      PROVE  /\ b[k] \in Byte /\ HasByte(t, UuidPlaces[k], b[k])
             /\ UuidPlaces[k] + 1 <= Len(t)
             /\ \/ UuidPlaces[k + 1] = UuidPlaces[k] + 2
                \/ /\ UuidPlaces[k + 1] = UuidPlaces[k] + 3
                   /\ UuidPlaces[k] + 2 <= Len(t) /\ t[UuidPlaces[k] + 2] = "-"
    <2>1. HasByte(t, UuidPlaces[k], b[k]) /\ (k \in Hyphened => t[UuidPlaces[k] + 2] = "-")
        BY DEF UuidText
    <2>2. b[k] \in Byte
        BY <1>1
    <2>3. UuidPlaces[k] + 1 <= 36
        BY PlacesFit
    <2> QED
        BY <1>1, <2>1, <2>2, <2>3, PlacesFit
<1> QED
    BY <1>1, <1>2, <1>3, <1>4, Zenon DEF StartsWith

(* Such a text is read as its uuid.                                        *)
LEMMA TextReads ==
    ASSUME NEW t, NEW b, UuidText(t, b), NEW bytes \in [1 .. UUID_128BIT_BYTE_LENGTH -> Byte],
           Reversed(b, bytes)
    PROVE  UuidOf(t) = Uuid(bytes, UUID_128BIT_BYTE_LENGTH, "none")
<1>1. Len(t) = 36
    BY DEF UuidText
<1>2. StartsWith(t, UuidPlaces, b, 16)
    BY TextStarts
<1>3. 16 >= 16 /\ Len(t) \in Nat
    BY <1>1
<1>4. convertStringToUuid128Bit(t) = Uuid(bytes, UUID_128BIT_BYTE_LENGTH, "none")
    BY <1>2, <1>3, UuidReads, Zenon
<1> QED
    BY <1>1, <1>4 DEF UuidOf

(* A character that is none of the digits.                                 *)
LEMMA TextRefuses ==
    ASSUME NEW s, NEW b, UuidText(s, b), NEW i \in 1 .. 36, s[i] # "-"
    PROVE  UuidOf([s EXCEPT ![i] = "g"]) = Invalid
<1> DEFINE P == UuidPlaces
           t == [s EXCEPT ![i] = "g"]
<1>1. s \in Seq(Chars) /\ Len(s) = 36 /\ "g" \in Chars /\ b \in [1 .. 16 -> Byte]
    BY DEF UuidText, Chars
<1>2. Len(t) = 36 /\ \A j \in 1 .. 36 : t[j] = IF j = i THEN "g" ELSE s[j]
    <2>1. i \in 1 .. Len(s)
        BY <1>1
    <2>2. /\ Len(t) = Len(s)
          /\ \A j \in 1 .. Len(s) : t[j] = IF j = i THEN "g" ELSE s[j]
        BY <1>1, <2>1, ExceptSeq
    <2> QED
        BY <1>1, <2>2
<1>3. PICK k \in 1 .. 16 : i = P[k] \/ i = P[k] + 1
    <2>1. PICK k \in 1 .. 16 :
              \/ i = P[k] \/ i = P[k] + 1
              \/ k \in Hyphened /\ i = P[k] + 2
        BY UuidPlacesAre
    <2>2. k \in Hyphened => s[P[k] + 2] = "-"
        BY DEF UuidText
    <2> QED
        BY <2>1, <2>2
<1> DEFINE at == [j \in 1 .. k |-> P[j]]
<1> HIDE DEF t
<1>4. PICK m \in 0 .. 15 : m + 1 = k
    <2>1. k - 1 \in 0 .. 15 /\ (k - 1) + 1 = k
        OBVIOUS
    <2> QED
        BY <2>1
<1>5. P[k] \in 1 .. 35
    BY PlacesFit
<1>6. ~AreHex(t, P[k]) /\ t[P[k]] # "-"
    <2>1. HasByte(s, P[k], b[k])
        BY DEF UuidText
    <2>2. t[P[k]] = "g" \/ t[P[k] + 1] = "g"
        BY <1>2, <1>3, <1>5
    <2>3. ~AreHex(t, P[k])
        BY <2>2, ValuesAre DEF AreHex, IsHex
    <2>4. s[P[k]] # "-"
        <3>1. Values(s[P[k]]) # {}
            BY <2>1 DEF HasByte
        <3> QED
            BY <3>1, ValuesAre
    <2>5. t[P[k]] = "g" \/ t[P[k]] = s[P[k]]
        BY <1>2, <1>5
    <2> QED
        BY <2>3, <2>4, <2>5
<1>7. StartsWith(t, at, b, m)
    <2>1. m \in Nat /\ 1 .. m + 1 = 1 .. k
        BY <1>4
    <2>2. at \in [1 .. m + 1 -> Nat \ {0}] /\ at[1] = 1
        <3>1. \A j \in 1 .. k : j \in 1 .. 17
            OBVIOUS
        <3>2. \A j \in 1 .. k : P[j] \in Nat \ {0}
            BY <3>1, UuidPlacesAre
        <3>3. at \in [1 .. k -> Nat \ {0}]
            BY <3>2
        <3>4. at[1] = P[1]
            OBVIOUS
        <3> HIDE DEF at
        <3>5. P[1] = 1
            BY UuidPlacesAre
        <3> QED
            BY <2>1, <3>3, <3>4, <3>5, Zenon
    <2>3. at[m + 1] <= Len(t) + 1
        <3>1. at[m + 1] = P[k]
            BY <1>4
        <3> HIDE DEF at
        <3> QED
            BY <1>2, <1>5, <3>1
    <2>4. ASSUME NEW j \in 1 .. m
          PROVE  /\ b[j] \in Byte /\ HasByte(t, at[j], b[j]) /\ at[j] + 1 <= Len(t)
                 /\ \/ at[j + 1] = at[j] + 2
                    \/ at[j + 1] = at[j] + 3 /\ at[j] + 2 <= Len(t) /\ t[at[j] + 2] = "-"
        <3>1. j \in 1 .. 16 /\ j + 1 \in 1 .. 17 /\ j + 1 <= k /\ k \in 1 .. 17
            BY <1>4
        <3>2. at[j] = P[j] /\ at[j + 1] = P[j + 1]
            BY <3>1
        <3> HIDE DEF at
        <3>3. P[j + 1] <= P[k]
            BY <3>1, UuidPlacesAre
        <3>4. /\ P[j] \in 1 .. 35 /\ P[j + 1] \in 1 .. 37
              /\ j \in Hyphened => P[j] + 2 <= 36
              /\ j \notin Hyphened => P[j + 1] = P[j] + 2
              /\ j \in Hyphened => P[j + 1] = P[j] + 3
            BY <3>1, PlacesFit
        <3>5. /\ HasByte(s, P[j], b[j]) /\ b[j] \in Byte
              /\ j \in Hyphened => s[P[j] + 2] = "-"
            BY <3>1 DEF UuidText
        <3>6. t[P[j]] = s[P[j]] /\ t[P[j] + 1] = s[P[j] + 1]
            BY <1>2, <1>3, <1>5, <3>3, <3>4
        <3>7. j \in Hyphened => t[P[j] + 2] = s[P[j] + 2]
            BY <1>2, <1>3, <1>5, <3>3, <3>4
        <3>8. HasByte(t, P[j], b[j])
            BY <3>5, <3>6, SameByte
        <3>9. P[j] + 1 <= Len(t)
            BY <1>2, <3>4
        <3>10. \/ P[j + 1] = P[j] + 2
               \/ P[j + 1] = P[j] + 3 /\ P[j] + 2 <= Len(t) /\ t[P[j] + 2] = "-"
            BY <1>2, <3>4, <3>5, <3>7
        <3> QED
            BY <3>2, <3>5, <3>8, <3>9, <3>10
    <2> HIDE DEF at, P
    <2> QED
        BY <2>1, <2>2, <2>3, <2>4 DEF StartsWith
<1>8. convertStringToUuid128Bit(t) = Invalid
    <2>1. at[m + 1] = P[k]
        BY <1>4
    <2>2. m < 16 /\ Len(t) \in Nat
        BY <1>2
    <2> HIDE DEF at
    <2>3. ~AreHex(t, at[m + 1]) /\ t[at[m + 1]] # "-"
        BY <1>6, <2>1
    <2> QED
        BY <1>7, <2>2, <2>3, UuidRefuses
<1>9. UuidOf(t) = Invalid
    BY <1>2, <1>8 DEF UuidOf
<1> QED
    BY <1>9 DEF t

(* A hyphen left out at its place, and put in at the end.                  *)
LEMMA MovedIs ==
    ASSUME NEW R, NEW s \in Seq(R), NEW i \in 1 .. Len(s), NEW c \in R
    PROVE  LET t == Append(RemoveAt(s, i), c) IN
           /\ Len(t) = Len(s)
           /\ \A p \in 1 .. Len(s) :
                 t[p] = IF p < i THEN s[p] ELSE IF p < Len(s) THEN s[p + 1] ELSE c
<1> DEFINE n     == Len(s)
           front == SubSeq(s, 1, i - 1)
           back  == SubSeq(s, i + 1, n)
           t     == Append(front \o back, c)
<1>1. n \in Nat /\ i \in 1 .. n /\ \A p \in 1 .. n : s[p] \in R
    BY LenProperties
<1>2. RemoveAt(s, i) = front \o back
    BY DEF RemoveAt
<1> HIDE DEF n
<1>3. front \in Seq(R) /\ Len(front) = i - 1 /\ \A p \in 1 .. i - 1 : front[p] = s[p]
    <2>1. \A p \in 1 .. i - 1 : s[p] \in R
        BY <1>1
    <2>2. /\ front \in Seq(R) /\ Len(front) = IF 1 <= i - 1 THEN i - 1 - 1 + 1 ELSE 0
          /\ \A p \in 1 .. i - 1 - 1 + 1 : front[p] = s[1 + p - 1]
        BY <1>1, <2>1, SubSeqProperties
    <2>3. /\ (IF 1 <= i - 1 THEN i - 1 - 1 + 1 ELSE 0) = i - 1
          /\ i - 1 - 1 + 1 = i - 1
          /\ \A p \in 1 .. i - 1 : 1 + p - 1 = p
        BY <1>1
    <2> HIDE DEF front
    <2> QED
        BY <2>2, <2>3
<1>4. back \in Seq(R) /\ Len(back) = n - i /\ \A p \in 1 .. n - i : back[p] = s[p + i]
    <2>1. \A p \in i + 1 .. n : s[p] \in R
        BY <1>1
    <2>2. /\ back \in Seq(R) /\ Len(back) = IF i + 1 <= n THEN n - (i + 1) + 1 ELSE 0
          /\ \A p \in 1 .. n - (i + 1) + 1 : back[p] = s[(i + 1) + p - 1]
        BY <1>1, <2>1, SubSeqProperties
    <2>3. /\ (IF i + 1 <= n THEN n - (i + 1) + 1 ELSE 0) = n - i
          /\ n - (i + 1) + 1 = n - i
          /\ \A p \in 1 .. n - i : (i + 1) + p - 1 = p + i
        BY <1>1
    <2> HIDE DEF back
    <2> QED
        BY <2>2, <2>3
<1> HIDE DEF front, back
<1>5. /\ front \o back \in Seq(R) /\ Len(front \o back) = n - 1
      /\ \A p \in 1 .. n - 1 : (front \o back)[p] = IF p <= i - 1 THEN front[p] ELSE back[p - (i - 1)]
    <2>1. /\ front \o back \in Seq(R) /\ Len(front \o back) = Len(front) + Len(back)
          /\ \A p \in 1 .. Len(front) + Len(back) :
                (front \o back)[p] = IF p <= Len(front) THEN front[p] ELSE back[p - Len(front)]
        BY <1>3, <1>4, ConcatProperties
    <2>2. Len(front) = i - 1 /\ Len(back) = n - i /\ (i - 1) + (n - i) = n - 1
        BY <1>1, <1>3, <1>4
    <2> QED
        BY <2>1, <2>2
<1>6. \A p \in 1 .. n - 1 : (front \o back)[p] = IF p < i THEN s[p] ELSE s[p + 1]
    <2> SUFFICES ASSUME NEW p \in 1 .. n - 1
                 PROVE  (front \o back)[p] = IF p < i THEN s[p] ELSE s[p + 1]
        OBVIOUS
    <2>1. CASE p < i
        <3>1. p \in 1 .. i - 1 /\ p <= i - 1
            BY <1>1, <2>1
        <3> QED
            BY <1>3, <1>5, <2>1, <3>1
    <2>2. CASE ~(p < i)
        <3>1. PICK q \in 1 .. n - i : q = p - (i - 1) /\ q + i = p + 1 /\ ~(p <= i - 1)
            <4>1. p - (i - 1) \in 1 .. n - i /\ p - (i - 1) + i = p + 1 /\ ~(p <= i - 1)
                BY <1>1, <2>2
            <4> QED
                BY <4>1
        <3>2. (front \o back)[p] = back[q]
            BY <1>5, <3>1
        <3>3. back[q] = s[p + 1]
            BY <1>4, <3>1
        <3> QED
            BY <2>2, <3>2, <3>3
    <2> QED
        BY <2>1, <2>2
<1> DEFINE u == front \o back
<1> HIDE DEF u
<1>7. u \in Seq(R) /\ Len(u) = n - 1
    BY <1>5 DEF u
<1>8. /\ Len(Append(u, c)) = Len(u) + 1
      /\ \A p \in 1 .. Len(u) : Append(u, c)[p] = u[p]
      /\ Append(u, c)[Len(u) + 1] = c
    BY <1>7, AppendProperties
<1>9. /\ Len(Append(u, c)) = n
      /\ \A p \in 1 .. n :
            Append(u, c)[p] = IF p < i THEN s[p] ELSE IF p < n THEN s[p + 1] ELSE c
    <2>1. Len(Append(u, c)) = n /\ Append(u, c)[n] = c
        <3>1. (n - 1) + 1 = n
            BY <1>1
        <3> QED
            BY <1>7, <1>8, <3>1
    <2>2. ASSUME NEW p \in 1 .. n
          PROVE  Append(u, c)[p] = IF p < i THEN s[p] ELSE IF p < n THEN s[p + 1] ELSE c
        <3>1. CASE p = n
            <4>1. ~(p < i) /\ ~(p < n)
                BY <1>1, <3>1
            <4> QED
                BY <2>1, <3>1, <4>1
        <3>2. CASE p # n
            <4>1. p \in 1 .. n - 1 /\ p < n
                BY <1>1, <3>2
            <4>2. Append(u, c)[p] = u[p]
                BY <1>7, <1>8, <4>1
            <4>3. u[p] = IF p < i THEN s[p] ELSE s[p + 1]
                BY <1>6, <4>1 DEF u
            <4> QED
                BY <4>1, <4>2, <4>3
        <3> QED
            BY <3>1, <3>2
    <2> QED
        BY <2>1, <2>2
<1> QED
    BY <1>2, <1>9 DEF u, n

(* The text still starts with its 16 bytes.                                *)
LEMMA MovedStarts ==
    ASSUME NEW s, NEW b, UuidText(s, b), NEW i \in 1 .. 36, s[i] = "-"
    PROVE  /\ Len(Append(RemoveAt(s, i), "-")) = 36
           /\ \E at : StartsWith(Append(RemoveAt(s, i), "-"), at, b, 16)
<1> DEFINE P == UuidPlaces
           t == Append(RemoveAt(s, i), "-")
<1>1. s \in Seq(Chars) /\ Len(s) = 36 /\ "-" \in Chars /\ b \in [1 .. 16 -> Byte]
    BY DEF UuidText, Chars
<1>2. /\ Len(t) = 36
      /\ \A p \in 1 .. 36 : t[p] = IF p < i THEN s[p] ELSE IF p < 36 THEN s[p + 1] ELSE "-"
    <2>1. i \in 1 .. Len(s)
        BY <1>1
    <2>2. /\ Len(t) = Len(s)
          /\ \A p \in 1 .. Len(s) :
                t[p] = IF p < i THEN s[p] ELSE IF p < Len(s) THEN s[p + 1] ELSE "-"
        <3>1. s \in Seq(Chars) /\ "-" \in Chars
            BY <1>1
        <3> QED
            BY <2>1, <3>1, MovedIs
    <2> QED
        BY <1>1, <2>2
<1> HIDE DEF t
<1>3. PICK h \in 1 .. 16 : h \in Hyphened /\ i = P[h] + 2
    <2>1. PICK k \in 1 .. 16 :
              \/ i = P[k] \/ i = P[k] + 1
              \/ k \in Hyphened /\ i = P[k] + 2
        BY UuidPlacesAre
    <2>2. HasByte(s, P[k], b[k])
        BY DEF UuidText
    <2>3. s[P[k]] # "-" /\ s[P[k] + 1] # "-"
        <3>1. Values(s[P[k]]) # {} /\ Values(s[P[k] + 1]) # {}
            BY <2>2 DEF HasByte
        <3> QED
            BY <3>1, ValuesAre
    <2> QED
        BY <2>1, <2>3
<1> DEFINE at == [k \in 1 .. 17 |-> IF k <= h THEN P[k] ELSE P[k] - 1]
<1>4. \A k \in 1 .. 17 : at[k] = IF k <= h THEN P[k] ELSE P[k] - 1
    OBVIOUS
<1>5. at \in [1 .. 17 -> Nat \ {0}]
    <2>1. \A k \in 1 .. 17 : P[k] \in Nat \ {0}
        BY UuidPlacesAre
    <2>2. \A k \in 1 .. 17 : ~(k <= h) => P[k] - 1 \in Nat \ {0}
        <3> SUFFICES ASSUME NEW k \in 1 .. 17, ~(k <= h)
                     PROVE  P[k] - 1 \in Nat \ {0}
            OBVIOUS
        <3>1. h + 1 \in 1 .. 17 /\ h + 1 <= k
            BY <1>3
        <3>2. P[h + 1] <= P[k] /\ P[h + 1] = P[h] + 3 /\ P[h] \in 1 .. 35
            BY <1>3, <3>1, UuidPlacesAre, PlacesFit
        <3>3. P[k] \in Nat
            BY <2>1
        <3> QED
            BY <3>2, <3>3
    <2> QED
        BY <2>1, <2>2
<1> HIDE DEF at
<1>6. ASSUME NEW k \in 1 .. 16
      PROVE  /\ b[k] \in Byte /\ HasByte(t, at[k], b[k]) /\ at[k] + 1 <= Len(t)
             /\ \/ at[k + 1] = at[k] + 2
                \/ at[k + 1] = at[k] + 3 /\ at[k] + 2 <= Len(t) /\ t[at[k] + 2] = "-"
    <2>1. k \in 1 .. 17 /\ k + 1 \in 1 .. 17 /\ h + 1 \in 1 .. 17 /\ h \in 1 .. 17
        BY <1>3
    <2>2. /\ P[k] \in 1 .. 35 /\ P[k + 1] \in 1 .. 37
          /\ k \in Hyphened => P[k] + 2 <= 36
          /\ k \notin Hyphened => P[k + 1] = P[k] + 2
          /\ k \in Hyphened => P[k + 1] = P[k] + 3
        BY PlacesFit
    <2>3. P[h] \in 1 .. 35 /\ P[h + 1] = P[h] + 3
        BY <1>3, PlacesFit
    <2>4. /\ HasByte(s, P[k], b[k]) /\ b[k] \in Byte
          /\ k \in Hyphened => s[P[k] + 2] = "-"
        BY <1>1 DEF UuidText
    <2>5. CASE k <= h
        <3>1. at[k] = P[k]
            BY <1>4, <2>1, <2>5
        <3>2. P[k] <= P[h]
            BY <2>1, <2>5, UuidPlacesAre
        <3>3. P[k] < i /\ P[k] + 1 < i /\ P[k] + 1 <= 36 /\ P[k] \in 1 .. 36 /\ P[k] + 1 \in 1 .. 36
            BY <1>3, <2>2, <2>3, <3>2
        <3>4. t[P[k]] = s[P[k]] /\ t[P[k] + 1] = s[P[k] + 1]
            BY <1>2, <3>3
        <3>5. HasByte(t, P[k], b[k])
            BY <2>4, <3>4, SameByte
        <3>6. CASE k = h
            <4>1. at[k + 1] = P[k + 1] - 1
                BY <1>4, <2>1, <3>6
            <4>2. at[k + 1] = at[k] + 2
                BY <2>3, <3>1, <3>6, <4>1
            <4> QED
                BY <1>2, <2>4, <3>1, <3>3, <3>5, <4>2
        <3>7. CASE k # h
            <4>1. k + 1 <= h
                BY <1>3, <2>5, <3>7
            <4>2. at[k + 1] = P[k + 1]
                BY <1>4, <2>1, <4>1
            <4>3. P[k + 1] <= P[h]
                BY <2>1, <4>1, UuidPlacesAre
            <4>4. k \in Hyphened => P[k] + 2 < i /\ P[k] + 2 \in 1 .. 36
                BY <1>3, <2>2, <2>3, <4>3
            <4>5. k \in Hyphened => t[P[k] + 2] = "-"
                BY <1>2, <2>4, <4>4
            <4>6. \/ at[k + 1] = at[k] + 2
                  \/ at[k + 1] = at[k] + 3 /\ at[k] + 2 <= Len(t) /\ t[at[k] + 2] = "-"
                BY <1>2, <2>2, <3>1, <4>2, <4>4, <4>5
            <4> QED
                BY <1>2, <2>4, <3>1, <3>3, <3>5, <4>6
        <3> QED
            BY <3>6, <3>7
    <2>6. CASE ~(k <= h)
        <3>1. ~(k + 1 <= h) /\ h + 1 <= k
            BY <1>3, <2>6
        <3>2. at[k] = P[k] - 1 /\ at[k + 1] = P[k + 1] - 1
            BY <1>4, <2>1, <2>6, <3>1
        <3>3. P[h + 1] <= P[k]
            BY <2>1, <3>1, UuidPlacesAre
        <3>4. PICK p \in 1 .. 34 : P[k] = p + 1 /\ at[k] = p /\ ~(p < i)
            <4>1. P[k] - 1 \in 1 .. 34 /\ P[k] = (P[k] - 1) + 1 /\ ~(P[k] - 1 < i)
                BY <1>3, <2>2, <2>3, <3>3
            <4> QED
                BY <3>2, <4>1
        <3>5. t[p] = s[p + 1] /\ t[p + 1] = s[(p + 1) + 1]
            <4>1. p \in 1 .. 36 /\ p < 36 /\ ~(p < i)
                BY <3>4
            <4>2. p + 1 \in 1 .. 36 /\ p + 1 < 36 /\ ~(p + 1 < i)
                BY <3>4
            <4> QED
                BY <1>2, <4>1, <4>2
        <3>6. HasByte(t, p, b[k])
            <4>1. HasByte(s, p + 1, b[k])
                BY <2>4, <3>4
            <4> QED
                BY <3>5, <4>1, SameByte
        <3>7. k \in Hyphened => t[p + 2] = "-" /\ p + 2 <= 36
            <4>1. k \in Hyphened => p + 2 \in 1 .. 36 /\ p + 2 < 36 /\ ~(p + 2 < i)
                BY <2>2, <3>4
            <4>2. k \in Hyphened => t[p + 2] = s[(p + 2) + 1]
                BY <1>2, <4>1
            <4>3. (p + 2) + 1 = P[k] + 2
                BY <3>4
            <4> QED
                BY <2>4, <4>1, <4>2, <4>3
        <3>8. \/ at[k + 1] = p + 2
              \/ at[k + 1] = p + 3 /\ p + 2 <= 36 /\ t[p + 2] = "-"
            BY <2>2, <3>2, <3>4, <3>7
        <3>9. p + 1 <= Len(t)
            BY <1>2
        <3> QED
            BY <1>2, <2>4, <3>4, <3>6, <3>8, <3>9
    <2> QED
        BY <2>5, <2>6
<1>7. at[1] = 1 /\ at[17] = 36
    <2>1. 1 <= h /\ ~(17 <= h)
        BY <1>3
    <2>2. at[1] = P[1] /\ at[17] = P[17] - 1
        BY <1>4, <2>1
    <2> QED
        BY <2>2, UuidPlacesAre
<1>8. StartsWith(t, at, b, 16)
    <2>1. at \in [1 .. 16 + 1 -> Nat \ {0}] /\ 16 \in Nat
        BY <1>5
    <2>2. at[16 + 1] <= Len(t) + 1
        BY <1>2, <1>7
    <2> QED
        BY <1>6, <1>7, <2>1, <2>2, Zenon DEF StartsWith
<1> QED
    BY <1>2, <1>8 DEF t

LEMMA TextWithHyphenMoved ==
    ASSUME NEW s, NEW b, UuidText(s, b), NEW i \in 1 .. 36, s[i] = "-",
           NEW bytes \in [1 .. UUID_128BIT_BYTE_LENGTH -> Byte],
           Reversed(b, bytes)
    PROVE  UuidOf(Append(RemoveAt(s, i), "-")) = Uuid(bytes, UUID_128BIT_BYTE_LENGTH, "none")
<1> DEFINE t == Append(RemoveAt(s, i), "-")
<1>1. Len(t) = 36 /\ \E at : StartsWith(t, at, b, 16)
    BY MovedStarts
<1> HIDE DEF t
<1>2. PICK at : StartsWith(t, at, b, 16)
    BY <1>1
<1>3. 16 >= 16 /\ Len(t) \in Nat
    BY <1>1
<1>4. convertStringToUuid128Bit(t) = Uuid(bytes, UUID_128BIT_BYTE_LENGTH, "none")
    BY <1>2, <1>3, UuidReads, Zenon
<1>5. UuidOf(t) = Uuid(bytes, UUID_128BIT_BYTE_LENGTH, "none")
    BY <1>1, <1>4 DEF UuidOf
<1> QED
    BY <1>5 DEF t

(* The string of a long uuid is such a text.                               *)
LEMMA FullStringIs ==
    ASSUME NEW u, u.bytes \in [1 .. UUID_128BIT_BYTE_LENGTH -> Byte]
    PROVE  \E b : /\ UuidText(fullString(u), b)
                  /\ Reversed(b, u.bytes)
<1> DEFINE bytes == u.bytes
<1> DEFINE between == [k \in 1 .. 16 |-> IF k \in {4, 6, 8, 10} THEN <<"-">> ELSE <<>>]
           s == [k \in 1 .. 16 |-> convertByteToTwoHexChars(u.bytes[16 - k + 1]) \o between[k]]
           b == [k \in 1 .. 16 |-> bytes[17 - k]]
<1>1. fullString(u) = FlattenSeq(s)
    BY DEF fullString, UUID_128BIT_BYTE_LENGTH
<1>2. \A k \in 1 .. 16 : /\ u.bytes[16 - k + 1] = b[k]
                         /\ b[k] \in Byte
                         /\ b[k] = bytes[17 - k]
    <2>1. \A k \in 1 .. 16 : 16 - k + 1 = 17 - k /\ 17 - k \in 1 .. 16
        OBVIOUS
    <2> QED
        BY <2>1 DEF UUID_128BIT_BYTE_LENGTH
<1>3. b \in [1 .. 16 -> Byte]
    BY <1>2
<1> HIDE DEF b
<1>4. \A k \in 1 .. 16 :
          /\ between[k] \in Seq(Chars)
          /\ Len(between[k]) = IF k \in Hyphened THEN 1 ELSE 0
    <2>1. <<"-">> \in Seq(Chars) /\ Len(<<"-">>) = 1
        BY DEF Chars
    <2>2. <<>> \in Seq(Chars) /\ Len(<<>>) = 0
        BY EmptySeq
    <2> QED
        BY <2>1, <2>2 DEF Hyphened
<1>5. \A k \in 1 .. 16 : k \in Hyphened => between[k][1] = "-"
    BY DEF Hyphened
<1>6. \A k \in 1 .. 16 : s[k] = convertByteToTwoHexChars(b[k]) \o between[k]
    BY <1>2
<1> HIDE DEF between
<1>7. s = [k \in 1 .. 16 |-> s[k]]
    OBVIOUS
<1> HIDE DEF s
<1>8. \A k \in 1 .. 16 :
          /\ s[k] \in Seq(Chars) /\ Len(s[k]) = IF k \in Hyphened THEN 3 ELSE 2
          /\ Values(s[k][1]) = {b[k] \div 16} /\ Values(s[k][2]) = {b[k] % 16}
          /\ k \in Hyphened => s[k][3] = "-"
    <2> SUFFICES ASSUME NEW k \in 1 .. 16
                 PROVE  /\ s[k] \in Seq(Chars) /\ Len(s[k]) = IF k \in Hyphened THEN 3 ELSE 2
                        /\ Values(s[k][1]) = {b[k] \div 16} /\ Values(s[k][2]) = {b[k] % 16}
                        /\ k \in Hyphened => s[k][3] = "-"
        OBVIOUS
    <2> DEFINE piece == convertByteToTwoHexChars(b[k]) \o between[k]
    <2>1. /\ between[k] \in Seq(Chars) /\ Len(between[k]) <= 1 /\ b[k] \in Byte
          /\ k \in Hyphened => Len(between[k]) = 1 /\ between[k][1] = "-"
          /\ 2 + Len(between[k]) = IF k \in Hyphened THEN 3 ELSE 2
        <3>1. between[k] \in Seq(Chars) /\ Len(between[k]) = IF k \in Hyphened THEN 1 ELSE 0
            BY <1>4
        <3>2. Len(between[k]) <= 1 /\ 2 + Len(between[k]) = IF k \in Hyphened THEN 3 ELSE 2
            BY <3>1
        <3>3. b[k] \in Byte /\ (k \in Hyphened => between[k][1] = "-")
            BY <1>2, <1>5
        <3> QED
            BY <3>1, <3>2, <3>3
    <2>2. /\ piece \in Seq(Chars) /\ Len(piece) = 2 + Len(between[k])
          /\ Values(piece[1]) = {b[k] \div 16} /\ Values(piece[2]) = {b[k] % 16}
          /\ Len(between[k]) = 1 => piece[3] = between[k][1]
        BY <2>1, PieceIs
    <2>3. s[k] = piece
        BY <1>6
    <2> HIDE DEF piece
    <2> QED
        BY <2>1, <2>2, <2>3
<1>9. s \in Seq(Seq(Chars)) /\ Len(s) = 16
    <2>1. s \in [1 .. 16 -> Seq(Chars)]
        BY <1>7, <1>8
    <2>2. PICK n \in Nat : n = 16
        OBVIOUS
    <2>3. s \in [1 .. n -> Seq(Chars)]
        BY <2>1, <2>2
    <2>4. s \in Seq(Seq(Chars)) /\ Len(s) = n
        BY <2>3, FunctionIsSeq
    <2> QED
        BY <2>2, <2>4
<1>10. PiecesAt(s, 16, UuidPlaces)
    <2>1. UuidPlaces \in [1 .. 16 + 1 -> Nat]
        BY UuidPlacesAre
    <2>2. \A k \in 1 .. 16 : UuidPlaces[k + 1] = UuidPlaces[k] + Len(s[k])
        BY <1>8, UuidPlacesAre
    <2> QED
        BY <1>9, <2>1, <2>2, UuidPlacesAre DEF PiecesAt
<1>11. FlattenSeq(s) \in Seq(Chars) /\ Len(FlattenSeq(s)) = 36
    <2>1. FlattenSeq(s) \in Seq(Chars) /\ Len(FlattenSeq(s)) = UuidPlaces[16 + 1] - 1
        BY <1>10, TextOfPieces
    <2> QED
        BY <2>1, UuidPlacesAre
<1>12. \A k \in 1 .. 16 :
           /\ HasByte(FlattenSeq(s), UuidPlaces[k], b[k])
           /\ Len(s[k]) = 3 => FlattenSeq(s)[UuidPlaces[k] + 2] = s[k][3]
    <2>1. \A k \in 1 .. 16 : /\ Len(s[k]) \in {2, 3}
                             /\ Values(s[k][1]) = {b[k] \div 16}
                             /\ Values(s[k][2]) = {b[k] % 16}
        BY <1>8
    <2>2. \A k \in 1 .. 16 :
              /\ HasByte(FlattenSeq(s), UuidPlaces[k], b[k])
              /\ UuidPlaces[k] + 1 <= Len(FlattenSeq(s))
              /\ Len(s[k]) = 3 => /\ FlattenSeq(s)[UuidPlaces[k] + 2] = s[k][3]
                                  /\ UuidPlaces[k] + 2 <= Len(FlattenSeq(s))
        BY <1>10, <2>1, TextHasBytes, Zenon
    <2> QED
        BY <2>2
<1>13. \A k \in Hyphened : FlattenSeq(s)[UuidPlaces[k] + 2] = "-"
    <2>1. \A k \in Hyphened : k \in 1 .. 16
        BY DEF Hyphened
    <2> QED
        BY <1>8, <1>12, <2>1
<1>14. UuidText(FlattenSeq(s), b)
    BY <1>3, <1>11, <1>12, <1>13 DEF UuidText
<1> QED
    BY <1>1, <1>2, <1>14 DEF Reversed

(* So it is in lower case.                                                 *)
LEMMA LowerText ==
    ASSUME NEW s, NEW b, UuidText(s, b)
    PROVE  UuidText(Lower(s), b)
<1>1. s \in Seq(Chars) /\ Len(s) = 36 /\ b \in [1 .. 16 -> Byte]
    BY DEF UuidText
<1>2. /\ Lower(s) \in Seq(Chars) /\ Len(Lower(s)) = 36
      /\ \A i \in 1 .. 36 : Lower(s)[i] = LowerOf(s[i])
    BY <1>1, LowerIs
<1>3. ASSUME NEW k \in 1 .. 16
      PROVE  HasByte(Lower(s), UuidPlaces[k], b[k])
    <2>1. HasByte(s, UuidPlaces[k], b[k])
        BY DEF UuidText
    <2>2. UuidPlaces[k] \in 1 .. Len(s) /\ UuidPlaces[k] + 1 <= Len(s)
        <3>1. Len(s) = 36
            BY <1>1
        <3>2. UuidPlaces[k] \in 1 .. 35
            BY PlacesFit
        <3> QED
            BY <3>1, <3>2
    <2> QED
        BY <1>1, <2>1, <2>2, LowerHasByte
<1>4. ASSUME NEW k \in Hyphened
      PROVE  Lower(s)[UuidPlaces[k] + 2] = "-"
    <2>1. k \in 1 .. 16
        BY DEF Hyphened
    <2>2. UuidPlaces[k] + 2 \in 1 .. 36
        BY <2>1, PlacesFit
    <2>3. s[UuidPlaces[k] + 2] = "-"
        BY DEF UuidText
    <2> QED
        BY <1>2, <2>2, <2>3, LowerKeeps
<1> QED
    BY <1>1, <1>2, <1>3, <1>4 DEF UuidText

LEMMA LongText ==
    ASSUME NEW bytes \in [1 .. UUID_128BIT_BYTE_LENGTH -> Byte], NEW s, NEW b, UuidText(s, b),
           Reversed(b, bytes)
    PROVE  /\ DOMAIN s = 1 .. 36
           /\ UuidOf(s) = Uuid(bytes, UUID_128BIT_BYTE_LENGTH, "none")
           /\ UuidOf(Lower(s)) = Uuid(bytes, UUID_128BIT_BYTE_LENGTH, "none")
           /\ \A i \in 1 .. 36 : s[i] = "-" =>
                 UuidOf(Append(RemoveAt(s, i), "-")) = Uuid(bytes, UUID_128BIT_BYTE_LENGTH, "none")
           /\ \A i \in 1 .. 36 : s[i] # "-" => UuidOf([s EXCEPT ![i] = "g"]) = Invalid
<1>1. DOMAIN s = 1 .. 36
    <2>1. s \in Seq(Chars) /\ Len(s) = 36
        BY DEF UuidText
    <2> QED
        BY <2>1, LenProperties
<1>2. UuidOf(s) = Uuid(bytes, UUID_128BIT_BYTE_LENGTH, "none")
    BY TextReads
<1>3. UuidOf(Lower(s)) = Uuid(bytes, UUID_128BIT_BYTE_LENGTH, "none")
    <2>1. UuidText(Lower(s), b)
        BY LowerText
    <2> QED
        BY <2>1, TextReads
<1>4. ASSUME NEW i \in 1 .. 36, s[i] = "-"
      PROVE  UuidOf(Append(RemoveAt(s, i), "-")) = Uuid(bytes, UUID_128BIT_BYTE_LENGTH, "none")
    BY <1>4, TextWithHyphenMoved
<1>5. ASSUME NEW i \in 1 .. 36, s[i] # "-"
      PROVE  UuidOf([s EXCEPT ![i] = "g"]) = Invalid
    BY <1>5, TextRefuses
<1> QED
    BY <1>1, <1>2, <1>3, <1>4, <1>5

(* From a long uuid to its string and back.                                *)
LEMMA LongRoundTrip ==
    ASSUME NEW bytes \in [1 .. UUID_128BIT_BYTE_LENGTH -> Byte],
           NEW u, u = Uuid(bytes, UUID_128BIT_BYTE_LENGTH, "none"),
           NEW s, s = UuidString(u)
    PROVE  /\ DOMAIN s = 1 .. 36
           /\ \A t \in {s, Lower(s)} : UuidOf(t) = u
           /\ \A i \in 1 .. 36 : s[i] = "-" => UuidOf(Append(RemoveAt(s, i), "-")) = u
           /\ \A i \in 1 .. 36 : s[i] # "-" => UuidOf([s EXCEPT ![i] = "g"]) = Invalid
<1>1. u.length = UUID_128BIT_BYTE_LENGTH /\ u.bytes = bytes
    BY DEF Uuid
<1>2. s = fullString(u)
    BY <1>1 DEF UuidString
<1>3. PICK b : UuidText(fullString(u), b) /\ Reversed(b, u.bytes)
    <2>1. u.bytes \in [1 .. UUID_128BIT_BYTE_LENGTH -> Byte]
        BY <1>1
    <2> QED
        BY <2>1, FullStringIs, Zenon
<1>4. UuidText(s, b) /\ Reversed(b, bytes)
    BY <1>1, <1>2, <1>3
<1>5. /\ DOMAIN s = 1 .. 36
      /\ UuidOf(s) = Uuid(bytes, UUID_128BIT_BYTE_LENGTH, "none")
      /\ UuidOf(Lower(s)) = Uuid(bytes, UUID_128BIT_BYTE_LENGTH, "none")
      /\ \A i \in 1 .. 36 : s[i] = "-" =>
            UuidOf(Append(RemoveAt(s, i), "-")) = Uuid(bytes, UUID_128BIT_BYTE_LENGTH, "none")
      /\ \A i \in 1 .. 36 : s[i] # "-" => UuidOf([s EXCEPT ![i] = "g"]) = Invalid
    BY <1>4, LongText, Zenon
<1> QED
    BY <1>5

(* The string of a short uuid.                                             *)
ShortText(t, low, high) ==
    t \in Seq(Chars) /\ Len(t) = 4 /\ HasByte(t, 1, high) /\ HasByte(t, 3, low)

LEMMA ShortStringIs ==
    ASSUME NEW low \in Byte, NEW high \in Byte, NEW u, u = UuidFrom(low, high, "standard")
    PROVE  ShortText(UuidString(u), low, high)
<1> DEFINE first  == convertByteToTwoHexChars(high)
           second == convertByteToTwoHexChars(low)
           s == first \o second
<1>1. InBase(low, high)[13] = low /\ InBase(low, high)[14] = high
    <2>1. DOMAIN BASE_UUID_128BIT = 1 .. 16
        BY DEF BASE_UUID_128BIT
    <2>2. 12 + 1 = 13 /\ 12 + 2 = 14 /\ 13 \in 1 .. 16 /\ 14 \in 1 .. 16
        OBVIOUS
    <2> QED
        BY <2>1, <2>2 DEF InBase, BASE_UUID_OFFSET_16BIT
<1>2. UuidString(u) = s
    <2>1. /\ u.length = 2 /\ u.bytes = InBase(low, high)
        BY DEF UuidFrom, Uuid, UUID_16BIT_BYTE_LENGTH
    <2>2. UuidString(u) = convertByteToTwoHexChars(u.bytes[14])
                              \o convertByteToTwoHexChars(u.bytes[13])
        BY <2>1 DEF UuidString, UUID_128BIT_BYTE_LENGTH, BASE_UUID_OFFSET_16BIT
    <2> QED
        BY <1>1, <2>1, <2>2
<1>3. /\ first \in Seq(Chars) /\ Len(first) = 2
      /\ Values(first[1]) = {high \div 16} /\ Values(first[2]) = {high % 16}
    BY WritesByte
<1>4. /\ second \in Seq(Chars) /\ Len(second) = 2
      /\ Values(second[1]) = {low \div 16} /\ Values(second[2]) = {low % 16}
    BY WritesByte
<1> HIDE DEF first, second
<1>5. /\ s \in Seq(Chars) /\ Len(s) = Len(first) + Len(second)
      /\ \A i \in 1 .. Len(first) + Len(second) :
            s[i] = IF i <= Len(first) THEN first[i] ELSE second[i - Len(first)]
    BY <1>3, <1>4, ConcatProperties
<1> HIDE DEF s
<1>6. Len(s) = 4 /\ s[1] = first[1] /\ s[2] = first[2] /\ s[3] = second[1] /\ s[4] = second[2]
    BY <1>3, <1>4, <1>5
<1>7. HasByte(s, 1, high)
    <2>1. 1 + 1 = 2
        OBVIOUS
    <2> QED
        BY <1>3, <1>6, <2>1 DEF HasByte
<1>8. HasByte(s, 3, low)
    <2>1. 3 + 1 = 4
        OBVIOUS
    <2> QED
        BY <1>4, <1>6, <2>1 DEF HasByte
<1> QED
    BY <1>2, <1>5, <1>6, <1>7, <1>8 DEF ShortText

(* It is read as its uuid.                                                 *)
LEMMA ShortReads ==
    ASSUME NEW t, NEW low \in Byte, NEW high \in Byte, ShortText(t, low, high)
    PROVE  UuidOf(t) = UuidFrom(low, high, "standard")
<1>1. Len(t) = 4 /\ HasByte(t, 1, high) /\ HasByte(t, 3, low)
    BY DEF ShortText
<1>2. AreHex(t, 1) /\ convertTwoHexCharsToByte(t, 1) = high
    <2>1. 1 \in Nat /\ 1 + 1 <= Len(t)
        BY <1>1
    <2> QED
        BY <1>1, <2>1, ReadsByte, Zenon
<1>3. AreHex(t, 3) /\ convertTwoHexCharsToByte(t, 3) = low
    <2>1. 3 \in Nat /\ 3 + 1 <= Len(t)
        BY <1>1
    <2> QED
        BY <1>1, <2>1, ReadsByte, Zenon
<1>4. convertStringToUuid16Bit(t) = Uuid(InBase(low, high), UUID_16BIT_BYTE_LENGTH, "standard")
    BY <1>2, <1>3 DEF convertStringToUuid16Bit
<1>5. UuidOf(t) = convertStringToUuid16Bit(t)
    BY <1>1 DEF UuidOf
<1> QED
    BY <1>4, <1>5 DEF UuidFrom

(* It is not read with a character that is no digit.                       *)
LEMMA ShortRefuses ==
    ASSUME NEW t, Len(t) = 4, NEW i \in 1 .. 4, Values(t[i]) = {}
    PROVE  UuidOf(t) = Invalid
<1>1. ~(AreHex(t, 1) /\ AreHex(t, 3))
    <2>1. i = 1 \/ i = 1 + 1 \/ i = 3 \/ i = 3 + 1
        OBVIOUS
    <2> QED
        BY <2>1 DEF AreHex, IsHex
<1>2. convertStringToUuid16Bit(t) = Invalid
    BY <1>1 DEF convertStringToUuid16Bit
<1> QED
    BY <1>2 DEF UuidOf

(* From a short uuid to its string and back.                               *)
LEMMA ShortRoundTrip ==
    ASSUME NEW low \in Byte, NEW high \in Byte, NEW u, u = UuidFrom(low, high, "standard"),
           NEW s, s = UuidString(u)
    PROVE  /\ DOMAIN s = 1 .. 4
           /\ \A t \in {s, Lower(s)} : UuidOf(t) = u
           /\ \A i \in 1 .. 4 : s[i] # "-"
           /\ \A i \in 1 .. 4 : UuidOf([s EXCEPT ![i] = "g"]) = Invalid
<1>1. ShortText(s, low, high)
    BY ShortStringIs
<1>2. s \in Seq(Chars) /\ Len(s) = 4 /\ HasByte(s, 1, high) /\ HasByte(s, 3, low)
    BY <1>1 DEF ShortText
<1>3. DOMAIN s = 1 .. 4
    BY <1>2, LenProperties
<1>4. UuidOf(s) = u
    BY <1>1, ShortReads
<1>5. UuidOf(Lower(s)) = u
    <2>1. Lower(s) \in Seq(Chars) /\ Len(Lower(s)) = 4
        BY <1>2, LowerIs
    <2>2. 1 \in 1 .. Len(s) /\ 1 + 1 <= Len(s) /\ 3 \in 1 .. Len(s) /\ 3 + 1 <= Len(s)
        <3>1. Len(s) = 4
            BY <1>2
        <3> QED
            BY <3>1
    <2>3. HasByte(Lower(s), 1, high) /\ HasByte(Lower(s), 3, low)
        BY <1>2, <2>2, LowerHasByte, Zenon
    <2>4. ShortText(Lower(s), low, high)
        BY <2>1, <2>3 DEF ShortText
    <2> QED
        BY <2>4, ShortReads
<1>6. ASSUME NEW i \in 1 .. 4
      PROVE  s[i] # "-"
    <2>1. /\ Values(s[1]) # {} /\ Values(s[1 + 1]) # {}
          /\ Values(s[3]) # {} /\ Values(s[3 + 1]) # {}
        BY <1>2 DEF HasByte
    <2>2. i = 1 \/ i = 1 + 1 \/ i = 3 \/ i = 3 + 1
        OBVIOUS
    <2> QED
        BY <2>1, <2>2, ValuesAre
<1>7. ASSUME NEW i \in 1 .. 4
      PROVE  UuidOf([s EXCEPT ![i] = "g"]) = Invalid
    <2> DEFINE t == [s EXCEPT ![i] = "g"]
    <2>1. "g" \in Chars /\ i \in 1 .. Len(s)
        BY <1>2 DEF Chars
    <2>2. Len(t) = 4
        BY <1>2, <2>1, ExceptSeq
    <2>3. t[i] = "g"
        BY <1>3
    <2> HIDE DEF t
    <2>4. Values(t[i]) = {}
        BY <2>3, ValuesAre
    <2>5. UuidOf(t) = Invalid
        BY <2>2, <2>4, ShortRefuses
    <2> QED
        BY <2>5 DEF t
<1> QED
    BY <1>3, <1>4, <1>5, <1>6, <1>7

(* Addresses and uuids are read back from their strings, for any bytes;    *)
(* a character that is none of the digits is not taken for one.            *)
THEOREM StringsAreReadBack == Spec => []StringsRoundTrip
<1>1. InputOK => StringsRoundTrip
    <2> SUFFICES ASSUME InputOK
                 PROVE  StringsRoundTrip
        OBVIOUS
    <2>1. ASSUME input.kind = "mac", NEW s, s = convertMacToString(input.bytes)
          PROVE  /\ \A t \in {s, Lower(s)} :
                       MacAddress(t) = [valid |-> TRUE, bytes |-> input.bytes]
                 /\ \A i \in DOMAIN s : i % 3 # 0 => MacAddress([s EXCEPT ![i] = "g"]) = Invalid
        <3>1. input.bytes \in [1 .. MAC_ADDRESS_LENGTH -> AddressBytes]
            BY <2>1 DEF InputOK
        <3>2. input.bytes \in [1 .. MAC_ADDRESS_LENGTH -> Byte]
            BY <3>1, ConversionsAssumption
        <3> QED
            BY <2>1, <3>2, MacRoundTrip
    <2>2. ASSUME input.kind = "uuid", NEW s, s = UuidString(input.uuid),
                 NEW hyphens, hyphens = {i \in DOMAIN s : s[i] = "-"}
          PROVE  /\ \A t \in {s, Lower(s)} : UuidOf(t) = input.uuid
                 /\ \A i \in hyphens : UuidOf(Append(RemoveAt(s, i), "-")) = input.uuid
                 /\ \A i \in DOMAIN s \ hyphens : UuidOf([s EXCEPT ![i] = "g"]) = Invalid
        <3>1. input.uuid \in Custom128 \/ input.uuid \in Standard16
            BY <2>2 DEF InputOK
        <3>2. CASE input.uuid \in Custom128
            <4>1. PICK bytes \in LongUuids :
                      input.uuid = Uuid(bytes, UUID_128BIT_BYTE_LENGTH, "none")
                BY <3>2 DEF Custom128
            <4>2. bytes \in [1 .. UUID_128BIT_BYTE_LENGTH -> Byte]
                BY ConversionsAssumption
            <4>3. PICK u : u = input.uuid
                OBVIOUS
            <4>4. u = Uuid(bytes, UUID_128BIT_BYTE_LENGTH, "none") /\ s = UuidString(u)
                BY <2>2, <4>1, <4>3
            <4>5. /\ DOMAIN s = 1 .. 36
                  /\ \A t \in {s, Lower(s)} : UuidOf(t) = u
                  /\ \A i \in 1 .. 36 : s[i] = "-" => UuidOf(Append(RemoveAt(s, i), "-")) = u
                  /\ \A i \in 1 .. 36 : s[i] # "-" => UuidOf([s EXCEPT ![i] = "g"]) = Invalid
                BY <4>2, <4>4, LongRoundTrip, ZenonT(60)
            <4> QED
                BY <2>2, <4>3, <4>5
        <3>3. CASE input.uuid \in Standard16
            <4>1. PICK low, high \in ShortBytes : input.uuid = UuidFrom(low, high, "standard")
                BY <3>3 DEF Standard16
            <4>2. low \in Byte /\ high \in Byte
                BY ConversionsAssumption
            <4>3. /\ DOMAIN s = 1 .. 4
                  /\ \A t \in {s, Lower(s)} : UuidOf(t) = input.uuid
                  /\ \A i \in 1 .. 4 : s[i] # "-"
                  /\ \A i \in 1 .. 4 : UuidOf([s EXCEPT ![i] = "g"]) = Invalid
                BY <2>2, <4>1, <4>2, ShortRoundTrip
            <4> QED
                BY <2>2, <4>3
        <3> QED
            BY <3>1, <3>2, <3>3
    <2> QED
        BY <2>1, <2>2 DEF StringsRoundTrip
<1> QED
    BY <1>1, InputHolds, PTL

=============================================================================
