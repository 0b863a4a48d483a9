--------------------------- MODULE TreeCarrierProofs ---------------------------
(***************************************************************************)
(* What TLAPS proves of TreeCarrier, for every chart: that the nodes make  *)
(* a tree, that Run keeps its order, leaves nothing running behind an      *)
(* execution that has returned, and handles every node if nothing fails;   *)
(* and that every resource comes into the manifest once, and from there to *)
(* the one node it belongs to.                                             *)
(***************************************************************************)
EXTENDS TreeCarrier, FiniteSetTheorems, SequenceTheorems, WellFoundedInduction, TLAPS

-------------------------------------------------------------------------------
(* Sets of numbers and sequences.                                          *)

(* A set of natural numbers has a least element.                           *)
LEMMA LeastOf ==
    ASSUME NEW T, T \subseteq Nat, T # {}
    PROVE  \E x \in T : \A y \in T : x <= y
  <1>1. PICK x \in T : \A y \in T : <<y, x>> \notin OpToRel(<, Nat)
    BY NatLessThanWellFounded, WFMin, Zenon
  <1>2. \A y \in T : ~ (y < x)
    BY <1>1, Zenon DEF OpToRel
  <1>3. QED
    BY <1>2

(* One that is bounded has a greatest.                                     *)
LEMMA GreatestOf ==
    ASSUME NEW T, NEW n \in Nat, T \subseteq 1 .. n, T # {}
    PROVE  Max(T) \in T
  <1> DEFINE Below == {n - v : v \in T}
  <1>1. Below \subseteq Nat /\ Below # {}
    <2>1. \A v \in T : n - v \in Nat
      OBVIOUS
    <2>2. QED
      BY <2>1
  <1>2. PICK x \in Below : \A y \in Below : x <= y
    <2> HIDE DEF Below
    <2> QED BY <1>1, LeastOf
  <1>3. PICK m \in T : x = n - m
    BY <1>2
  <1>4. \A w \in T : n - m <= n - w
    BY <1>2, <1>3
  <1>5. \A w \in T : m >= w
    BY <1>4
  <1>6. QED
    BY <1>5 DEF Max

(* The elements of a function on 1 .. n are finitely many.                 *)
LEMMA ListedIsFinite ==
    ASSUME NEW n \in Nat, NEW f, DOMAIN f = 1 .. n
    PROVE  IsFiniteSet({f[i] : i \in 1 .. n})
  <1> DEFINE T == {f[i] : i \in 1 .. n}
             g == [i \in 1 .. n |-> f[i]]
  <1>1. g \in Surjection(1 .. n, T)
    BY DEF Surjection
  <1>2. IsFiniteSet(1 .. n)
    BY FS_Interval
  <1>3. QED
    BY <1>1, <1>2, FS_Surjection

(* A listing of a finite set is a sequence of its elements.                *)
LEMMA ListingIsSeq ==
    ASSUME NEW S, IsFiniteSet(S), NEW s \in SetToSeqs(S)
    PROVE  s \in Seq(S)
  <1>1. Cardinality(S) \in Nat
    BY FS_CardinalityType
  <1>2. s \in [1 .. Cardinality(S) -> S]
    BY DEF SetToSeqs
  <1>3. QED
    BY <1>1, <1>2, SeqDef

(* Listings: every element of a set, and every one once.                   *)
Lists(s, S) ==
    /\ s \in Seq(S)
    /\ \A i, j \in 1 .. Len(s) : s[i] = s[j] => i = j
    /\ \A x \in S : \E i \in 1 .. Len(s) : s[i] = x

LEMMA ListingLists ==
    ASSUME NEW S, IsFiniteSet(S), NEW s \in SetToSeqs(S)
    PROVE  Lists(s, S)
  <1> DEFINE n == Cardinality(S)
  <1>1. n \in Nat
    BY FS_CardinalityType
  <1>2. s \in [1 .. n -> S] /\ \A i, j \in 1 .. n : i # j => s[i] # s[j]
    BY DEF SetToSeqs
  <1>3. IsFiniteSet(1 .. n) /\ Cardinality(1 .. n) = n
    BY <1>1, FS_Interval
  <1>4. s \in Injection(1 .. n, S)
    BY <1>2 DEF Injection, IsInjective
  <1>5. s \in Surjection(1 .. n, S)
    BY <1>3, <1>4, FS_Injection
  <1>6. \A x \in S : \E i \in 1 .. n : s[i] = x
    BY <1>5 DEF Surjection
  <1> HIDE DEF n
  <1>7. s \in Seq(S) /\ Len(s) = n
    BY <1>1, <1>2, SeqDef
  <1>8. QED
    BY <1>2, <1>6, <1>7 DEF Lists

LEMMA ListsNothing == Lists(<<>>, {})
  BY DEF Lists

LEMMA ListsOne == ASSUME NEW x PROVE Lists(<<x>>, {x})
  BY DEF Lists

(* One listing after another.                                              *)
LEMMA ListsBoth ==
    ASSUME NEW S, NEW T, NEW s, NEW t, Lists(s, S), Lists(t, T), S \cap T = {}
    PROVE  Lists(s \o t, S \cup T)
  <1> DEFINE r == s \o t
             m == Len(s)
             n == Len(t)
  <1>1. s \in Seq(S \cup T) /\ t \in Seq(S \cup T)
    BY SeqMonotonic DEF Lists
  <1>2. /\ r \in Seq(S \cup T) /\ Len(r) = m + n /\ m \in Nat /\ n \in Nat
        /\ \A i \in 1 .. m + n : r[i] = IF i <= m THEN s[i] ELSE t[i - m]
    BY <1>1, ConcatProperties, LenProperties
  <1>3. /\ \A i \in 1 .. m : s[i] \in S
        /\ \A i \in 1 .. n : t[i] \in T
    BY DEF Lists
  <1>4. /\ \A i, j \in 1 .. m : s[i] = s[j] => i = j
        /\ \A i, j \in 1 .. n : t[i] = t[j] => i = j
        /\ \A x \in S : \E i \in 1 .. m : s[i] = x
        /\ \A x \in T : \E i \in 1 .. n : t[i] = x
    BY DEF Lists
  <1> HIDE DEF r, m, n
  <1>5. ASSUME NEW i \in 1 .. m + n, NEW j \in 1 .. m + n, r[i] = r[j] PROVE i = j
    <2>1. CASE i <= m /\ j <= m
      BY <1>2, <1>4, <1>5, <2>1
    <2>2. CASE ~ (i <= m) /\ ~ (j <= m)
      <3>1. i - m \in 1 .. n /\ j - m \in 1 .. n
        BY <1>2, <2>2
      <3>2. t[i - m] = t[j - m]
        BY <1>2, <1>5, <2>2
      <3>3. i - m = j - m
        BY <1>4, <3>1, <3>2
      <3>4. QED
        BY <1>2, <3>3
    <2>3. CASE i <= m /\ ~ (j <= m)
      <3>1. i \in 1 .. m /\ j - m \in 1 .. n
        BY <1>2, <2>3
      <3>2. s[i] = t[j - m]
        BY <1>2, <1>5, <2>3
      <3>3. QED
        BY <1>3, <3>1, <3>2
    <2>4. CASE ~ (i <= m) /\ j <= m
      <3>1. j \in 1 .. m /\ i - m \in 1 .. n
        BY <1>2, <2>4
      <3>2. s[j] = t[i - m]
        BY <1>2, <1>5, <2>4
      <3>3. QED
        BY <1>3, <3>1, <3>2
    <2>5. QED
      BY <2>1, <2>2, <2>3, <2>4
  <1>6. ASSUME NEW x \in S PROVE \E i \in 1 .. m + n : r[i] = x
    <2>1. PICK i \in 1 .. m : s[i] = x
      BY <1>4
    <2>2. i \in 1 .. m + n /\ r[i] = x
      BY <1>2, <2>1
    <2>3. QED
      BY <2>2
  <1>7. ASSUME NEW x \in T PROVE \E i \in 1 .. m + n : r[i] = x
    <2>1. PICK i \in 1 .. n : t[i] = x
      BY <1>4
    <2>2. i + m \in 1 .. m + n /\ ~ (i + m <= m) /\ (i + m) - m = i
      BY <1>2
    <2>3. r[i + m] = x
      BY <1>2, <2>1, <2>2
    <2>4. QED
      BY <2>2, <2>3
  <1>8. Lists(r, S \cup T)
    BY <1>2, <1>5, <1>6, <1>7 DEF Lists
  <1>9. QED
    BY <1>8 DEF r

(* What is left of a listing.                                              *)
LEMMA ListsRest ==
    ASSUME NEW S, NEW s, Lists(s, S), s # <<>>
    PROVE  Head(s) \in S /\ Lists(Tail(s), S \ {Head(s)})
  <1> DEFINE n == Len(s)
             r == Tail(s)
  <1>1. s \in Seq(S) /\ n \in Nat \ {0} /\ Head(s) = s[1] /\ Head(s) \in S
    BY EmptySeq, HeadTailProperties DEF Lists
  <1>2. r \in Seq(S) /\ Len(r) = n - 1 /\ \A i \in 1 .. n - 1 : r[i] = s[i + 1]
    BY <1>1, HeadTailProperties
  <1>3. /\ \A i, j \in 1 .. n : s[i] = s[j] => i = j
        /\ \A x \in S : \E i \in 1 .. n : s[i] = x
    BY DEF Lists
  <1> HIDE DEF r, n
  <1>4. \A i \in 1 .. n - 1 : i + 1 \in 1 .. n /\ i + 1 # 1
    BY <1>1
  <1>5. \A i \in 1 .. n - 1 : r[i] \in S \ {s[1]}
    BY <1>1, <1>2, <1>3, <1>4
  <1>6. r \in Seq(S \ {s[1]})
    <2>1. r \in [1 .. n - 1 -> S \ {s[1]}]
      <3>1. r \in [1 .. n - 1 -> S]
        BY <1>2, LenProperties
      <3>2. QED
        BY <1>5, <3>1
    <2>2. QED
      BY <1>1, <2>1, SeqDef
  <1>7. ASSUME NEW i \in 1 .. n - 1, NEW j \in 1 .. n - 1, r[i] = r[j] PROVE i = j
    <2>1. s[i + 1] = s[j + 1]
      BY <1>2, <1>7
    <2>2. i + 1 = j + 1
      BY <1>3, <1>4, <2>1
    <2>3. QED
      BY <2>2
  <1>8. ASSUME NEW x \in S \ {s[1]} PROVE \E i \in 1 .. n - 1 : r[i] = x
    <2>1. PICK i \in 1 .. n : s[i] = x
      BY <1>3
    <2>2. i # 1
      BY <2>1
    <2>3. i - 1 \in 1 .. n - 1 /\ (i - 1) + 1 = i
      BY <1>1, <2>2
    <2>4. r[i - 1] = x
      BY <1>2, <2>1, <2>3
    <2>5. QED
      BY <2>3, <2>4
  <1>9. Lists(r, S \ {s[1]})
    BY <1>2, <1>6, <1>7, <1>8 DEF Lists
  <1>10. QED
    BY <1>1, <1>9 DEF r

(* A listing is as long as its set is large.                               *)
LEMMA ListsCount ==
    ASSUME NEW S, NEW s, Lists(s, S)
    PROVE  ToSet(s) = S /\ Len(s) = Cardinality(S)
  <1> DEFINE n == Len(s)
  <1>1. n \in Nat /\ s \in [1 .. n -> S] /\ DOMAIN s = 1 .. n
    BY LenProperties DEF Lists
  <1>2. s \in Injection(1 .. n, S)
    BY <1>1 DEF Lists, Injection, IsInjective
  <1>3. s \in Surjection(1 .. n, S)
    <2>1. \A x \in S : \E i \in 1 .. n : s[i] = x
      BY DEF Lists
    <2>2. QED
      BY <1>1, <2>1 DEF Surjection
  <1>4. IsFiniteSet(1 .. n) /\ Cardinality(1 .. n) = n
    BY <1>1, FS_Interval
  <1>5. Cardinality(S) = n
    BY <1>2, <1>3, <1>4, FS_Surjection
  <1>6. ToSet(s) = S
    BY <1>1, <1>3 DEF ToSet, Surjection
  <1>7. QED
    BY <1>5, <1>6

-------------------------------------------------------------------------------
(* Paths.                                                                  *)

(* The paths from the root down.                                           *)
Path == {p \in Seq(STRING) : Len(p) >= 1 /\ p[1] = Name}

(* The nodes on the way to a path, by their number of elements.            *)
LEMMA AboveIs ==
    ASSUME NEW p \in Path
    PROVE  /\ p \in Seq(STRING) /\ Len(p) \in Nat \ {0}
           /\ Above(p) = {SubSeq(p, 1, l) : l \in 1 .. Len(p)}
           /\ SubSeq(p, 1, Len(p)) = p
           /\ \A l \in 1 .. Len(p) : /\ Len(SubSeq(p, 1, l)) = l
                                     /\ SubSeq(p, 1, l) \in Seq(STRING)
  <1>1. p \in Seq(STRING) /\ Len(p) \in Nat \ {0}
    BY DEF Path
  <1>2. \A l \in 1 .. Len(p) : /\ SubSeq(p, 1, l) \in Seq(STRING)
                               /\ Len(SubSeq(p, 1, l)) = l
    BY <1>1
  <1>3. SubSeq(p, 1, 0) = <<>> /\ \A l \in 1 .. Len(p) : SubSeq(p, 1, l) # <<>>
    BY <1>1, <1>2
  <1>4. 0 .. Len(p) = {0} \cup 1 .. Len(p)
    BY <1>1
  <1>5. Above(p) = {SubSeq(p, 1, l) : l \in 1 .. Len(p)}
    BY <1>3, <1>4 DEF Above, Prefixes
  <1>6. QED
    BY <1>1, <1>2, <1>5, SubSeqFull

(* What lies above a path is finite, ends in the root, and is closed       *)
(* upwards.                                                                *)
LEMMA AbovePath ==
    ASSUME NEW p \in Path
    PROVE  /\ IsFiniteSet(Above(p))
           /\ p \in Above(p) /\ Root \in Above(p)
           /\ \A q \in Above(p) : q \in Path /\ Above(q) \subseteq Above(p)
           /\ p # Root => /\ Front(p) \in Above(p)
                          /\ Len(Front(p)) < Len(p)
  <1>1. p \in Seq(STRING) /\ Len(p) \in Nat \ {0} /\ p[1] = Name
    BY DEF Path
  <1>2. \A l \in 1 .. Len(p) : /\ SubSeq(p, 1, l) \in Seq(STRING)
                               /\ Len(SubSeq(p, 1, l)) = l
                               /\ SubSeq(p, 1, l)[1] = Name
    BY <1>1
  <1>3. Above(p) = {SubSeq(p, 1, l) : l \in 1 .. Len(p)}
    BY AboveIs
  <1>4. IsFiniteSet(Above(p))
    <2> DEFINE f == [l \in 1 .. Len(p) |-> SubSeq(p, 1, l)]
    <2>1. IsFiniteSet({f[l] : l \in 1 .. Len(p)})
      <3>1. DOMAIN f = 1 .. Len(p)
        OBVIOUS
      <3> HIDE DEF f
      <3>2. QED
        BY <1>1, <3>1, ListedIsFinite
    <2>2. {f[l] : l \in 1 .. Len(p)} = Above(p)
      BY <1>3
    <2>3. QED
      BY <2>1, <2>2
  <1>5. p \in Above(p)
    <2>1. SubSeq(p, 1, Len(p)) = p
      BY <1>1, SubSeqFull
    <2>2. SubSeq(p, 1, Len(p)) \in Above(p)
      BY <1>1, <1>3
    <2>3. QED
      BY <2>1, <2>2
  <1>6. ASSUME NEW q \in Above(p) PROVE q \in Path /\ Above(q) \subseteq Above(p)
    <2>1. PICK l \in 1 .. Len(p) : q = SubSeq(p, 1, l)
      BY <1>3
    <2>2. q \in Seq(STRING) /\ Len(q) = l /\ q[1] = Name
      BY <1>2, <2>1
    <2>3. \A k \in 1 .. l : SubSeq(q, 1, k) = SubSeq(p, 1, k)
      BY <1>1, <2>1, <2>2, SubSeqOfSubSeq
    <2>4. \A r \in Above(q) : r \in Above(p)
      <3>1. SUFFICES ASSUME NEW r \in Above(q) PROVE r \in Above(p)
        OBVIOUS
      <3>2. PICK k \in 0 .. Len(q) : r = SubSeq(q, 1, k) /\ r # <<>>
        BY DEF Above, Prefixes
      <3>3. k # 0
        BY <2>2, <3>2
      <3>4. QED
        BY <1>1, <1>3, <2>2, <2>3, <3>2, <3>3
    <2>5. QED
      BY <1>1, <2>2, <2>4 DEF Path
  <1>7. ASSUME p # Root PROVE Front(p) \in Above(p) /\ Len(Front(p)) < Len(p)
    <2>1. Len(p) # 1
      <3>1. Root \in Seq(STRING) /\ Len(Root) = 1 /\ Root[1] = Name
        BY <1>1 DEF Root
      <3>2. Len(p) = 1 => \A i \in 1 .. Len(p) : p[i] = Root[i]
        BY <1>1, <3>1
      <3>3. Len(p) = 1 => p = Root
        <4> HIDE DEF Root
        <4> QED BY <1>1, <3>1, <3>2, SeqEqual
      <3>4. QED
        BY <1>7, <3>3
    <2>2. Len(p) - 1 \in 1 .. Len(p)
      <3> DEFINE n == Len(p)
      <3>1. n \in Nat \ {0} /\ n # 1
        BY <1>1, <2>1
      <3> HIDE DEF n
      <3>2. n - 1 \in 1 .. n
        BY <3>1
      <3>3. QED
        BY <3>2 DEF n
    <2>3. Len(SubSeq(p, 1, Len(p) - 1)) = Len(p) - 1
      BY <1>2, <2>2
    <2>4. SubSeq(p, 1, Len(p) - 1) \in Above(p)
      BY <1>3, <2>2
    <2>5. QED
      BY <1>1, <2>3, <2>4 DEF Front
  <1>8. Root \in Above(p)
    <2> DEFINE q == SubSeq(p, 1, 1)
    <2>1. q \in Seq(STRING) /\ Len(q) = 1 /\ q[1] = Name
      BY <1>1, <1>2
    <2>2. Root \in Seq(STRING) /\ Len(Root) = 1 /\ Root[1] = Name
      BY <1>1 DEF Root
    <2>3. q \in Above(p)
      BY <1>1, <1>3
    <2> HIDE DEF q, Root
    <2>4. q = Root
      BY <2>1, <2>2, SeqEqual
    <2>5. QED
      BY <2>3, <2>4
  <1>9. QED
    BY <1>4, <1>5, <1>6, <1>7, <1>8

(* The way of a file's directory is a path.                                *)
LEMMA LogicPathIsPath ==
    ASSUME NEW file \in Seq(STRING), file[1] = Name, NEW n \in 1 .. Len(file)
    PROVE  LogicPath(SubSeq(file, 1, n)) \in Path
  <1> DEFINE base == SubSeq(file, 1, n)
             k == (n + 1) \div 2
  <1>1. base \in Seq(STRING) /\ Len(base) = n /\ \A i \in 1 .. n : base[i] = file[i]
    OBVIOUS
  <1>2. k \in Nat \ {0} /\ \A i \in 1 .. k : 2 * i - 1 \in 1 .. n
    OBVIOUS
  <1>3. \A i \in 1 .. n : base[i] \in STRING
    BY <1>1
  <1> HIDE DEF base
  <1>4. LogicPath(base) = [i \in 1 .. k |-> base[2 * i - 1]]
    BY <1>1 DEF LogicPath
  <1> HIDE DEF k
  <1>5. LogicPath(base) \in [1 .. k -> STRING]
    BY <1>2, <1>3, <1>4
  <1>6. LogicPath(base) \in Seq(STRING) /\ Len(LogicPath(base)) = k
    BY <1>2, <1>5, SeqDef
  <1>7. LogicPath(base)[1] = Name
    BY <1>1, <1>2, <1>4
  <1>8. QED
    BY <1>2, <1>6, <1>7 DEF Path, base

(* Render's path of a file it does not reject, and the annotation's.       *)
LEMMA FilePaths ==
    ASSUME NEW c \in Charts, NEW file \in DOMAIN c
    PROVE  /\ Odd(Len(Base(file))) => LogicPath(Base(file)) \in Path
           /\ PathKey(file) \in Path
  <1>1. file \in Seq(STRING) /\ file[1] = Name
    BY ChartAssumption
  <1>2. PICK e \in DOMAIN file : file[e] = "templates" /\ e % 2 = 0
    BY ChartAssumption
  <1>3. Len(file) \in Nat \ {0} /\ DOMAIN file = 1 .. Len(file)
    BY <1>1, <1>2
  <1>4. ASSUME Odd(Len(Base(file))) PROVE LogicPath(Base(file)) \in Path
    <2> DEFINE I == {i \in 1 .. Len(file) - 1 : file[i] = "templates"}
               k == IF I # {} THEN Max(I) ELSE 0
    <2>1. Base(file) = SubSeq(file, 1, k - 1)
      BY DEF Base, SelectLastInSubSeq
    <2>2. k \in 0 .. Len(file) - 1
      <3>1. I \subseteq 1 .. Len(file) - 1 /\ Len(file) - 1 \in Nat
        BY <1>3
      <3>2. I # {} => Max(I) \in I
        <4> HIDE DEF I
        <4> QED BY <3>1, GreatestOf
      <3>3. QED
        BY <1>3, <3>1, <3>2
    <2> HIDE DEF k
    <2>3. k - 1 >= 1
      <3>1. CASE k - 1 < 1
        <4>1. Base(file) = <<>>
          BY <1>1, <1>3, <2>1, <2>2, <3>1
        <4>2. Len(Base(file)) = 0
          BY <4>1
        <4>3. ~ Odd(0)
          BY DEF Odd
        <4>4. QED
          BY <1>4, <4>2, <4>3
      <3>2. QED
        BY <2>2, <3>1
    <2>4. QED
      BY <1>1, <1>3, <2>1, <2>2, <2>3, LogicPathIsPath
  <1>5. PathKey(file) \in Path
    <2> DEFINE ends == {i \in DOMAIN file : file[i] = "templates" /\ ~ Odd(i)}
               m    == CHOOSE i \in ends : \A j \in ends : i <= j
    <2>1. e \in ends
      BY <1>2, <1>3 DEF Odd
    <2>2. ends \subseteq Nat
      BY <1>3
    <2>3. m \in ends
      <3> HIDE DEF ends
      <3> QED BY <2>1, <2>2, LeastOf
    <2>4. m \in 1 .. Len(file) /\ ~ Odd(m)
      <3> HIDE DEF m
      <3> QED BY <1>3, <2>3
    <2>5. m # 1
      <3>1. Odd(1)
        BY DEF Odd
      <3> HIDE DEF m
      <3>2. QED
        BY <2>4, <3>1
    <2>6. PathKey(file) = LogicPath(SubSeq(file, 1, m - 1))
      BY DEF PathKey
    <2> HIDE DEF m
    <2>7. QED
      BY <1>1, <1>3, <2>4, <2>5, <2>6, LogicPathIsPath
  <1>6. QED
    BY <1>4, <1>5

-------------------------------------------------------------------------------
(* The tree.                                                               *)

(* The nodes are finitely many paths, with every path above a node's.      *)
IsTree(nodes) ==
    /\ IsFiniteSet(nodes)
    /\ \A p \in nodes : p \in Path /\ Above(p) \subseteq nodes

(* What Build has to work on.                                              *)
BuildInv ==
    /\ phase \in Phases
    /\ chart \in Charts /\ rest \subseteq DOMAIN chart
    /\ IsTree(Nodes) /\ held \in [Nodes -> Seq(Made)]
    /\ list \in Seq(Made) /\ queue \in Seq(Nodes)
    /\ phase = "run" => Root \in Nodes

(* Where an execution is before it starts those of its children.           *)
Before(o) ==
    {"unborn", "children"} \cup (IF o = "ReversedOrder" THEN {"handle", "running"} ELSE {})

(* Children are started once, by a parent that then waits for as many as   *)
(* have not ended.                                                         *)
Unbegun ==
    \A n \in Nodes : pc[n] \in Before(order) => \A c \in Children(n) : pc[c] = "unborn"

Awaited ==
    \A n \in Nodes : pc[n] = "wait" =>
        /\ \A c \in Children(n) : pc[c] # "unborn"
        /\ wg[n] = Cardinality(Children(n) \ Ended)

HandledBefore ==
    order = "ReversedOrder" =>
        \A n \in Nodes : pc[n] \in {"children", "wait"} => n \in handled

(* Unless a handler fails or the caller cancels, no execution returns an   *)
(* error, and one that has ended has handled its node after or before all  *)
(* its children's.                                                         *)
Smooth ==
    failed = {} /\ ~ cancelled =>
        /\ erred = {} /\ errList = {}
        /\ \A n \in Ended : n \in handled /\ Children(n) \subseteq Ended

RunInv ==
    /\ pc \in [Nodes -> Places] /\ wg \in [Nodes -> Nat]
    /\ Unbegun /\ Awaited /\ NoStragglers
    /\ ChildrenFirst /\ ParentsFirst /\ HandledBefore /\ Smooth

(* Before Run is called there is nothing to tell of it.                    *)
NotRunning ==
    /\ pc = NoTree /\ wg = NoTree
    /\ handled = {} /\ failed = {} /\ erred = {} /\ errList = {} /\ ~ cancelled

CarrierInv ==
    /\ BuildInv
    /\ order \in Orders /\ cancelled \in BOOLEAN
    /\ handled \subseteq Nodes /\ failed \subseteq Nodes
    /\ erred \subseteq Nodes /\ errList \subseteq Nodes
    /\ IF phase = "run" THEN RunInv ELSE NotRunning

-------------------------------------------------------------------------------
(* Making the tree.                                                        *)

(* node.add keeps a tree a tree.                                           *)
LEMMA AddKeepsTree ==
    ASSUME IsTree(Nodes), held \in [Nodes -> Seq(Made)],
           NEW path \in Path, NEW resources \in Seq(Made)
    PROVE  LET g == Add(path, resources)
           IN IsTree(DOMAIN g) /\ g \in [DOMAIN g -> Seq(Made)] /\ DOMAIN g # {}
  <1> DEFINE g == Add(path, resources)
  <1>1. DOMAIN g = Nodes \cup Above(path)
    BY DEF Add, Nodes
  <1>2. IsTree(DOMAIN g)
    <2>1. IsFiniteSet(Nodes \cup Above(path))
      BY AbovePath, FS_Union DEF IsTree
    <2>2. \A p \in Nodes \cup Above(path) : p \in Path /\ Above(p) \subseteq Nodes \cup Above(path)
      BY AbovePath DEF IsTree
    <2> HIDE DEF g
    <2>3. QED
      BY <1>1, <2>1, <2>2 DEF IsTree
  <1>3. \A p \in DOMAIN g : g[p] \in Seq(Made)
    <2>1. SUFFICES ASSUME NEW p \in Nodes \cup Above(path) PROVE g[p] \in Seq(Made)
      BY <1>1
    <2>2. g[p] = (IF p \in Nodes THEN held[p] ELSE <<>>)
                    \o (IF p = path THEN resources ELSE <<>>)
      BY DEF Add, Nodes
    <2>3. \A a, b \in Seq(Made) : a \o b \in Seq(Made)
      BY ConcatProperties
    <2>4. /\ (IF p \in Nodes THEN held[p] ELSE <<>>) \in Seq(Made)
          /\ (IF p = path THEN resources ELSE <<>>) \in Seq(Made)
      OBVIOUS
    <2> HIDE DEF g
    <2>5. QED
      BY <2>2, <2>3, <2>4
  <1>4. g \in [DOMAIN g -> Seq(Made)]
    <2>1. g = [p \in DOMAIN g |-> g[p]]
      BY DEF Add
    <2> HIDE DEF g
    <2>2. QED
      BY <1>3, <2>1
  <1>5. DOMAIN g # {}
    BY <1>1, AbovePath
  <1>6. QED
    BY <1>2, <1>4, <1>5

(* The resources of a file are finitely many.                              *)
LEMMA FileIsFinite ==
    ASSUME NEW c \in Charts, NEW file \in DOMAIN c
    PROVE  IsFiniteSet({<<file, i>> : i \in 1 .. c[file]})
  <1> DEFINE f == [i \in 1 .. c[file] |-> <<file, i>>]
  <1>1. c[file] \in Nat
    BY ChartAssumption
  <1>2. IsFiniteSet({f[i] : i \in 1 .. c[file]})
    <2>1. DOMAIN f = 1 .. c[file]
      OBVIOUS
    <2> HIDE DEF f
    <2>2. QED
      BY <1>1, <2>1, ListedIsFinite
  <1>3. {f[i] : i \in 1 .. c[file]} = {<<file, i>> : i \in 1 .. c[file]}
    OBVIOUS
  <1>4. QED
    BY <1>2, <1>3

(* The resources of a file are the chart's.                                *)
LEMMA FileResources ==
    ASSUME chart \in Charts, NEW file \in DOMAIN chart,
           NEW s \in SetToSeqs({<<file, i>> : i \in 1 .. chart[file]})
    PROVE  s \in Seq(Made)
  <1> DEFINE S == {<<file, i>> : i \in 1 .. chart[file]}
  <1>3. IsFiniteSet(S)
    BY FileIsFinite
  <1>4. s \in Seq(S)
    <2>1. s \in SetToSeqs(S)
      OBVIOUS
    <2> HIDE DEF S
    <2>2. QED
      BY <1>3, <2>1, ListingIsSeq
  <1>5. S \subseteq Made
    BY DEF Made
  <1> HIDE DEF S
  <1>6. QED
    BY <1>4, <1>5, SeqMonotonic

LEMMA BuildInitInv == BuildInit => BuildInv
  <1> SUFFICES ASSUME BuildInit PROVE BuildInv
    OBVIOUS
  <1>1. Nodes = {}
    BY DEF BuildInit, NoTree, Nodes
  <1>2. IsTree(Nodes)
    BY <1>1, FS_EmptySet DEF IsTree
  <1>3. held \in [Nodes -> Seq(Made)]
    BY <1>1 DEF BuildInit, NoTree
  <1>4. QED
    BY <1>2, <1>3, EmptySeq DEF BuildInit, BuildInv, Phases

(* Render, Resources and CarrierForManifest pass trees and lists of the    *)
(* chart's resources on.                                                   *)
LEMMA BuildStepInv == BuildInv /\ BuildStep => BuildInv'
  <1> SUFFICES ASSUME BuildInv, BuildStep PROVE BuildInv'
    OBVIOUS
  <1> USE DEF BuildInv
  <1>file. CASE \E file \in rest : AddFile(file)
    <2>1. PICK file \in rest : AddFile(file)
      BY <1>file
    <2>2. /\ rest' \subseteq DOMAIN chart /\ phase = "render" /\ phase' \in {"render", "rejected"}
          /\ UNCHANGED <<chart, queue, list>>
      BY <2>1 DEF AddFile
    <2>3. Made' = Made
      BY <2>2 DEF Made
    <2>4. CASE held' = held
      BY <2>2, <2>3, <2>4 DEF Phases, Nodes
    <2>5. CASE /\ Odd(Len(Base(file)))
               /\ \E resources \in SetToSeqs({<<file, i>> : i \in 1 .. chart[file]}) :
                     held' = Add(LogicPath(Base(file)), resources)
      <3>1. PICK resources \in SetToSeqs({<<file, i>> : i \in 1 .. chart[file]}) :
                     held' = Add(LogicPath(Base(file)), resources)
        BY <2>5
      <3>2. resources \in Seq(Made)
        BY FileResources
      <3>3. LogicPath(Base(file)) \in Path
        BY <2>5, FilePaths
      <3>4. IsTree(Nodes') /\ held' \in [Nodes' -> Seq(Made)]
        BY <3>1, <3>2, <3>3, AddKeepsTree DEF Nodes
      <3>5. queue \in Seq(Nodes')
        <4>1. Nodes \subseteq Nodes'
          BY <3>1 DEF Add, Nodes
        <4>2. QED
          BY <4>1, SeqMonotonic
      <3>6. QED
        BY <2>2, <2>3, <3>4, <3>5 DEF Phases
    <2>6. QED
      BY <2>1, <2>4, <2>5 DEF AddFile
  <1>rendered. CASE Rendered
    <2>1. /\ phase' = "walk"
          /\ UNCHANGED <<chart, rest, list, held>>
          /\ queue' = IF held = NoTree THEN <<>> ELSE <<Root>>
      BY <1>rendered DEF Rendered
    <2>2. held # NoTree => Root \in Nodes
      <3>1. held # NoTree => Nodes # {}
        BY DEF NoTree
      <3>2. QED
        BY <3>1, AbovePath DEF IsTree
    <2>3. queue' \in Seq(Nodes)
      BY <2>1, <2>2
    <2>4. Made' = Made /\ Nodes' = Nodes
      BY <2>1 DEF Made, Nodes
    <2>5. QED
      BY <2>1, <2>3, <2>4 DEF Phases
  <1>visit. CASE Visit
    <2>1. /\ queue # <<>> /\ phase = "walk"
          /\ list' = list \o held[Head(queue)]
          /\ UNCHANGED <<phase, chart, rest, held>>
      BY <1>visit DEF Visit
    <2>2. PICK ns \in SetToSeqs(Children(Head(queue))) : queue' = Tail(queue) \o ns
      BY <1>visit DEF Visit
    <2>3. Made' = Made /\ Nodes' = Nodes
      BY <2>1 DEF Made, Nodes
    <2>4. Head(queue) \in Nodes /\ Tail(queue) \in Seq(Nodes)
      BY <2>1
    <2>5. list' \in Seq(Made)
      BY <2>1, <2>4, ConcatProperties
    <2>6. Children(Head(queue)) \subseteq Nodes /\ IsFiniteSet(Children(Head(queue)))
      <3>1. Children(Head(queue)) \subseteq Nodes
        BY DEF Children, Nodes
      <3>2. QED
        BY <3>1, FS_Subset DEF IsTree
    <2>7. ns \in Seq(Nodes)
      BY <2>6, ListingIsSeq, SeqMonotonic
    <2>8. queue' \in Seq(Nodes)
      BY <2>2, <2>4, <2>7, ConcatProperties
    <2>9. QED
      BY <2>1, <2>3, <2>5, <2>8
  <1>stored. CASE Stored
    <2>1. /\ phase' = "parse" /\ held' = NoTree /\ queue = <<>>
          /\ UNCHANGED <<chart, rest, queue, list>>
      BY <1>stored DEF Stored
    <2>2. Nodes' = {} /\ Made' = Made
      BY <2>1 DEF NoTree, Nodes, Made
    <2>3. IsTree(Nodes')
      BY <2>2, FS_EmptySet DEF IsTree
    <2>4. held' \in [Nodes' -> Seq(Made)]
      BY <2>1, <2>2 DEF NoTree
    <2>5. QED
      BY <2>1, <2>2, <2>3, <2>4, EmptySeq DEF Phases
  <1>resource. CASE AddResource
    <2>1. /\ phase = "parse" /\ list # <<>> /\ list' = Tail(list)
          /\ held' = Add(PathKey(Head(list)[1]), <<Head(list)>>)
          /\ UNCHANGED <<phase, chart, rest, queue>>
      BY <1>resource DEF AddResource
    <2>2. Made' = Made
      BY <2>1 DEF Made
    <2>3. Head(list) \in Made /\ Tail(list) \in Seq(Made)
      BY <2>1
    <2>4. Head(list)[1] \in DOMAIN chart
      BY <2>3 DEF Made
    <2>5. PathKey(Head(list)[1]) \in Path
      BY <2>4, FilePaths
    <2>6. <<Head(list)>> \in Seq(Made)
      BY <2>3
    <2>7. IsTree(Nodes') /\ held' \in [Nodes' -> Seq(Made)]
      BY <2>1, <2>5, <2>6, AddKeepsTree DEF Nodes
    <2>8. Nodes \subseteq Nodes'
      BY <2>1 DEF Add, Nodes
    <2>9. queue \in Seq(Nodes')
      BY <2>8, SeqMonotonic
    <2>10. QED
      BY <2>1, <2>2, <2>3, <2>7, <2>9
  <1>parsed. CASE Parsed
    <2>1. /\ phase' = IF held = NoTree THEN "empty" ELSE "run"
          /\ UNCHANGED <<chart, rest, queue, list, held>>
      BY <1>parsed DEF Parsed
    <2>2. held # NoTree => Root \in Nodes
      <3>1. held # NoTree => Nodes # {}
        BY DEF NoTree
      <3>2. QED
        BY <3>1, AbovePath DEF IsTree
    <2>3. Made' = Made /\ Nodes' = Nodes
      BY <2>1 DEF Made, Nodes
    <2>4. QED
      BY <2>1, <2>2, <2>3 DEF Phases
  <1>qed. QED
    BY <1>file, <1>rendered, <1>visit, <1>stored, <1>resource, <1>parsed DEF BuildStep

-------------------------------------------------------------------------------
(* Running it.                                                             *)

(* Every node but the root is the child of one node, and of no other.      *)
LEMMA Family ==
    ASSUME IsTree(Nodes)
    PROVE  /\ \A n \in Nodes \ {Root} : /\ Parent(n) \in Nodes /\ n \in Children(Parent(n))
                                        /\ Len(Parent(n)) < Len(n)
           /\ \A n \in Nodes : /\ Children(n) \subseteq Nodes \ {Root}
                               /\ IsFiniteSet(Children(n))
                               /\ n \notin Children(n)
                               /\ \A c \in Children(n) : Parent(c) = n
  <1>1. ASSUME NEW n \in Nodes \ {Root}
        PROVE  Parent(n) \in Nodes /\ n \in Children(Parent(n)) /\ Len(Parent(n)) < Len(n)
    <2>1. n \in Path /\ Above(n) \subseteq Nodes
      BY DEF IsTree
    <2>2. Front(n) \in Above(n) /\ Len(Front(n)) < Len(n)
      BY <2>1, AbovePath
    <2>3. QED
      BY <2>1, <2>2 DEF Parent, Children, Nodes
  <1>2. ASSUME NEW n \in Nodes
        PROVE  /\ Children(n) \subseteq Nodes \ {Root}
               /\ IsFiniteSet(Children(n))
               /\ n \notin Children(n)
               /\ \A c \in Children(n) : Parent(c) = n
    <2>1. Children(n) \subseteq Nodes \ {Root} /\ \A c \in Children(n) : Parent(c) = n
      BY DEF Children, Parent, Nodes
    <2>2. IsFiniteSet(Children(n))
      BY <2>1, FS_Subset DEF IsTree
    <2>3. n \notin Children(n)
      <3>1. SUFFICES ASSUME n \in Children(n) PROVE FALSE
        OBVIOUS
      <3>2. Parent(n) = n /\ Len(Parent(n)) < Len(n)
        BY <1>1, <2>1, <3>1
      <3>3. Len(n) \in Nat
        BY DEF IsTree, Path
      <3>4. QED
        BY <3>2, <3>3
    <2>4. QED
      BY <2>1, <2>2, <2>3
  <1>3. QED
    BY <1>1, <1>2

(* Run is called.                                                          *)
LEMMA RunBegins ==
    ASSUME BuildInv, order \in Orders, NotRunning, Build, phase' = "run"
    PROVE  RunInv'
  <1>1. held' = held
    BY DEF Build, BuildStep, AddFile, Rendered, Visit, Stored, AddResource, Parsed
  <1>2. /\ pc' = [n \in Nodes |-> IF n = Root THEN Entry(order) ELSE "unborn"]
        /\ wg' = [n \in Nodes |-> 0]
        /\ UNCHANGED <<order, handled, failed, erred, errList, cancelled>>
    BY DEF Build
  <1>3. Nodes' = Nodes /\ \A n : Children(n)' = Children(n)
    BY <1>1 DEF Nodes, Children
  <1>4. Entry(order) \in {"children", "handle"} /\ (order = "ReversedOrder" => Entry(order) = "handle")
    BY TreeAssumption DEF Entry
  <1>5. \A n \in Nodes : pc'[n] \in {Entry(order), "unborn"} /\ (n # Root => pc'[n] = "unborn")
    BY <1>2
  <1>6. pc' \in [Nodes -> Places] /\ wg' \in [Nodes -> Nat]
    BY <1>2, <1>4 DEF Places
  <1>7. \A n \in Nodes : Children(n) \subseteq Nodes \ {Root}
    BY DEF Children, Nodes
  <1>8. Ended' = {}
    BY <1>4, <1>5, <1>6 DEF Ended
  <1>9. Unbegun' /\ Awaited' /\ NoStragglers'
    BY <1>3, <1>4, <1>5, <1>7, <1>8 DEF Unbegun, Awaited, NoStragglers
  <1>10. ChildrenFirst'
    <2>1. order = "PositiveOrder" => Entry(order) = "children"
      BY DEF Entry
    <2>2. QED
      BY <1>2, <1>5, <1>6, <2>1 DEF ChildrenFirst, NotRunning
  <1>11. ParentsFirst' /\ HandledBefore' /\ Smooth'
    BY <1>2, <1>3, <1>4, <1>5, <1>6, <1>8
    DEF ParentsFirst, HandledBefore, Smooth, NotRunning
  <1>12. QED
    BY <1>3, <1>6, <1>9, <1>10, <1>11 DEF RunInv

(* A node whose execution is under way has a parent that waits for it.     *)
LEMMA ParentWaits ==
    ASSUME IsTree(Nodes), RunInv, order \in Orders, NEW n \in Nodes \ {Root},
           pc[n] \notin {"unborn", "done", "over"}
    PROVE  pc[Parent(n)] = "wait"
  <1>1. Parent(n) \in Nodes /\ n \in Children(Parent(n))
    BY Family
  <1>2. n \notin Ended
    BY DEF Ended
  <1>3. pc[Parent(n)] \notin Before(order)
    BY <1>1 DEF RunInv, Unbegun
  <1>4. ~ (order = "PositiveOrder" /\ pc[Parent(n)] \in {"handle", "running"})
    BY <1>1, <1>2 DEF RunInv, ChildrenFirst
  <1>5. pc[Parent(n)] \notin {"done", "over"}
    BY <1>1, <1>2 DEF RunInv, NoStragglers, Ended
  <1>6. pc[Parent(n)] \in Places
    BY <1>1 DEF RunInv
  <1>7. QED
    BY <1>3, <1>4, <1>5, <1>6, TreeAssumption DEF Before, Places

(* An execution returns: its parent, if any, waits for one less.           *)
LEMMA ReturnKeeps ==
    ASSUME IsTree(Nodes), RunInv, order \in Orders, NEW n \in Nodes, NEW err \in BOOLEAN,
           pc[n] \in {"wait", "running"},
           \A c \in Children(n) : c \in Ended \/ pc[c] = "unborn",
           Return(n, err), UNCHANGED <<held, order>>
    PROVE  /\ pc' \in [Nodes -> Places] /\ wg' \in [Nodes -> Nat]
           /\ Unbegun' /\ Awaited' /\ NoStragglers'
           /\ Ended' = Ended \cup {n}
           /\ \A m \in Nodes \ {n} : pc'[m] = pc[m]
           /\ pc'[n] = "done"
  <1>1. Nodes' = Nodes /\ \A m : Children(m)' = Children(m)
    BY DEF Nodes, Children
  <1>2. pc' = [pc EXCEPT ![n] = "done"] /\ pc \in [Nodes -> Places] /\ wg \in [Nodes -> Nat]
    BY DEF Return, RunInv
  <1>3. /\ pc' \in [Nodes -> Places] /\ pc'[n] = "done"
        /\ \A m \in Nodes \ {n} : pc'[m] = pc[m]
    BY <1>2 DEF Places
  <1>4. Ended' = Ended \cup {n} /\ n \notin Ended
    BY <1>2, <1>3 DEF Ended
  <1>5. Unbegun'
    <2>1. SUFFICES ASSUME NEW m \in Nodes, pc'[m] \in Before(order), NEW c \in Children(m)
                   PROVE  pc'[c] = "unborn"
      BY <1>1 DEF Unbegun
    <2>2. m # n
      BY <1>3, <2>1 DEF Before
    <2>3. pc[c] = "unborn" /\ c \in Nodes
      BY <1>3, <2>1, <2>2, Family DEF RunInv, Unbegun
    <2>4. QED
      BY <1>3, <2>3
  <1>6. NoStragglers'
    <2>1. SUFFICES ASSUME NEW m \in Ended', NEW c \in Children(m)
                   PROVE  c \in Ended' \/ pc'[c] = "unborn"
      BY <1>1 DEF NoStragglers
    <2>2. m \in Nodes
      BY <1>2, <1>4 DEF Ended
    <2>3. c \in Nodes /\ (c \in Ended \/ pc[c] = "unborn")
      BY <1>4, <2>2, Family DEF RunInv, NoStragglers
    <2>4. QED
      BY <1>3, <1>4, <2>3
  <1>7. /\ wg' \in [Nodes -> Nat]
        /\ \A m \in Nodes : pc'[m] = "wait" => wg'[m] = Cardinality(Children(m) \ Ended')
    <2>1. CASE n = Root
      <3>1. wg' = wg
        BY <2>1 DEF Return
      <3>2. \A m \in Nodes : Children(m) \ Ended' = Children(m) \ Ended
        BY <1>4, <2>1, Family
      <3>3. QED
        BY <1>2, <1>3, <3>1, <3>2 DEF RunInv, Awaited
    <2>2. CASE n # Root
      <3> DEFINE p == Parent(n)
      <3>1. p \in Nodes /\ n \in Children(p) /\ pc[p] = "wait"
        BY <2>2, Family, ParentWaits
      <3>2. wg' = [wg EXCEPT ![p] = wg[p] - 1]
        BY <2>2 DEF Return
      <3>3. wg[p] = Cardinality(Children(p) \ Ended)
        BY <3>1 DEF RunInv, Awaited
      <3>4. IsFiniteSet(Children(p) \ Ended)
        BY <3>1, Family, FS_Subset
      <3>5. /\ Cardinality((Children(p) \ Ended) \ {n}) = wg[p] - 1
            /\ IsFiniteSet((Children(p) \ Ended) \ {n})
        BY <1>4, <3>1, <3>3, <3>4, FS_RemoveElement
      <3>6. wg[p] - 1 \in Nat
        BY <3>5, FS_CardinalityType
      <3>7. Children(p) \ Ended' = (Children(p) \ Ended) \ {n}
        BY <1>4
      <3>8. \A m \in Nodes \ {p} : Children(m) \ Ended' = Children(m) \ Ended
        BY <1>4, Family
      <3> HIDE DEF p
      <3>9. wg' \in [Nodes -> Nat] /\ wg'[p] = wg[p] - 1
            /\ \A m \in Nodes \ {p} : wg'[m] = wg[m]
        BY <1>2, <3>1, <3>2, <3>6
      <3>10. ASSUME NEW m \in Nodes, pc'[m] = "wait"
             PROVE  wg'[m] = Cardinality(Children(m) \ Ended')
        <4>1. CASE m = p
          BY <3>5, <3>7, <3>9, <4>1
        <4>2. CASE m # p
          <5>1. pc[m] = "wait"
            BY <1>3, <3>10
          <5>2. QED
            BY <3>8, <3>9, <4>2, <5>1 DEF RunInv, Awaited
        <4>3. QED
          BY <4>1, <4>2
      <3>11. QED
        BY <3>9, <3>10
    <2>3. QED
      BY <2>1, <2>2
  <1>8. Awaited'
    <2>1. SUFFICES ASSUME NEW m \in Nodes, pc'[m] = "wait", NEW c \in Children(m)
                   PROVE  pc'[c] # "unborn"
      BY <1>1, <1>7 DEF Awaited
    <2>2. pc[m] = "wait" /\ c \in Nodes
      BY <1>3, <2>1, Family
    <2>3. QED
      BY <1>3, <2>2 DEF RunInv, Awaited
  <1>9. QED
    BY <1>3, <1>4, <1>5, <1>6, <1>7, <1>8

(* An execution moves on without starting or ending one.                   *)
LEMMA MoveKeeps ==
    ASSUME IsTree(Nodes), RunInv, order \in Orders, NEW n \in Nodes,
           NEW place \in {"children", "handle", "running", "over"},
           pc' = [pc EXCEPT ![n] = place],
           pc[n] # "unborn",
           place \in Before(order) => pc[n] \in Before(order),
           pc[n] \in {"done", "over"} <=> place = "over",
           UNCHANGED <<held, order, wg>>
    PROVE  /\ pc' \in [Nodes -> Places] /\ wg' \in [Nodes -> Nat]
           /\ Unbegun' /\ Awaited' /\ NoStragglers'
           /\ Ended' = Ended
           /\ \A m \in Nodes \ {n} : pc'[m] = pc[m]
           /\ pc'[n] = place
  <1>1. Nodes' = Nodes /\ \A m : Children(m)' = Children(m)
    BY DEF Nodes, Children
  <1>2. pc \in [Nodes -> Places] /\ wg \in [Nodes -> Nat]
    BY DEF RunInv
  <1>3. /\ pc' \in [Nodes -> Places] /\ pc'[n] = place
        /\ \A m \in Nodes \ {n} : pc'[m] = pc[m]
    BY <1>2 DEF Places
  <1>4. Ended' = Ended
    BY <1>2, <1>3 DEF Ended
  <1>5. \A m \in Nodes : Children(m) \subseteq Nodes
    BY Family
  <1>6. \A m \in Nodes : pc'[m] = "unborn" <=> pc[m] = "unborn"
    BY <1>3
  <1>7. Unbegun'
    <2>1. \A m \in Nodes : pc'[m] \in Before(order) => pc[m] \in Before(order)
      BY <1>3
    <2>2. QED
      BY <1>1, <1>5, <1>6, <2>1 DEF Unbegun, RunInv
  <1>8. Awaited'
    <2>1. \A m \in Nodes : pc'[m] = "wait" => pc[m] = "wait"
      BY <1>3
    <2>2. QED
      BY <1>1, <1>4, <1>5, <1>6, <2>1 DEF Awaited, RunInv
  <1>9. NoStragglers'
    <2>1. Ended \subseteq Nodes
      BY <1>2 DEF Ended
    <2>2. QED
      BY <1>1, <1>4, <1>5, <1>6, <2>1 DEF NoStragglers, RunInv
  <1>10. QED
    BY <1>2, <1>3, <1>4, <1>7, <1>8, <1>9

LEMMA RunStep ==
    ASSUME BuildInv, order \in Orders, cancelled \in BOOLEAN, RunInv, NEW n \in Nodes,
           Step(n)
    PROVE  RunInv'
  <1>tree. IsTree(Nodes) /\ Root \in Nodes /\ Ended \subseteq Nodes
    BY DEF BuildInv, Step, Ended, RunInv
  <1>same. /\ Nodes' = Nodes /\ \A m : Children(m)' = Children(m)
           /\ UNCHANGED <<held, order, cancelled>>
    BY DEF Step, chartVars, Nodes, Children, Spawn, Proceed, Call, Fails, Succeeds, Note
  <1>pc. pc \in [Nodes -> Places] /\ wg \in [Nodes -> Nat]
    BY DEF RunInv
  <1>order. order \in {"PositiveOrder", "ReversedOrder"}
    BY TreeAssumption
  <1>kin. \A m \in Nodes : /\ Children(m) \subseteq Nodes \ {Root} /\ m \notin Children(m)
                           /\ \A c \in Children(m) : Parent(c) = m
    BY <1>tree, Family
  <1>spawn. CASE Spawn(n)
    <2>1. /\ pc[n] = "children"
          /\ wg' = [wg EXCEPT ![n] = Cardinality(Children(n))]
          /\ pc' = [m \in Nodes |-> IF m = n THEN "wait"
                                    ELSE IF m \in Children(n) THEN Entry(order) ELSE pc[m]]
          /\ UNCHANGED <<handled, failed, erred, errList>>
      BY <1>spawn DEF Spawn
    <2>2. Entry(order) \in {"children", "handle"} \cap Before(order)
      BY <1>order DEF Entry, Before
    <2>3. \A c \in Children(n) : pc[c] = "unborn"
      BY <2>1 DEF RunInv, Unbegun, Before
    <2>4. /\ pc' \in [Nodes -> Places] /\ pc'[n] = "wait"
          /\ \A c \in Children(n) : pc'[c] = Entry(order)
          /\ \A m \in Nodes \ ({n} \cup Children(n)) : pc'[m] = pc[m]
      BY <1>pc, <1>kin, <2>1, <2>2 DEF Places
    <2>5. Ended' = Ended
      BY <1>pc, <1>kin, <2>1, <2>2, <2>3, <2>4 DEF Ended
    <2>6. Children(n) \ Ended = Children(n)
      BY <2>3 DEF Ended
    <2>7. Cardinality(Children(n)) \in Nat
      BY <1>tree, Family, FS_CardinalityType
    <2>8. /\ wg' \in [Nodes -> Nat] /\ wg'[n] = Cardinality(Children(n))
          /\ \A m \in Nodes \ {n} : wg'[m] = wg[m]
      BY <1>pc, <2>1, <2>7
    <2>9. Unbegun'
      <3>1. SUFFICES ASSUME NEW m \in Nodes, pc'[m] \in Before(order), NEW c \in Children(m)
                     PROVE  pc'[c] = "unborn"
        BY <1>same DEF Unbegun
      <3>2. m # n
        BY <2>4, <3>1 DEF Before
      <3>3. c \in Nodes /\ Parent(c) = m
        BY <1>kin
      <3>4. c \notin Children(n)
        BY <1>kin, <3>2, <3>3
      <3>5. pc[m] \in Before(order)
        BY <2>3, <2>4, <3>1, <3>2 DEF Before
      <3>6. pc[c] = "unborn"
        BY <3>5 DEF RunInv, Unbegun
      <3>7. c # n
        BY <2>1, <3>6
      <3>8. QED
        BY <2>4, <3>3, <3>4, <3>6, <3>7
    <2>10. Awaited'
      <3>1. SUFFICES ASSUME NEW m \in Nodes, pc'[m] = "wait"
                     PROVE  /\ \A c \in Children(m) : pc'[c] # "unborn"
                            /\ wg'[m] = Cardinality(Children(m) \ Ended)
        BY <1>same, <2>5 DEF Awaited
      <3>2. CASE m = n
        BY <2>2, <2>4, <2>6, <2>8, <3>2
      <3>3. CASE m # n
        <4>1. m \notin Children(n)
          BY <2>2, <2>4, <3>1
        <4>2. pc[m] = "wait"
          BY <2>4, <3>1, <3>3, <4>1
        <4>3. /\ \A c \in Children(m) : pc[c] # "unborn"
              /\ wg[m] = Cardinality(Children(m) \ Ended)
          BY <4>2 DEF RunInv, Awaited
        <4>4. \A c \in Children(m) : c \in Nodes /\ c \notin Children(n)
          BY <2>3, <4>3, <1>kin
        <4>5. \A c \in Children(m) : pc'[c] # "unborn"
          BY <2>4, <4>3, <4>4
        <4>6. QED
          BY <2>8, <3>3, <4>3, <4>5
      <3>4. QED
        BY <3>2, <3>3
    <2>11. NoStragglers'
      <3>1. SUFFICES ASSUME NEW m \in Ended, NEW c \in Children(m)
                     PROVE  c \in Ended \/ pc'[c] = "unborn"
        BY <1>same, <2>5 DEF NoStragglers
      <3>2. m # n /\ m \in Nodes
        BY <1>tree, <2>1 DEF Ended
      <3>3. c \in Nodes /\ c \notin Children(n)
        BY <1>kin, <3>2
      <3>4. c \in Ended \/ pc[c] = "unborn"
        BY DEF RunInv, NoStragglers
      <3>5. QED
        BY <2>1, <2>4, <3>3, <3>4
    <2>12. ChildrenFirst'
      <3>1. SUFFICES ASSUME order = "PositiveOrder", NEW m \in Nodes,
                            pc'[m] \in {"handle", "running"} \/ m \in handled
                     PROVE  Children(m) \subseteq Ended
        BY <1>same, <2>1, <2>4, <2>5 DEF ChildrenFirst
      <3>2. Entry(order) = "children"
        BY <3>1 DEF Entry
      <3>3. pc[m] \in {"handle", "running"} \/ m \in handled
        BY <2>4, <3>1, <3>2
      <3>4. QED
        BY <1>pc, <3>1, <3>3 DEF RunInv, ChildrenFirst
    <2>13. order = "ReversedOrder" => n \in handled
      BY <2>1 DEF RunInv, HandledBefore
    <2>14. ParentsFirst'
      <3>1. SUFFICES ASSUME order = "ReversedOrder", NEW m \in Nodes \ {Root},
                            pc'[m] # "unborn"
                     PROVE  Parent(m) \in handled
        BY <1>same, <2>1, <2>4 DEF ParentsFirst
      <3>2. CASE m \in Children(n)
        BY <1>kin, <2>13, <3>1, <3>2
      <3>3. CASE m \notin Children(n)
        <4>1. pc[m] # "unborn"
          BY <2>1, <2>4, <3>1, <3>3
        <4>2. QED
          BY <1>pc, <3>1, <4>1 DEF RunInv, ParentsFirst
      <3>4. QED
        BY <3>2, <3>3
    <2>15. HandledBefore'
      <3>1. SUFFICES ASSUME order = "ReversedOrder", NEW m \in Nodes,
                            pc'[m] \in {"children", "wait"}
                     PROVE  m \in handled
        BY <1>same, <2>1 DEF HandledBefore
      <3>2. Entry(order) = "handle"
        BY <3>1 DEF Entry
      <3>3. m = n \/ pc[m] \in {"children", "wait"}
        BY <2>4, <3>1, <3>2
      <3>4. QED
        BY <2>13, <3>1, <3>3 DEF RunInv, HandledBefore
    <2>16. Smooth'
      BY <1>same, <1>tree, <2>1, <2>5 DEF RunInv, Smooth
    <2>17. QED
      BY <1>same, <2>4, <2>8, <2>9, <2>10, <2>11, <2>12, <2>14, <2>15, <2>16 DEF RunInv
  <1>proceed. CASE Proceed(n)
    <2>1. pc[n] = "wait" /\ wg[n] = 0 /\ UNCHANGED <<handled, failed, errList>>
      BY <1>proceed DEF Proceed
    <2>2. Children(n) \subseteq Ended
      <3>1. IsFiniteSet(Children(n) \ Ended)
        BY <1>tree, Family, FS_Subset
      <3>2. Cardinality(Children(n) \ Ended) = 0
        BY <2>1 DEF RunInv, Awaited
      <3>3. QED
        BY <3>1, <3>2, FS_EmptySet
    <2>3. order = "ReversedOrder" => n \in handled
      BY <2>1 DEF RunInv, HandledBefore
    <2>return. ASSUME NEW err \in BOOLEAN, Return(n, err),
                      err => Children(n) \cap errList # {},
                      ~ err => order = "ReversedOrder"
               PROVE  RunInv'
      <3>1. /\ pc' \in [Nodes -> Places] /\ wg' \in [Nodes -> Nat]
            /\ Unbegun' /\ Awaited' /\ NoStragglers'
            /\ Ended' = Ended \cup {n}
            /\ \A m \in Nodes \ {n} : pc'[m] = pc[m]
            /\ pc'[n] = "done"
        BY <1>tree, <1>same, <2>1, <2>2, <2>return, ReturnKeeps
      <3>2. ChildrenFirst'
        BY <1>same, <1>pc, <2>1, <3>1 DEF RunInv, ChildrenFirst
      <3>3. ParentsFirst' /\ HandledBefore'
        BY <1>same, <1>pc, <2>1, <3>1 DEF RunInv, ParentsFirst, HandledBefore
      <3>4. Smooth'
        <4>1. SUFFICES ASSUME failed = {}, ~ cancelled
                       PROVE  /\ erred' = {} /\ errList = {}
                              /\ \A m \in Ended \cup {n} : m \in handled /\ Children(m) \subseteq Ended
          BY <1>same, <2>1, <3>1 DEF Smooth
        <4>2. /\ erred = {} /\ errList = {}
              /\ \A m \in Ended : m \in handled /\ Children(m) \subseteq Ended
          BY <4>1 DEF RunInv, Smooth
        <4>3. ~ err
          BY <2>return, <4>2
        <4>4. erred' = erred
          BY <2>return, <4>3 DEF Return
        <4>5. QED
          BY <2>2, <2>3, <2>return, <4>2, <4>3, <4>4
      <3>5. QED
        BY <1>same, <3>1, <3>2, <3>3, <3>4 DEF RunInv
    <2>handle. CASE /\ order = "PositiveOrder"
                    /\ pc' = [pc EXCEPT ![n] = "handle"]
                    /\ UNCHANGED <<wg, erred>>
      <3>1. /\ pc' \in [Nodes -> Places] /\ wg' \in [Nodes -> Nat]
            /\ Unbegun' /\ Awaited' /\ NoStragglers'
            /\ Ended' = Ended
            /\ \A m \in Nodes \ {n} : pc'[m] = pc[m]
            /\ pc'[n] = "handle"
        <4>1. "handle" \notin Before(order)
          BY <2>handle DEF Before
        <4>2. QED
          BY <1>tree, <1>same, <2>1, <2>handle, <4>1, MoveKeeps
      <3>2. ChildrenFirst'
        BY <1>same, <1>pc, <2>1, <2>2, <3>1 DEF RunInv, ChildrenFirst
      <3>3. ParentsFirst' /\ HandledBefore'
        BY <1>same, <2>handle DEF ParentsFirst, HandledBefore
      <3>4. Smooth'
        BY <1>same, <1>tree, <2>1, <2>handle, <3>1 DEF RunInv, Smooth
      <3>5. QED
        BY <1>same, <3>1, <3>2, <3>3, <3>4 DEF RunInv
    <2>qed. QED
      BY <1>proceed, <2>return, <2>handle DEF Proceed
  <1>call. CASE Call(n)
    <2>1. /\ pc[n] = "handle" /\ pc' = [pc EXCEPT ![n] = "running"]
          /\ UNCHANGED <<wg, handled, failed, erred, errList>>
      BY <1>call DEF Call
    <2>2. /\ pc' \in [Nodes -> Places] /\ wg' \in [Nodes -> Nat]
          /\ Unbegun' /\ Awaited' /\ NoStragglers'
          /\ Ended' = Ended
          /\ \A m \in Nodes \ {n} : pc'[m] = pc[m]
          /\ pc'[n] = "running"
      <3>1. "running" \in Before(order) => "handle" \in Before(order)
        BY DEF Before
      <3>2. QED
        BY <1>tree, <1>same, <2>1, <3>1, MoveKeeps
    <2>3. ChildrenFirst'
      BY <1>same, <1>pc, <2>1, <2>2 DEF RunInv, ChildrenFirst
    <2>4. ParentsFirst' /\ HandledBefore'
      BY <1>same, <1>pc, <2>1, <2>2 DEF RunInv, ParentsFirst, HandledBefore
    <2>5. Smooth'
      BY <1>same, <1>tree, <2>1, <2>2 DEF RunInv, Smooth
    <2>6. QED
      BY <1>same, <2>2, <2>3, <2>4, <2>5 DEF RunInv
  <1>handler. CASE Fails(n) \/ Succeeds(n)
    <2>1. pc[n] = "running" /\ UNCHANGED errList
      BY <1>handler DEF Fails, Succeeds
    <2>2. \A c \in Children(n) : c \in Ended \/ pc[c] = "unborn"
      <3>1. CASE order = "PositiveOrder"
        BY <1>pc, <2>1, <3>1 DEF RunInv, ChildrenFirst
      <3>2. CASE order = "ReversedOrder"
        BY <2>1, <3>2 DEF RunInv, Unbegun, Before
      <3>3. QED
        BY <1>order, <3>1, <3>2
    <2>3. handled \subseteq handled' /\ handled' \subseteq handled \cup {n}
      BY <1>handler DEF Fails, Succeeds
    <2>4. order = "PositiveOrder" => Children(n) \subseteq Ended
      BY <1>pc, <2>1 DEF RunInv, ChildrenFirst
    <2>return. ASSUME NEW err \in BOOLEAN, Return(n, err),
                      failed' # {} \/ cancelled
                         \/ (failed' = failed /\ ~ err /\ order = "PositiveOrder" /\ n \in handled')
               PROVE  RunInv'
      <3>1. /\ pc' \in [Nodes -> Places] /\ wg' \in [Nodes -> Nat]
            /\ Unbegun' /\ Awaited' /\ NoStragglers'
            /\ Ended' = Ended \cup {n}
            /\ \A m \in Nodes \ {n} : pc'[m] = pc[m]
            /\ pc'[n] = "done"
        BY <1>tree, <1>same, <2>1, <2>2, <2>return, ReturnKeeps
      <3>2. ChildrenFirst'
        BY <1>same, <1>pc, <2>1, <2>3, <2>4, <3>1 DEF RunInv, ChildrenFirst
      <3>3. ParentsFirst' /\ HandledBefore'
        BY <1>same, <1>pc, <2>1, <2>3, <3>1 DEF RunInv, ParentsFirst, HandledBefore
      <3>4. Smooth'
        <4>1. SUFFICES ASSUME failed' = {}, ~ cancelled
                       PROVE  /\ erred' = {} /\ errList = {}
                              /\ \A m \in Ended \cup {n} :
                                    m \in handled' /\ Children(m) \subseteq Ended
          BY <1>same, <2>1, <3>1 DEF Smooth
        <4>2. failed = {} /\ ~ err /\ order = "PositiveOrder" /\ n \in handled'
          BY <2>return, <4>1
        <4>3. /\ erred = {} /\ errList = {}
              /\ \A m \in Ended : m \in handled /\ Children(m) \subseteq Ended
          BY <4>1, <4>2 DEF RunInv, Smooth
        <4>4. erred' = erred
          BY <2>return, <4>2 DEF Return
        <4>5. QED
          BY <2>3, <2>4, <4>2, <4>3, <4>4
      <3>5. QED
        BY <1>same, <3>1, <3>2, <3>3, <3>4 DEF RunInv
    <2>children. CASE /\ ~ cancelled /\ order = "ReversedOrder"
                      /\ pc' = [pc EXCEPT ![n] = "children"]
                      /\ UNCHANGED <<wg, erred, failed>>
                      /\ n \in handled'
      <3>1. /\ pc' \in [Nodes -> Places] /\ wg' \in [Nodes -> Nat]
            /\ Unbegun' /\ Awaited' /\ NoStragglers'
            /\ Ended' = Ended
            /\ \A m \in Nodes \ {n} : pc'[m] = pc[m]
            /\ pc'[n] = "children"
        <4>1. "running" \in Before(order)
          BY <2>children DEF Before
        <4>2. QED
          BY <1>tree, <1>same, <2>1, <2>children, <4>1, MoveKeeps
      <3>2. ChildrenFirst'
        BY <1>same, <2>children DEF ChildrenFirst
      <3>3. ParentsFirst' /\ HandledBefore'
        BY <1>same, <1>pc, <2>1, <2>3, <2>children, <3>1
        DEF RunInv, ParentsFirst, HandledBefore
      <3>4. Smooth'
        BY <1>same, <1>tree, <2>1, <2>3, <2>children, <3>1 DEF RunInv, Smooth
      <3>5. QED
        BY <1>same, <3>1, <3>2, <3>3, <3>4 DEF RunInv
    <2>fails. CASE Fails(n)
      BY <2>fails, <2>return DEF Fails
    <2>succeeds. CASE Succeeds(n)
      <3>1. n \in handled' /\ failed' = failed /\ cancelled \in BOOLEAN
        BY <2>succeeds DEF Succeeds
      <3>2. QED
        BY <2>succeeds, <2>return, <2>children, <3>1 DEF Succeeds
    <2>qed. QED
      BY <1>handler, <2>fails, <2>succeeds
  <1>note. CASE Note(n)
    <2>1. /\ pc[n] = "done" /\ pc' = [pc EXCEPT ![n] = "over"]
          /\ errList' = IF n \in erred THEN errList \cup {n} ELSE errList
          /\ UNCHANGED <<wg, handled, failed, erred>>
      BY <1>note DEF Note
    <2>2. /\ pc' \in [Nodes -> Places] /\ wg' \in [Nodes -> Nat]
          /\ Unbegun' /\ Awaited' /\ NoStragglers'
          /\ Ended' = Ended
          /\ \A m \in Nodes \ {n} : pc'[m] = pc[m]
          /\ pc'[n] = "over"
      <3>1. "over" \notin Before(order)
        BY DEF Before
      <3>2. QED
        BY <1>tree, <1>same, <2>1, <3>1, MoveKeeps
    <2>3. ChildrenFirst'
      BY <1>same, <1>pc, <2>1, <2>2 DEF RunInv, ChildrenFirst
    <2>4. ParentsFirst' /\ HandledBefore'
      BY <1>same, <1>pc, <2>1, <2>2 DEF RunInv, ParentsFirst, HandledBefore
    <2>5. Smooth'
      BY <1>same, <1>tree, <2>1, <2>2 DEF RunInv, Smooth
    <2>6. QED
      BY <1>same, <2>2, <2>3, <2>4, <2>5 DEF RunInv
  <1>qed. QED
    BY <1>spawn, <1>proceed, <1>call, <1>handler, <1>note DEF Step

-------------------------------------------------------------------------------
(* What holds throughout.                                                  *)

LEMMA CarrierInit == Init => CarrierInv
  <1> SUFFICES ASSUME Init PROVE CarrierInv
    OBVIOUS
  <1>1. BuildInv /\ phase # "run"
    BY BuildInitInv DEF Init, BuildInit
  <1>2. NotRunning /\ order \in Orders /\ cancelled \in BOOLEAN
    BY DEF Init, NotRunning
  <1>3. QED
    BY <1>1, <1>2 DEF CarrierInv, NotRunning

LEMMA CarrierStep == CarrierInv /\ [Next]_vars => CarrierInv'
  <1> SUFFICES ASSUME CarrierInv, [Next]_vars PROVE CarrierInv'
    OBVIOUS
  <1> USE DEF CarrierInv
  <1>cancel. CASE Cancel
    <2>1. /\ phase = "run" /\ cancelled' = TRUE
          /\ UNCHANGED <<chartVars, order, pc, wg, handled, failed, erred, errList>>
      BY <1>cancel DEF Cancel
    <2>2. BuildInv' /\ Nodes' = Nodes
      BY <2>1 DEF BuildInv, chartVars, Nodes, Made, IsTree
    <2>3. RunInv'
      BY <2>1 DEF RunInv, Unbegun, Awaited, NoStragglers, ChildrenFirst, ParentsFirst,
                  HandledBefore, Smooth, chartVars, Nodes, Children, Ended
    <2>4. QED
      BY <2>1, <2>2, <2>3 DEF chartVars
  <1>build. CASE Build
    <2>1. BuildInv' /\ phase # "run"
      BY <1>build, BuildStepInv
      DEF Build, BuildStep, AddFile, Rendered, Visit, Stored, AddResource, Parsed
    <2>2. NotRunning
      BY <2>1
    <2>3. UNCHANGED <<order, handled, failed, erred, errList, cancelled>>
      BY <1>build DEF Build
    <2>4. phase' = "run" => RunInv'
      BY <1>build, <2>2, RunBegins
    <2>5. phase' # "run" => NotRunning'
      BY <1>build, <2>2 DEF Build, NotRunning
    <2>6. QED
      BY <2>1, <2>2, <2>3, <2>4, <2>5 DEF NotRunning
  <1>run. CASE \E n \in Nodes : Step(n)
    <2>1. PICK n \in Nodes : Step(n)
      BY <1>run
    <2>2. /\ phase = "run" /\ UNCHANGED <<chartVars, order, cancelled>>
      BY <2>1 DEF Step, Spawn, Proceed, Call, Fails, Succeeds, Note
    <2>3. RunInv'
      BY <2>1, <2>2, RunStep
    <2>4. BuildInv' /\ Nodes' = Nodes
      BY <2>2 DEF BuildInv, chartVars, Nodes, Made, IsTree
    <2>5. /\ handled' \subseteq Nodes /\ failed' \subseteq Nodes
          /\ erred' \subseteq Nodes /\ errList' \subseteq Nodes
      BY <2>1 DEF Step, Spawn, Proceed, Call, Fails, Succeeds, Note, Return
    <2>6. QED
      BY <2>2, <2>3, <2>4, <2>5 DEF chartVars
  <1>stutter. CASE UNCHANGED vars
    <2>1. UNCHANGED chartVars /\ UNCHANGED runVars
      BY <1>stutter DEF vars
    <2>2. BuildInv' /\ Nodes' = Nodes /\ phase' = phase
      BY <2>1 DEF BuildInv, chartVars, Nodes, Made, IsTree
    <2>3. RunInv => RunInv'
      BY <2>1 DEF RunInv, Unbegun, Awaited, NoStragglers, ChildrenFirst, ParentsFirst,
                  HandledBefore, Smooth, chartVars, runVars, Nodes, Children, Ended
    <2>4. NotRunning => NotRunning'
      BY <2>1 DEF NotRunning, runVars
    <2>5. QED
      BY <2>1, <2>2, <2>3, <2>4 DEF runVars
  <1>qed. QED
    BY <1>cancel, <1>build, <1>run, <1>stutter DEF Next

THEOREM CarrierHolds == Spec => []CarrierInv
  BY CarrierInit, CarrierStep, PTL DEF Spec

(* The lists and trees hold resources of the chart and nothing else, no    *)
(* node hangs in the air, and no WaitGroup's counter becomes negative,     *)
(* where wg.Done would panic (tree.go).                                    *)
THEOREM CarrierTypeCorrect == Spec => []TypeOK
  <1>1. CarrierInv => TypeOK
    <2> SUFFICES ASSUME CarrierInv PROVE TypeOK
      OBVIOUS
    <2>1. ToSet(list) \subseteq Made /\ ToSet(queue) \subseteq Nodes
      BY DEF CarrierInv, BuildInv, ToSet
    <2>2. \A n \in Nodes : ToSet(held[n]) \subseteq Made /\ Above(n) \subseteq Nodes
      BY DEF CarrierInv, BuildInv, IsTree, ToSet
    <2>3. wg \in [DOMAIN pc -> Nat]
      BY DEF CarrierInv, RunInv, NotRunning, NoTree
    <2>4. QED
      BY <2>1, <2>2, <2>3 DEF TypeOK, CarrierInv, BuildInv, RunInv, NotRunning
  <1>2. QED
    BY <1>1, CarrierHolds, PTL

(* Positive order handles children before parents and reversed order       *)
(* parents before children, in whatever order the goroutines run, handlers *)
(* fail and errors get noted (execPositively, execReversely).              *)
THEOREM InOrderHolds == Spec => []InOrder
  <1>1. CarrierInv => InOrder
    <2>1. NotRunning => InOrder
      BY DEF NotRunning, NoTree, InOrder, ChildrenFirst, ParentsFirst
    <2>2. QED
      BY <2>1 DEF CarrierInv, RunInv, InOrder
  <1>2. QED
    BY <1>1, CarrierHolds, PTL

(* No handler runs below a node whose execution has returned, not even     *)
(* when it returned an error (wg.Wait in handleChildren).                  *)
THEOREM NoStragglersHolds == Spec => []NoStragglers
  <1>1. CarrierInv => NoStragglers
    <2>1. NotRunning => NoStragglers
      BY DEF NotRunning, NoTree, NoStragglers, Ended
    <2>2. QED
      BY <2>1 DEF CarrierInv, RunInv
  <1>2. QED
    BY <1>1, CarrierHolds, PTL

(* In a tree whose root has ended and where what has ended has its         *)
(* children ended, every node has ended.                                   *)
LEMMA AllEnded ==
    ASSUME IsTree(Nodes), Root \in Ended, Ended \subseteq Nodes,
           \A n \in Ended : Children(n) \subseteq Ended
    PROVE  Nodes \subseteq Ended
  <1> DEFINE Depths == {Len(n) : n \in Nodes \ Ended}
  <1>1. SUFFICES ASSUME Nodes \ Ended # {} PROVE FALSE
    OBVIOUS
  <1>2. \A n \in Nodes : Len(n) \in Nat
    BY DEF IsTree, Path
  <1>3. Depths \subseteq Nat /\ Depths # {}
    BY <1>1, <1>2
  <1>4. PICK k \in Depths : \A d \in Depths : k <= d
    <2> HIDE DEF Depths
    <2> QED BY <1>3, LeastOf
  <1>5. PICK n \in Nodes \ Ended : Len(n) = k
    BY <1>4
  <1>6. /\ Parent(n) \in Nodes /\ n \in Children(Parent(n))
        /\ Len(Parent(n)) < Len(n)
    BY <1>5, Family
  <1>7. Parent(n) \notin Ended
    BY <1>5, <1>6
  <1>8. Len(Parent(n)) \in Depths
    BY <1>6, <1>7
  <1>9. k <= Len(Parent(n)) /\ Len(Parent(n)) \in Nat /\ Len(n) \in Nat
    BY <1>2, <1>4, <1>5, <1>6, <1>8
  <1>10. QED
    BY <1>5, <1>6, <1>9

(* A Run in which nothing fails returns nil and has handled all of the     *)
(* tree, however deep (Run, handleChildren).                               *)
THEOREM AllHandledHolds == Spec => []AllHandled
  <1>1. CarrierInv => AllHandled
    <2> SUFFICES ASSUME CarrierInv, Root \in Ended, failed = {}, ~ cancelled
                 PROVE  Root \notin erred /\ handled = Nodes
      BY DEF AllHandled
    <2>1. phase = "run" /\ IsTree(Nodes)
      BY DEF CarrierInv, BuildInv, NotRunning, NoTree, Ended
    <2>2. RunInv /\ handled \subseteq Nodes /\ Ended \subseteq Nodes
      BY <2>1 DEF CarrierInv, RunInv, Ended
    <2>3. erred = {} /\ \A n \in Ended : n \in handled /\ Children(n) \subseteq Ended
      BY <2>2 DEF RunInv, Smooth
    <2>4. Nodes \subseteq Ended
      BY <2>1, <2>2, <2>3, AllEnded
    <2>5. QED
      BY <2>2, <2>3, <2>4
  <1>2. QED
    BY <1>1, CarrierHolds, PTL

-------------------------------------------------------------------------------
(* What is where.                                                          *)

(* Where Render puts a resource, and where its annotation does.            *)
BasePlace == [r \in Made |-> LogicPath(Base(r[1]))]
KeyPlace  == [r \in Made |-> PathKey(r[1])]

(* The nodes of a tree list those of S that belong there.                  *)
Holds(tree, S, place) ==
    /\ \A r \in S : place[r] \in DOMAIN tree
    /\ \A p \in DOMAIN tree : Lists(tree[p], {r \in S : place[r] = p})

(* The nodes walkthrough has gone over: those that no node of the queue is *)
(* above.                                                                  *)
Visited == {n \in Nodes : Above(n) \cap ToSet(queue) = {}}

(* No node is in the queue twice, or below another of the queue.           *)
Apart ==
    /\ Lists(queue, ToSet(queue))
    /\ \A p, q \in ToSet(queue) : p \in Above(q) => p = q

(* The tree from the resources of a set: no node without need.             *)
Grown(S) ==
    /\ Holds(held, S, KeyPlace)
    /\ Nodes = UNION {Above(KeyPlace[r]) : r \in S}

PlaceInv ==
    /\ phase = "render" => list = <<>> /\ Holds(held, {r \in Made : r[1] \notin rest}, BasePlace)
    /\ phase = "walk" => /\ Holds(held, Made, BasePlace)
                         /\ Apart /\ Lists(list, {r \in Made : BasePlace[r] \in Visited})
    /\ phase = "parse" => /\ Lists(list, ToSet(list)) /\ ToSet(list) \subseteq Made
                          /\ Grown(Made \ ToSet(list))
    /\ phase = "run" => Grown(Made)

(* Above a child there is what is above its parent, and itself.            *)
LEMMA AboveChild ==
    ASSUME NEW c \in Path, c # Root
    PROVE  /\ Above(c) = Above(Front(c)) \cup {c}
           /\ c \notin Above(Front(c)) /\ Front(c) \in Path
  <1> DEFINE n == Len(c)
             h == Front(c)
  <1>1. h \in Path /\ Len(h) < n
    BY AbovePath
  <1>2. c \in Seq(STRING) /\ n \in Nat /\ Len(h) \in Nat \ {0} /\ h = SubSeq(c, 1, n - 1)
    BY <1>1, AboveIs DEF Path, Front
  <1>3. n - 1 \in 1 .. n
    BY <1>1, <1>2
  <1>4. Len(h) = n - 1
    BY <1>2, <1>3, AboveIs
  <1>5. \A l \in 1 .. n - 1 : SubSeq(h, 1, l) = SubSeq(c, 1, l)
    <2>1. SUFFICES ASSUME NEW l \in 1 .. n - 1 PROVE SubSeq(h, 1, l) = SubSeq(c, 1, l)
      OBVIOUS
    <2>2. 1 \in 1 .. n /\ 1 \in 1 .. (n - 1) - 1 + 1 /\ l \in 1 .. (n - 1) - 1 + 1
      BY <1>2, <1>3, <2>1
    <2>3. SubSeq(SubSeq(c, 1, n - 1), 1, l) = SubSeq(c, 1 + 1 - 1, 1 + l - 1)
      BY <1>2, <1>3, <2>2, SubSeqOfSubSeq
    <2>4. 1 + 1 - 1 = 1 /\ 1 + l - 1 = l
      OBVIOUS
    <2>5. QED
      BY <1>2, <2>3, <2>4
  <1>6. Above(h) = {SubSeq(c, 1, l) : l \in 1 .. n - 1}
    BY <1>1, <1>4, <1>5, AboveIs
  <1>7. Above(c) = {SubSeq(c, 1, l) : l \in 1 .. n} /\ SubSeq(c, 1, n) = c
    BY AboveIs
  <1>8. 1 .. n = 1 .. n - 1 \cup {n}
    BY <1>2, <1>3
  <1> HIDE DEF n, h
  <1>9. Above(c) = Above(h) \cup {c}
    BY <1>6, <1>7, <1>8
  <1>10. c \notin Above(h)
    <2>1. \A l \in 1 .. n - 1 : Len(SubSeq(c, 1, l)) = l
      BY <1>3, AboveIs DEF n
    <2>2. \A l \in 1 .. n - 1 : l # n
      BY <1>2
    <2>3. QED
      BY <1>6, <2>1, <2>2 DEF n
  <1>11. QED
    BY <1>1, <1>9, <1>10 DEF h

(* Between a node above a path and that path there is a child of the node. *)
LEMMA Between ==
    ASSUME NEW p \in Path, NEW h \in Above(p), h # p
    PROVE  \E c \in Above(p) : c # Root /\ Front(c) = h
  <1> DEFINE n == Len(p)
  <1>1. PICK k \in 1 .. n : h = SubSeq(p, 1, k)
    BY AboveIs
  <1>2. n \in Nat /\ p \in Seq(STRING) /\ SubSeq(p, 1, n) = p
    BY AboveIs
  <1> HIDE DEF n
  <1>3. k # n
    BY <1>1, <1>2
  <1>4. k \in Nat \ {0} /\ k + 1 \in 1 .. n
    BY <1>2, <1>3
  <1> DEFINE c == SubSeq(p, 1, k + 1)
  <1>5. c \in Above(p) /\ Len(c) = k + 1
    BY <1>4, AboveIs DEF n
  <1>6. c # Root
    <2>1. Len(Root) = 1
      BY DEF Root
    <2>2. Len(c) # 1
      BY <1>4, <1>5
    <2> HIDE DEF c
    <2>3. QED
      BY <2>1, <2>2
  <1>7. Front(c) = SubSeq(c, 1, k)
    <2>1. (k + 1) - 1 = k
      BY <1>4
    <2> HIDE DEF c
    <2>2. QED
      BY <1>5, <2>1 DEF Front
  <1>8. SubSeq(c, 1, k) = h
    <2>1. 1 \in 1 .. n /\ 1 \in 1 .. (k + 1) - 1 + 1 /\ k \in 1 .. (k + 1) - 1 + 1
      BY <1>2, <1>4
    <2>2. SubSeq(SubSeq(p, 1, k + 1), 1, k) = SubSeq(p, 1 + 1 - 1, 1 + k - 1)
      BY <1>2, <1>4, <2>1, SubSeqOfSubSeq DEF n
    <2>3. 1 + 1 - 1 = 1 /\ 1 + k - 1 = k
      BY <1>4
    <2>4. QED
      BY <1>1, <2>2, <2>3
  <1>9. QED
    BY <1>5, <1>6, <1>7, <1>8

-------------------------------------------------------------------------------
(* node.add puts what it is given where it belongs, and leaves the rest.   *)
LEMMA AddHolds ==
    ASSUME NEW S, NEW T, NEW place, Holds(held, S, place), S \cap T = {},
           NEW path \in Path, \A r \in T : place[r] = path,
           NEW resources, Lists(resources, T)
    PROVE  Holds(Add(path, resources), S \cup T, place)
  <1> DEFINE g == Add(path, resources)
  <1>1. DOMAIN g = Nodes \cup Above(path)
    BY DEF Add, Nodes
  <1>2. path \in Above(path)
    BY AbovePath
  <1>3. \A r \in S \cup T : place[r] \in DOMAIN g
    BY <1>1, <1>2 DEF Holds, Nodes
  <1>4. ASSUME NEW p \in DOMAIN g
        PROVE  Lists(g[p], {r \in S \cup T : place[r] = p})
    <2> DEFINE old == IF p \in Nodes THEN held[p] ELSE <<>>
               new == IF p = path THEN resources ELSE <<>>
    <2>1. g[p] = old \o new
      BY DEF Add, Nodes
    <2>2. Lists(old, {r \in S : place[r] = p})
      <3>1. CASE p \in Nodes
        BY <3>1 DEF Holds, Nodes
      <3>2. CASE p \notin Nodes
        <4>1. {r \in S : place[r] = p} = {}
          BY <3>2 DEF Holds, Nodes
        <4>2. QED
          BY <3>2, <4>1, ListsNothing
      <3>3. QED
        BY <3>1, <3>2
    <2>3. Lists(new, {r \in T : place[r] = p})
      <3>1. CASE p = path
        <4>1. {r \in T : place[r] = p} = T
          BY <3>1
        <4>2. QED
          BY <3>1, <4>1
      <3>2. CASE p # path
        <4>1. {r \in T : place[r] = p} = {}
          BY <3>2
        <4>2. QED
          BY <3>2, <4>1, ListsNothing
      <3>3. QED
        BY <3>1, <3>2
    <2> HIDE DEF old, new, g
    <2>4. Lists(old \o new, {r \in S : place[r] = p} \cup {r \in T : place[r] = p})
      BY <2>2, <2>3, ListsBoth
    <2>5. {r \in S : place[r] = p} \cup {r \in T : place[r] = p} = {r \in S \cup T : place[r] = p}
      OBVIOUS
    <2>6. QED
      BY <2>1, <2>4, <2>5
  <1> HIDE DEF g
  <1>5. Holds(g, S \cup T, place)
    BY <1>3, <1>4 DEF Holds
  <1>6. QED
    BY <1>5 DEF g

(* Render puts the resources of a file at the file's node.                 *)
LEMMA AddFilePlaces ==
    ASSUME BuildInv, PlaceInv, NEW file \in rest, AddFile(file)
    PROVE  PlaceInv'
  <1> DEFINE S == {r \in Made : r[1] \notin rest}
             T == {<<file, i>> : i \in 1 .. chart[file]}
             path == LogicPath(Base(file))
  <1>1. /\ phase = "render" /\ rest' = rest \ {file} /\ phase' \in {"render", "rejected"}
        /\ UNCHANGED <<chart, queue, list>>
    BY DEF AddFile
  <1>2. file \in DOMAIN chart /\ chart \in Charts
    BY DEF BuildInv
  <1>3. CASE phase' = "rejected"
    BY <1>3 DEF PlaceInv
  <1>4. CASE phase' = "render"
    <2>1. /\ Odd(Len(Base(file)))
          /\ \E resources \in SetToSeqs(T) : held' = Add(path, resources)
      BY <1>4 DEF AddFile
    <2>2. PICK resources \in SetToSeqs(T) : held' = Add(path, resources)
      BY <2>1
    <2>3. Lists(resources, T)
      <3>1. IsFiniteSet(T)
        BY <1>2, FileIsFinite
      <3> HIDE DEF T
      <3>2. QED
        BY <2>2, <3>1, ListingLists
    <2>4. path \in Path
      BY <1>2, <2>1, FilePaths
    <2>5. S \cap T = {}
      OBVIOUS
    <2>6. T \subseteq Made
      BY <1>2 DEF Made
    <2>7. \A r \in T : BasePlace[r] = path
      BY <2>6 DEF BasePlace
    <2>8. Holds(held, S, BasePlace)
      BY <1>1 DEF PlaceInv
    <2>9. Holds(held', S \cup T, BasePlace)
      <3> HIDE DEF S, T, path
      <3> QED BY <2>2, <2>3, <2>4, <2>5, <2>7, <2>8, AddHolds
    <2>10. Made' = Made /\ BasePlace' = BasePlace
      BY <1>1 DEF Made, BasePlace
    <2>11. {r \in Made : r[1] \notin rest'} = S \cup T
      <3>1. \A r \in Made : r[1] = file => r \in T
        BY DEF Made
      <3>2. QED
        BY <1>1, <2>6, <3>1
    <2>12. list' = <<>>
      BY <1>1 DEF PlaceInv
    <2> HIDE DEF S, T
    <2>13. QED
      BY <1>4, <2>9, <2>10, <2>11, <2>12 DEF PlaceInv
  <1>5. QED
    BY <1>1, <1>3, <1>4

(* walkthrough begins at the root, from where all is still below.          *)
LEMMA RenderedPlaces ==
    ASSUME BuildInv, PlaceInv, Rendered
    PROVE  PlaceInv'
  <1>1. /\ phase = "render" /\ rest = {} /\ phase' = "walk" /\ list = <<>>
        /\ queue' = IF held = NoTree THEN <<>> ELSE <<Root>>
        /\ UNCHANGED <<chart, rest, list, held>>
    BY DEF Rendered, PlaceInv
  <1>2. Made' = Made /\ Nodes' = Nodes /\ BasePlace' = BasePlace
    BY <1>1 DEF Made, Nodes, BasePlace
  <1>3. Holds(held, Made, BasePlace)
    <2>1. {r \in Made : r[1] \notin rest} = Made
      BY <1>1
    <2>2. QED
      BY <1>1, <2>1 DEF PlaceInv
  <1>4. Apart'
    <2>1. CASE queue' = <<>>
      <3>1. ToSet(queue') = {}
        BY <2>1 DEF ToSet
      <3>2. QED
        BY <2>1, <3>1, ListsNothing DEF Apart
    <2>2. CASE queue' = <<Root>>
      <3>1. Lists(queue', {Root})
        BY <2>2, ListsOne
      <3>2. ToSet(queue') = {Root}
        BY <3>1, ListsCount
      <3>3. QED
        BY <3>1, <3>2 DEF Apart
    <2>3. QED
      BY <1>1, <2>1, <2>2
  <1>5. Visited' = {}
    <2>1. CASE held = NoTree
      BY <1>2, <2>1 DEF Visited, Nodes, NoTree
    <2>2. CASE held # NoTree
      <3>1. ToSet(queue') = {Root}
        <4>1. Lists(queue', {Root})
          BY <1>1, <2>2, ListsOne
        <4>2. QED
          BY <4>1, ListsCount
      <3>2. \A n \in Nodes : Root \in Above(n)
        BY AbovePath DEF BuildInv, IsTree
      <3>3. QED
        BY <1>2, <3>1, <3>2 DEF Visited
    <2>3. QED
      BY <2>1, <2>2
  <1>6. Lists(list, {r \in Made : BasePlace[r] \in Visited'})
    BY <1>1, <1>5, ListsNothing
  <1>7. QED
    BY <1>1, <1>2, <1>3, <1>4, <1>6 DEF PlaceInv

(* What is known of a node's children.                                     *)
LEMMA ChildrenAbove ==
    ASSUME BuildInv, NEW h \in Nodes, NEW c \in Children(h)
    PROVE  /\ c \in Nodes /\ c # h
           /\ Above(c) = Above(h) \cup {c}
           /\ c \notin Above(h) /\ h \in Above(h)
  <1>1. c \in Nodes /\ c # Root /\ Front(c) = h
    BY DEF Children, Nodes
  <1>2. c \in Path /\ h \in Path
    BY <1>1 DEF BuildInv, IsTree
  <1>3. QED
    BY <1>1, <1>2, AboveChild, AbovePath

(* A round of walkthrough replaces a node by its children: the nodes that  *)
(* are not below the queue are one more.                                   *)
LEMMA VisitPlaces ==
    ASSUME BuildInv, PlaceInv, Visit
    PROVE  PlaceInv'
  <1> DEFINE Q == ToSet(queue)
             h == Head(queue)
             C == Children(h)
             P == (Q \ {h}) \cup C
  <1>1. /\ phase = "walk" /\ queue # <<>> /\ list' = list \o held[h]
        /\ UNCHANGED <<phase, chart, rest, held>>
    BY DEF Visit
  <1>2. PICK ns \in SetToSeqs(C) : queue' = Tail(queue) \o ns
    BY DEF Visit
  <1>3. /\ Lists(queue, Q) /\ \A p, q \in Q : p \in Above(q) => p = q
        /\ Holds(held, Made, BasePlace)
        /\ Lists(list, {r \in Made : BasePlace[r] \in Visited})
    BY <1>1 DEF PlaceInv, Apart
  <1>4. Q \subseteq Nodes
    BY DEF BuildInv, ToSet
  <1>5. h \in Q /\ Lists(Tail(queue), Q \ {h})
    <2> HIDE DEF Q
    <2> QED BY <1>1, <1>3, ListsRest
  <1>6. Lists(ns, C) /\ C \subseteq Nodes
    <2>1. C \subseteq Nodes
      BY DEF Children, Nodes
    <2>2. IsFiniteSet(C)
      BY <2>1, FS_Subset DEF BuildInv, IsTree
    <2> HIDE DEF C
    <2>3. QED
      BY <1>2, <2>1, <2>2, ListingLists
  <1>7. \A c \in C : /\ c # h /\ Above(c) = Above(h) \cup {c}
                     /\ c \notin Above(h) /\ h \in Above(h)
    BY <1>4, <1>5, ChildrenAbove
  <1>8. \A p \in Nodes : p \in Path /\ p \in Above(p) /\ Above(p) \subseteq Nodes
                         /\ \A q \in Above(p) : Above(q) \subseteq Above(p)
    BY AbovePath DEF BuildInv, IsTree
  <1>9. \A p \in Nodes : h \in Above(p) /\ h # p => \E c \in C : c \in Above(p)
    <2>1. SUFFICES ASSUME NEW p \in Nodes, h \in Above(p), h # p
                   PROVE  \E c \in C : c \in Above(p)
      OBVIOUS
    <2>2. PICK c \in Above(p) : c # Root /\ Front(c) = h
      BY <1>8, <2>1, Between
    <2>3. c \in C
      BY <1>8, <2>1, <2>2 DEF Children, Nodes
    <2>4. QED
      BY <2>2, <2>3
  <1> HIDE DEF h, C, Q
  <1>10. (Q \ {h}) \cap C = {}
    BY <1>3, <1>5, <1>7
  <1>11. Lists(queue', P) /\ ToSet(queue') = P
    BY <1>2, <1>5, <1>6, <1>10, ListsBoth, ListsCount
  <1>12. ASSUME NEW p \in P, NEW q \in P, p \in Above(q) PROVE p = q
    <2>1. CASE p \in Q \ {h} /\ q \in Q \ {h}
      BY <1>3, <1>12, <2>1
    <2>2. CASE p \in Q \ {h} /\ q \in C
      BY <1>3, <1>5, <1>7, <1>12, <2>2
    <2>3. CASE p \in C /\ q \in Q \ {h}
      <3>1. h \in Above(q)
        BY <1>4, <1>7, <1>8, <1>12, <2>3
      <3>2. QED
        BY <1>3, <1>5, <2>3, <3>1
    <2>4. CASE p \in C /\ q \in C
      BY <1>7, <1>12, <2>4
    <2>5. QED
      BY <2>1, <2>2, <2>3, <2>4
  <1>13. Apart'
    BY <1>11, <1>12 DEF Apart
  <1>14. Made' = Made /\ Nodes' = Nodes /\ BasePlace' = BasePlace
    BY <1>1 DEF Made, Nodes, BasePlace
  <1>15. Visited' = Visited \cup {h} /\ h \notin Visited
    <2>1. Visited = {n \in Nodes : Above(n) \cap Q = {}}
      BY DEF Visited, Q
    <2>2. Visited' = {n \in Nodes : Above(n) \cap P = {}}
      BY <1>11, <1>14 DEF Visited
    <2>3. Above(h) \cap P = {}
      BY <1>3, <1>5, <1>7
    <2>4. \A n \in Nodes : Above(n) \cap Q = {} => Above(n) \cap P = {}
      BY <1>5, <1>6, <1>7, <1>8
    <2>5. \A n \in Nodes : Above(n) \cap P = {} => n = h \/ Above(n) \cap Q = {}
      BY <1>9
    <2>6. h \in Nodes /\ h \in Above(h)
      BY <1>4, <1>5, <1>8
    <2> HIDE DEF P
    <2>7. QED
      BY <1>5, <2>1, <2>2, <2>3, <2>4, <2>5, <2>6
  <1>16. Lists(list', {r \in Made : BasePlace[r] \in Visited'})
    <2> DEFINE A == {r \in Made : BasePlace[r] \in Visited}
               B == {r \in Made : BasePlace[r] = h}
    <2>1. Lists(held[h], B)
      BY <1>3, <1>4, <1>5 DEF Holds, Nodes
    <2>2. A \cap B = {}
      BY <1>15
    <2>3. {r \in Made : BasePlace[r] \in Visited'} = A \cup B
      BY <1>15
    <2>4. Lists(list \o held[h], A \cup B)
      <3>1. Lists(list, A)
        BY <1>3
      <3> HIDE DEF A, B
      <3>2. QED
        BY <2>1, <2>2, <3>1, ListsBoth
    <2> HIDE DEF A, B
    <2>5. QED
      BY <1>1, <2>3, <2>4 DEF h
  <1>17. QED
    BY <1>1, <1>3, <1>13, <1>14, <1>16 DEF PlaceInv

(* With the queue empty walkthrough has been everywhere.                   *)
LEMMA StoredPlaces ==
    ASSUME BuildInv, PlaceInv, Stored
    PROVE  PlaceInv'
  <1>1. /\ phase = "walk" /\ queue = <<>> /\ phase' = "parse" /\ held' = NoTree
        /\ UNCHANGED <<chart, list>>
    BY DEF Stored
  <1>2. Holds(held, Made, BasePlace) /\ Lists(list, {r \in Made : BasePlace[r] \in Visited})
    BY <1>1 DEF PlaceInv
  <1>3. Visited = Nodes
    BY <1>1 DEF Visited, ToSet
  <1>4. {r \in Made : BasePlace[r] \in Visited} = Made
    BY <1>2, <1>3 DEF Holds, Nodes
  <1>5. Lists(list, Made) /\ ToSet(list) = Made
    BY <1>2, <1>4, ListsCount
  <1>6. Made' = Made /\ Nodes' = {}
    BY <1>1 DEF Made, Nodes, NoTree
  <1>7. Grown({})'
    BY <1>6 DEF Grown, Holds, Nodes
  <1>8. QED
    BY <1>1, <1>5, <1>6, <1>7 DEF PlaceInv

(* CarrierForResources puts a resource where its annotation says.          *)
LEMMA AddResourcePlaces ==
    ASSUME BuildInv, PlaceInv, AddResource
    PROVE  PlaceInv'
  <1> DEFINE L == ToSet(list)
             S == Made \ L
  <1>head. PICK r : r = Head(list)
    OBVIOUS
  <1>1. /\ phase = "parse" /\ list # <<>> /\ list' = Tail(list)
        /\ held' = Add(PathKey(r[1]), <<r>>)
        /\ UNCHANGED <<phase, chart>>
    BY <1>head DEF AddResource
  <1>2. Lists(list, L) /\ L \subseteq Made /\ Grown(S)
    BY <1>1 DEF PlaceInv
  <1>3. r \in L /\ Lists(Tail(list), L \ {r})
    <2> HIDE DEF L
    <2> QED BY <1>head, <1>1, <1>2, ListsRest
  <1>4. ToSet(list') = L \ {r}
    BY <1>1, <1>3, ListsCount
  <1>5. PathKey(r[1]) \in Path
    <2>1. r[1] \in DOMAIN chart
      BY <1>2, <1>3 DEF Made
    <2>2. QED
      BY <2>1, FilePaths DEF BuildInv
  <1>6. KeyPlace[r] = PathKey(r[1])
    BY <1>2, <1>3 DEF KeyPlace
  <1>7. S \cap {r} = {} /\ Lists(<<r>>, {r})
    BY <1>3, ListsOne
  <1>8. /\ Holds(held', S \cup {r}, KeyPlace)
        /\ DOMAIN held' = Nodes \cup Above(PathKey(r[1]))
    <2>1. Holds(held, S, KeyPlace)
      BY <1>2 DEF Grown
    <2>2. PICK path : path = PathKey(r[1])
      OBVIOUS
    <2>3. PICK one : one = <<r>>
      OBVIOUS
    <2>4. path \in Path /\ \A x \in {r} : KeyPlace[x] = path
      BY <1>5, <1>6, <2>2
    <2>5. held' = Add(path, one) /\ Lists(one, {r})
      BY <1>1, <1>7, <2>2, <2>3
    <2>6. DOMAIN held' = Nodes \cup Above(path)
      BY <2>5 DEF Add, Nodes
    <2>7. S \cap {r} = {}
      BY <1>7
    <2> HIDE DEF S
    <2>8. Holds(held', S \cup {r}, KeyPlace)
      BY <2>1, <2>4, <2>5, <2>7, AddHolds
    <2>9. QED
      BY <2>2, <2>6, <2>8
  <1>9. Made' = Made /\ KeyPlace' = KeyPlace
    BY <1>1 DEF Made, KeyPlace
  <1>10. S \cup {r} = Made' \ ToSet(list')
    BY <1>2, <1>3, <1>4, <1>9
  <1>11. Nodes' = UNION {Above(KeyPlace[x]) : x \in S \cup {r}}
    BY <1>2, <1>6, <1>8 DEF Grown, Nodes
  <1> HIDE DEF S, L
  <1>12. Grown(Made \ ToSet(list))'
    BY <1>8, <1>9, <1>10, <1>11 DEF Grown
  <1>13. QED
    BY <1>1, <1>2, <1>3, <1>4, <1>9, <1>12 DEF PlaceInv

LEMMA ParsedPlaces ==
    ASSUME PlaceInv, Parsed
    PROVE  PlaceInv'
  <1>1. /\ phase = "parse" /\ list = <<>> /\ phase' \in {"empty", "run"}
        /\ UNCHANGED <<chart, list, held>>
    BY DEF Parsed
  <1>2. Made \ ToSet(list) = Made
    BY <1>1 DEF ToSet
  <1>3. Grown(Made)
    BY <1>1, <1>2 DEF PlaceInv
  <1>4. Made' = Made /\ Nodes' = Nodes /\ KeyPlace' = KeyPlace
    BY <1>1 DEF Made, Nodes, KeyPlace
  <1>5. Grown(Made)'
    BY <1>1, <1>3, <1>4 DEF Grown
  <1>6. QED
    BY <1>1, <1>5 DEF PlaceInv

LEMMA PlaceStep == BuildInv /\ PlaceInv /\ [Next]_vars => PlaceInv'
  <1> SUFFICES ASSUME BuildInv, PlaceInv, [Next]_vars PROVE PlaceInv'
    OBVIOUS
  <1>1. CASE UNCHANGED chartVars
    BY <1>1 DEF chartVars, PlaceInv, Apart, Visited, Grown, BasePlace, KeyPlace, Made, Nodes
  <1>2. CASE BuildStep
    BY <1>2, AddFilePlaces, RenderedPlaces, VisitPlaces, StoredPlaces, AddResourcePlaces,
       ParsedPlaces
    DEF BuildStep
  <1>3. BuildStep \/ UNCHANGED chartVars
    <2>1. ASSUME NEW n \in Nodes, Step(n) PROVE UNCHANGED chartVars
      BY <2>1 DEF Step
    <2>2. QED
      BY <2>1 DEF Next, Build, Cancel, vars
  <1>4. QED
    BY <1>1, <1>2, <1>3

LEMMA PlaceInit == Init => PlaceInv
  <1> SUFFICES ASSUME Init PROVE PlaceInv
    OBVIOUS
  <1>1. phase = "render" /\ rest = DOMAIN chart /\ list = <<>> /\ held = NoTree
    BY DEF Init, BuildInit
  <1>2. {r \in Made : r[1] \notin rest} = {}
    BY <1>1 DEF Made
  <1>3. Holds(held, {}, BasePlace)
    BY <1>1 DEF Holds, NoTree
  <1>4. QED
    BY <1>1, <1>2, <1>3 DEF PlaceInv

LEMMA PlaceHolds == Spec => [](BuildInv /\ PlaceInv)
  <1>1. CarrierInv => BuildInv
    BY DEF CarrierInv
  <1>2. QED
    BY <1>1, CarrierHolds, PlaceInit, PlaceStep, PTL DEF Spec

(* The manifest has every resource of every chart once, in whatever orders *)
(* files, resources and children come out of their maps, and wherever a    *)
(* nested directory "templates" has made Render put them (Resources).      *)
THEOREM ManifestWholeHolds == Spec => []ManifestWhole
  <1>1. BuildInv /\ PlaceInv => ManifestWhole
    <2> SUFFICES ASSUME BuildInv, PlaceInv, phase = "parse", held = NoTree
                 PROVE  ToSet(list) = Made /\ Len(list) = Cardinality(Made)
      BY DEF ManifestWhole
    <2>1. /\ Lists(list, ToSet(list)) /\ ToSet(list) \subseteq Made
          /\ Grown(Made \ ToSet(list))
      BY DEF PlaceInv
    <2>2. \A r \in Made \ ToSet(list) : KeyPlace[r] \in {}
      BY <2>1 DEF Grown, Holds, NoTree
    <2>3. ToSet(list) = Made
      BY <2>1, <2>2
    <2>4. QED
      BY <2>1, <2>3, ListsCount
  <1>2. QED
    BY <1>1, PlaceHolds, PTL

(* In the tree that is run every resource is at the node its annotation    *)
(* names, once, and no node is there without need (CarrierForManifest).    *)
THEOREM EachInItsPlaceHolds == Spec => []EachInItsPlace
  <1>1. BuildInv /\ PlaceInv => EachInItsPlace
    <2> SUFFICES ASSUME BuildInv, PlaceInv, phase = "run" PROVE EachInItsPlace
      BY DEF EachInItsPlace
    <2>1. Grown(Made)
      BY DEF PlaceInv
    <2>2. \A r \in Made : KeyPlace[r] = PathKey(r[1])
      BY DEF KeyPlace
    <2>3. DOMAIN held = UNION {Above(PathKey(r[1])) : r \in Made}
      BY <2>1, <2>2 DEF Grown, Nodes
    <2>4. ASSUME NEW p \in DOMAIN held
          PROVE  Lists(held[p], {r \in Made : PathKey(r[1]) = p})
      <3>1. {r \in Made : PathKey(r[1]) = p} = {r \in Made : KeyPlace[r] = p}
        BY <2>2
      <3>2. QED
        BY <2>1, <3>1 DEF Grown, Holds
    <2>5. QED
      BY <2>3, <2>4, ListsCount DEF EachInItsPlace
  <1>2. QED
    BY <1>1, PlaceHolds, PTL
===============================================================================
