----------------------------- MODULE PathsProofs ------------------------------
(***************************************************************************)
(* Theorems about Paths and PathRules, for paths, data directories and     *)
(* subdirectories of any length.                                           *)
(***************************************************************************)
EXTENDS PathRules, SequenceTheorems, FiniteSetTheorems, WellFoundedInduction, TLAPS

(* The least and the greatest of some numbers, and induction from them.    *)
LEMMA Least ==
  ASSUME NEW S, S \subseteq Nat, S # {}
  PROVE  \E x \in S : \A y \in S : x <= y
<1> DEFINE R == OpToRel(<, Nat)
<1>1. IsWellFoundedOn(R, Nat)
  BY NatLessThanWellFounded
<1>2. PICK x \in S : \A y \in S : ~ (<<y, x>> \in R)
  <2> HIDE DEF R
  <2> QED BY <1>1, WFMin, Zenon
<1>3. \A y \in S : ~ (y < x)
  BY <1>2 DEF OpToRel
<1> QED BY <1>3

LEMMA Greatest ==
  ASSUME NEW S, NEW n \in Nat, S \subseteq 1 .. n, S # {}
  PROVE  \E x \in S : \A y \in S : y <= x
<1> DEFINE U == {n - i : i \in S}
<1>1. U \subseteq Nat /\ U # {}
  <2>1. \A i \in S : i \in 1 .. n /\ n - i \in Nat
    OBVIOUS
  <2>2. U \subseteq Nat
    BY <2>1
  <2>3. PICK i : i \in S
    OBVIOUS
  <2>4. n - i \in U
    BY <2>3
  <2> QED BY <2>2, <2>4
<1>2. PICK u \in U : \A v \in U : u <= v
  <2> HIDE DEF U
  <2> QED BY <1>1, Least
<1>3. PICK x \in S : u = n - x
  BY <1>2
<1>4. \A y \in S : n - x <= n - y
  BY <1>2, <1>3
<1> QED BY <1>4

LEMMA NatInduct ==
  ASSUME NEW T, 0 \in T, \A n \in Nat : n \in T => n + 1 \in T
  PROVE  Nat \subseteq T
<1> SUFFICES ASSUME Nat \ T # {} PROVE FALSE
  OBVIOUS
<1>1. PICK x \in Nat \ T : \A y \in Nat \ T : x <= y
  <2>1. Nat \ T \subseteq Nat
    OBVIOUS
  <2> QED BY <2>1, Least, Zenon
<1>2. x - 1 \in Nat /\ ~(x <= x - 1) /\ x - 1 + 1 = x
  BY <1>1
<1>3. x - 1 \in T
  BY <1>1, <1>2
<1> QED BY <1>1, <1>2, <1>3

LEMMA SeqInduct ==
  ASSUME NEW A, NEW T, <<>> \in T,
         \A s \in Seq(A), x \in A : s \in T => Append(s, x) \in T
  PROVE  Seq(A) \subseteq T
<1> DEFINE N == {n \in Nat : \A s \in Seq(A) : Len(s) = n => s \in T}
<1>1. 0 \in N
  BY EmptySeq
<1>2. ASSUME NEW n \in Nat, n \in N PROVE n + 1 \in N
  <2> SUFFICES ASSUME NEW s \in Seq(A), Len(s) = n + 1 PROVE s \in T
    OBVIOUS
  <2>1. s # <<>>
    BY EmptySeq
  <2>2. PICK u \in Seq(A), x \in A : s = Append(u, x)
    BY <2>1, SequenceEmptyOrAppend
  <2>3. Len(s) = Len(u) + 1 /\ Len(u) \in Nat
    BY <2>2, AppendProperties, LenProperties
  <2>4. u \in T
    BY <1>2, <2>3
  <2> QED BY <2>2, <2>4
<1>3. Nat \subseteq N
  <2> HIDE DEF N
  <2> QED BY <1>1, <1>2, NatInduct
<1> QED BY <1>3, LenProperties
-------------------------------------------------------------------------------
(* STRING, with the strings that the provers need to find in it.           *)
Strings == STRING \cup {"", ".", "..", "data"}

(* How FilepathClean goes through s, part by part.                         *)
IsRun(rooted, s, done) ==
  done = [n \in 0 .. Len(s) |-> IF n = 0 THEN <<>> ELSE Resolve(rooted, done[n - 1], s[n])]

LEMMA Appended ==
  ASSUME NEW s \in Seq(Strings), NEW x \in Strings
  PROVE  /\ Len(s) \in Nat
         /\ Append(s, x) \in Seq(Strings) \ {<<>>}
         /\ Len(Append(s, x)) = Len(s) + 1
         /\ Append(s, x)[Len(s) + 1] = x
         /\ \A i \in 1 .. Len(s) : Append(s, x)[i] = s[i]
<1>1. Len(s) \in Nat
  BY LenProperties
<1>2. /\ Append(s, x) \in Seq(Strings)
      /\ Append(s, x) # <<>>
      /\ Len(Append(s, x)) = Len(s) + 1
      /\ \A i \in 1 .. Len(s) : Append(s, x)[i] = s[i]
      /\ Append(s, x)[Len(s) + 1] = x
  BY AppendProperties, Zenon
<1> QED BY <1>1, <1>2, Zenon

StepsOf(e, n) == e = [i \in 0 .. n |-> e[i]]

LEMMA RunLonger ==
  ASSUME NEW rooted, NEW t, NEW u, NEW l \in Nat, Len(t) = l, Len(u) = l + 1,
         \A i \in 1 .. l : u[i] = t[i],
         NEW d, IsRun(rooted, t, d),
         NEW e, StepsOf(e, l + 1), \A i \in 0 .. l : e[i] = d[i],
         e[l + 1] = Resolve(rooted, d[l], u[l + 1])
  PROVE  IsRun(rooted, u, e)
<1>1. d[0] = <<>> /\ \A i \in 1 .. l : d[i] = Resolve(rooted, d[i - 1], t[i])
  BY DEF IsRun
<1>2. ASSUME NEW n \in 0 .. l + 1
      PROVE  e[n] = IF n = 0 THEN <<>> ELSE Resolve(rooted, e[n - 1], u[n])
  <2>1. CASE n = 0
    BY <2>1, <1>1
  <2>2. CASE n \in 1 .. l
    <3>1. e[n] = d[n] /\ e[n - 1] = d[n - 1] /\ u[n] = t[n] /\ n # 0
      BY <2>2
    <3>2. d[n] = Resolve(rooted, d[n - 1], t[n])
      BY <2>2, <1>1
    <3> QED BY <3>1, <3>2, Zenon
  <2>3. CASE n = l + 1
    <3>1. n - 1 = l /\ n # 0 /\ e[l] = d[l]
      BY <2>3
    <3> QED BY <3>1, <2>3, Zenon
  <2> QED BY <2>1, <2>2, <2>3
<1>3. e = [n \in 0 .. l + 1 |-> IF n = 0 THEN <<>> ELSE Resolve(rooted, e[n - 1], u[n])]
  BY <1>2 DEF StepsOf
<1> QED BY <1>3 DEF IsRun

LEMMA RunAppended ==
  ASSUME NEW rooted, NEW s \in Seq(Strings), NEW x \in Strings, NEW d, IsRun(rooted, s, d)
  PROVE  \E e : /\ IsRun(rooted, Append(s, x), e)
                /\ e[Len(s) + 1] = Resolve(rooted, d[Len(s)], x)
<1> DEFINE l == Len(s)
           u == Append(s, x)
<1>1. l \in Nat /\ Len(u) = l + 1 /\ u[l + 1] = x /\ \A i \in 1 .. l : u[i] = s[i]
  BY Appended, Zenon
<1>2. Len(s) = l
  OBVIOUS
<1> HIDE DEF l, u
<1>3. PICK e : e = [n \in 0 .. l + 1 |-> IF n <= l THEN d[n]
                                        ELSE Resolve(rooted, d[l], u[l + 1])]
  OBVIOUS
<1>4. /\ StepsOf(e, l + 1)
      /\ \A i \in 0 .. l : e[i] = d[i]
      /\ e[l + 1] = Resolve(rooted, d[l], u[l + 1])
  BY <1>1, <1>3 DEF StepsOf
<1>5. IsRun(rooted, u, e)
  BY <1>1, <1>2, <1>4, RunLonger
<1> QED BY <1>1, <1>4, <1>5 DEF l, u

LEMMA RunExists ==
  ASSUME NEW rooted, NEW s \in Seq(Strings)
  PROVE  \E done : IsRun(rooted, s, done)
<1> DEFINE T == {t \in Seq(Strings) : \E done : IsRun(rooted, t, done)}
<1>1. <<>> \in T
  <2>1. IsRun(rooted, <<>>, [n \in 0 .. 0 |-> <<>>])
    BY EmptySeq DEF IsRun
  <2> QED BY <2>1, EmptySeq
<1>2. ASSUME NEW t \in Seq(Strings), NEW x \in Strings, t \in T PROVE Append(t, x) \in T
  <2>1. PICK d : IsRun(rooted, t, d)
    BY <1>2
  <2>2. \E e : IsRun(rooted, Append(t, x), e)
    BY <2>1, RunAppended, Zenon
  <2> QED BY <2>2, Appended
<1>3. Seq(Strings) \subseteq T
  <2> HIDE DEF T
  <2> QED BY <1>1, <1>2, SeqInduct
<1> QED BY <1>3

LEMMA CleanIsRun ==
  ASSUME NEW rooted, NEW s \in Seq(Strings)
  PROVE  \E done : IsRun(rooted, s, done) /\ FilepathClean(rooted, s) = done[Len(s)]
<1> DEFINE d == CHOOSE done : IsRun(rooted, s, done)
<1>1. IsRun(rooted, s, d)
  BY RunExists
<1>2. FilepathClean(rooted, s) = d[Len(s)]
  BY DEF FilepathClean, IsRun
<1> QED BY <1>1, <1>2

LEMMA RunUnique ==
  ASSUME NEW rooted, NEW s, NEW l \in Nat, Len(s) = l,
         NEW d, IsRun(rooted, s, d), NEW e, IsRun(rooted, s, e)
  PROVE  d[l] = e[l]
<1> DEFINE T == {n \in Nat : n <= l => d[n] = e[n]}
<1>1. 0 \in T
  BY DEF IsRun
<1>2. ASSUME NEW n \in Nat, n \in T PROVE n + 1 \in T
  <2> SUFFICES ASSUME n + 1 <= l PROVE d[n + 1] = e[n + 1]
    OBVIOUS
  <2>1. d[n] = e[n]
    BY <1>2
  <2>2. d[n + 1] = Resolve(rooted, d[n], s[n + 1]) /\ e[n + 1] = Resolve(rooted, e[n], s[n + 1])
    BY DEF IsRun
  <2> QED BY <2>1, <2>2
<1>3. Nat \subseteq T
  <2> HIDE DEF T
  <2> QED BY <1>1, <1>2, NatInduct
<1> QED BY <1>3

(* Clean resolves a longer path from what the shorter one came to.         *)
LEMMA CleanEmpty == ASSUME NEW rooted PROVE FilepathClean(rooted, <<>>) = <<>>
<1>1. <<>> \in Seq(Strings) /\ Len(<<>>) = 0
  BY EmptySeq
<1>2. PICK d : IsRun(rooted, <<>>, d) /\ FilepathClean(rooted, <<>>) = d[0]
  BY <1>1, CleanIsRun
<1> QED BY <1>1, <1>2 DEF IsRun

LEMMA CleanAppend ==
  ASSUME NEW rooted, NEW s \in Seq(Strings), NEW x \in Strings
  PROVE  FilepathClean(rooted, Append(s, x)) = Resolve(rooted, FilepathClean(rooted, s), x)
<1> DEFINE l == Len(s)
           u == Append(s, x)
<1>1. l \in Nat /\ Len(u) = l + 1 /\ u \in Seq(Strings)
  BY Appended
<1>2. PICK d : IsRun(rooted, s, d) /\ FilepathClean(rooted, s) = d[l]
  BY CleanIsRun
<1>3. PICK e : IsRun(rooted, u, e) /\ e[l + 1] = Resolve(rooted, d[l], x)
  BY <1>2, RunAppended
<1>4. PICK f : IsRun(rooted, u, f) /\ FilepathClean(rooted, u) = f[Len(u)]
  BY <1>1, CleanIsRun
<1>5. e[l + 1] = f[l + 1]
  <2> HIDE DEF u, l
  <2>1. l + 1 \in Nat
    BY <1>1
  <2> QED BY <2>1, <1>1, <1>3, <1>4, RunUnique, Zenon
<1> QED BY <1>1, <1>2, <1>3, <1>4, <1>5
-------------------------------------------------------------------------------
(* Parts that name something.  Only they are left of a rooted path.        *)
Names == Strings \ {"", ".", ".."}

LEMMA SeqOfNames == ASSUME NEW s \in Seq(Names) PROVE s \in Seq(Strings)
<1>1. Names \subseteq Strings
  BY DEF Names
<1> QED BY <1>1, SeqMonotonic, Zenon

LEMMA FrontLast ==
  ASSUME NEW s \in Seq(Strings), NEW x \in Strings
  PROVE  Front(Append(s, x)) = s /\ Last(Append(s, x)) = x
<1> DEFINE l == Len(s)
           u == Append(s, x)
<1>1. l \in Nat /\ u \in Seq(Strings) /\ Len(u) = l + 1 /\ u[l + 1] = x
      /\ \A i \in 1 .. l : u[i] = s[i]
  BY Appended
<1> HIDE DEF l, u
<1>2. Len(u) - 1 = l
  BY <1>1
<1>3. SubSeq(u, 1, l) = s
  <2>1. \A i \in 1 .. l : u[i] \in Strings
    BY <1>1, ElementOfSeq DEF l
  <2>2. /\ SubSeq(u, 1, l) \in Seq(Strings)
        /\ Len(SubSeq(u, 1, l)) = IF 1 <= l THEN l - 1 + 1 ELSE 0
        /\ \A i \in 1 .. l - 1 + 1 : SubSeq(u, 1, l)[i] = u[1 + i - 1]
    <3>1. 1 \in Int /\ l \in Int
      BY <1>1
    <3> QED BY <2>1, <3>1, SubSeqProperties
  <2> DEFINE v == SubSeq(u, 1, l)
  <2> HIDE DEF v
  <2>3. v \in Seq(Strings) /\ Len(v) = l /\ \A i \in 1 .. l : v[i] = s[i]
    BY <2>2, <1>1 DEF v
  <2>4. v = s
    BY <2>3, SeqEqual DEF l
  <2> QED BY <2>4 DEF v
<1>4. Front(u) = s
  BY <1>2, <1>3 DEF Front
<1>5. Last(u) = x
  BY <1>1 DEF Last
<1> QED BY <1>4, <1>5 DEF u

(* What one part does to names.                                            *)
LEMMA ResolveName ==
  ASSUME NEW rooted, NEW c, NEW x \in Names
  PROVE  Resolve(rooted, c, x) = Append(c, x)
BY DEF Resolve, Names

LEMMA ResolveDot ==
  ASSUME NEW rooted, NEW c, NEW x \in {"", "."}
  PROVE  Resolve(rooted, c, x) = c
BY DEF Resolve

LEMMA ResolveUp ==
  ASSUME NEW rooted, NEW u \in Seq(Strings), NEW y \in Strings \ {".."}
  PROVE  Resolve(rooted, Append(u, y), "..") = u
<1>1. Append(u, y) # <<>>
  BY Appended
<1>2. CanGoUp(Append(u, y))
  BY <1>1, FrontLast DEF CanGoUp
<1> QED BY <1>2, FrontLast DEF Resolve

LEMMA ResolveTop ==
  /\ Resolve(TRUE, <<>>, "..") = <<>>
  /\ Resolve(FALSE, <<>>, "..") = Append(<<>>, "..")
BY DEF Resolve, CanGoUp

LEMMA LastName ==
  ASSUME NEW c \in Seq(Names), c # <<>>
  PROVE  \E u \in Seq(Names), y \in Names : c = Append(u, y)
BY SequenceEmptyOrAppend

LEMMA CleanRooted ==
  ASSUME NEW s \in Seq(Strings)
  PROVE  FilepathClean(TRUE, s) \in Seq(Names)
<1> DEFINE T == {t \in Seq(Strings) : FilepathClean(TRUE, t) \in Seq(Names)}
<1>1. <<>> \in T
  BY CleanEmpty, EmptySeq
<1>2. ASSUME NEW t \in Seq(Strings), NEW x \in Strings, t \in T PROVE Append(t, x) \in T
  <2> DEFINE c == FilepathClean(TRUE, t)
  <2>1. c \in Seq(Names)
    BY <1>2
  <2> HIDE DEF c
  <2>2. Resolve(TRUE, c, x) \in Seq(Names)
    <3>1. CASE x \in Names
      <4>1. Append(c, x) \in Seq(Names)
        BY <3>1, <2>1, AppendProperties, Zenon
      <4> QED BY <4>1, <3>1, ResolveName, Zenon
    <3>2. CASE x \in {"", "."}
      BY <3>2, <2>1, ResolveDot
    <3>3. CASE x = ".." /\ c = <<>>
      BY <3>3, <2>1, ResolveTop
    <3>4. CASE x = ".." /\ c # <<>>
      <4>1. PICK u \in Seq(Names), y \in Names : c = Append(u, y)
        BY <3>4, <2>1, LastName
      <4>2. u \in Seq(Strings) /\ y \in Strings \ {".."}
        BY SeqOfNames DEF Names
      <4> QED BY <4>1, <4>2, <3>4, ResolveUp
    <3> QED BY <3>1, <3>2, <3>3, <3>4 DEF Names
  <2> QED BY <2>2, CleanAppend, Appended DEF c
<1>3. Seq(Strings) \subseteq T
  <2> HIDE DEF T
  <2> QED BY <1>1, <1>2, SeqInduct
<1> QED BY <1>3
-------------------------------------------------------------------------------
(* Counting the parts of a kind, one part at a time.                       *)
Hits(s, B) == {i \in DOMAIN s : s[i] \in B}

LEMMA HitsLonger ==
  ASSUME NEW s, NEW u, NEW l \in Nat, NEW B, DOMAIN s = 1 .. l, DOMAIN u = 1 .. l + 1,
         \A i \in 1 .. l : u[i] = s[i]
  PROVE  Hits(u, B) = IF u[l + 1] \in B THEN Hits(s, B) \cup {l + 1} ELSE Hits(s, B)
<1>1. Hits(s, B) = {i \in 1 .. l : s[i] \in B}
  BY DEF Hits
<1>2. Hits(u, B) = {i \in 1 .. l + 1 : u[i] \in B}
  BY DEF Hits
<1> QED BY <1>1, <1>2

LEMMA HitsAppend ==
  ASSUME NEW s \in Seq(Strings), NEW x \in Strings, NEW B
  PROVE  /\ Cardinality(Hits(s, B)) \in Nat
         /\ Cardinality(Hits(Append(s, x), B))
              = Cardinality(Hits(s, B)) + IF x \in B THEN 1 ELSE 0
<1> DEFINE l == Len(s)
           u == Append(s, x)
<1>1. /\ l \in Nat /\ DOMAIN s = 1 .. l /\ DOMAIN u = 1 .. l + 1
      /\ u[l + 1] = x /\ \A i \in 1 .. l : u[i] = s[i]
  <2>1. DOMAIN u = 1 .. Len(u)
    BY Appended, LenProperties
  <2> QED BY <2>1, Appended, LenProperties
<1> HIDE DEF l, u
<1>2. IsFiniteSet(1 .. l)
  BY <1>1, FS_Interval
<1>3. IsFiniteSet(Hits(s, B))
  BY <1>1, <1>2, FS_Subset DEF Hits
<1>4. l + 1 \notin Hits(s, B)
  BY <1>1 DEF Hits
<1>5. Cardinality(Hits(s, B)) \in Nat
  BY <1>3, FS_CardinalityType
<1>6. CASE x \in B
  <2>1. Hits(u, B) = Hits(s, B) \cup {l + 1}
    BY <1>1, <1>6, HitsLonger, Zenon
  <2>2. Cardinality(Hits(s, B) \cup {l + 1}) = Cardinality(Hits(s, B)) + 1
    BY <1>3, <1>4, FS_AddElement
  <2> QED BY <1>5, <1>6, <2>1, <2>2, Zenon DEF u
<1>7. CASE x \notin B
  <2>1. Hits(u, B) = Hits(s, B)
    BY <1>1, <1>7, HitsLonger, Zenon
  <2>2. Cardinality(Hits(s, B)) + 0 = Cardinality(Hits(s, B))
    BY <1>5
  <2> QED BY <1>5, <1>7, <2>1, <2>2, Zenon DEF u
<1> QED BY <1>6, <1>7

LEMMA UpsDowns ==
  ASSUME NEW s \in Seq(Strings)
  PROVE  Ups(s) = Cardinality(Hits(s, {".."})) /\ Downs(s) = Cardinality(Hits(s, Names))
<1>1. \A i \in DOMAIN s : s[i] \in Strings
  BY LenProperties
<1>2. {i \in DOMAIN s : s[i] = ".."} = Hits(s, {".."})
  BY DEF Hits
<1>3. {i \in DOMAIN s : s[i] \notin {"", ".", ".."}} = Hits(s, Names)
  BY <1>1 DEF Hits, Names
<1> QED BY <1>2, <1>3 DEF Ups, Downs

LEMMA UpsDownsAppend ==
  ASSUME NEW s \in Seq(Strings), NEW x \in Strings
  PROVE  /\ Ups(s) \in Nat /\ Downs(s) \in Nat
         /\ Ups(Append(s, x)) = Ups(s) + IF x = ".." THEN 1 ELSE 0
         /\ Downs(Append(s, x)) = Downs(s) + IF x \in Names THEN 1 ELSE 0
<1>1. Append(s, x) \in Seq(Strings)
  BY Appended
<1>2. /\ Cardinality(Hits(s, {".."})) \in Nat
      /\ Cardinality(Hits(Append(s, x), {".."}))
           = Cardinality(Hits(s, {".."})) + IF x \in {".."} THEN 1 ELSE 0
  BY HitsAppend
<1>3. /\ Cardinality(Hits(s, Names)) \in Nat
      /\ Cardinality(Hits(Append(s, x), Names))
           = Cardinality(Hits(s, Names)) + IF x \in Names THEN 1 ELSE 0
  BY HitsAppend
<1> QED BY <1>1, <1>2, <1>3, UpsDowns

LEMMA UpsDownsEmpty == Ups(<<>>) = 0 /\ Downs(<<>>) = 0
<1>1. DOMAIN <<>> = {}
  BY EmptySeq, LenProperties
<1> QED BY <1>1, FS_EmptySet DEF Ups, Downs

LEMMA OnePart ==
  ASSUME NEW x PROVE <<x>> # <<>> /\ \A i \in DOMAIN <<x>> : <<x>>[i] = x
OBVIOUS

LEMMA OneSeq == ASSUME NEW A, NEW x \in A PROVE <<x>> \in Seq(A)
OBVIOUS

LEMMA PrefixOfAppend ==
  ASSUME NEW s \in Seq(Strings), NEW x \in Strings, NEW n \in 1 .. Len(s)
  PROVE  SubSeq(Append(s, x), 1, n) = SubSeq(s, 1, n)
<1>1. Append(s, x) = s \o <<x>> /\ <<x>> \in Seq(Strings)
  <2>1. Append(s, x) = s \o <<x>>
    BY AppendIsConcat, Zenon
  <2>2. <<x>> \in Seq(Strings)
    BY OneSeq, Zenon
  <2> QED BY <2>1, <2>2
<1>2. Len(s) \in Nat
  BY LenProperties
<1>3. 1 \in 1 .. Len(s)
  BY <1>2
<1> QED BY <1>1, <1>3, SubSeqOfConcat1

LEMMA ClimbsAppend ==
  ASSUME NEW s \in Seq(Strings), NEW x \in Strings
  PROVE  ClimbsOut(Append(s, x)) <=> ClimbsOut(s) \/ Ups(Append(s, x)) > Downs(Append(s, x))
<1> DEFINE l == Len(s)
           u == Append(s, x)
<1>1. l \in Nat /\ DOMAIN s = 1 .. l /\ Len(u) = l + 1 /\ DOMAIN u = 1 .. l + 1
  <2>1. DOMAIN u = 1 .. Len(u)
    BY Appended, LenProperties
  <2> QED BY <2>1, Appended, LenProperties
<1>2. SubSeq(u, 1, l + 1) = u
  BY <1>1, Appended, SubSeqFull
<1>3. \A n \in 1 .. l : SubSeq(u, 1, n) = SubSeq(s, 1, n)
  BY PrefixOfAppend
<1> HIDE DEF l, u
<1>4. DOMAIN u = DOMAIN s \cup {l + 1}
  BY <1>1
<1>5. ClimbsOut(u) <=> \/ \E n \in DOMAIN s : Ups(SubSeq(u, 1, n)) > Downs(SubSeq(u, 1, n))
                       \/ Ups(SubSeq(u, 1, l + 1)) > Downs(SubSeq(u, 1, l + 1))
  BY <1>4, Zenon DEF ClimbsOut
<1>6. (\E n \in DOMAIN s : Ups(SubSeq(u, 1, n)) > Downs(SubSeq(u, 1, n))) <=> ClimbsOut(s)
  BY <1>1, <1>3, Zenon DEF ClimbsOut
<1>7. ClimbsOut(u) <=> ClimbsOut(s) \/ Ups(u) > Downs(u)
  BY <1>2, <1>5, <1>6, Zenon
<1> QED BY <1>7 DEF u
-------------------------------------------------------------------------------
(* A path that never climbs out comes to the same names wherever it        *)
(* begins, one for each part down that no part up has taken back.          *)
LEMMA Associates ==
  ASSUME NEW s \in Seq(Strings), NEW t \in Seq(Strings), NEW u \in Seq(Strings)
  PROVE  (s \o t) \o u = s \o (t \o u)
BY ConcatAssociative

LEMMA AppendAfter ==
  ASSUME NEW s \in Seq(Strings), NEW t \in Seq(Strings), NEW x \in Strings
  PROVE  s \o Append(t, x) = Append(s \o t, x)
<1>1. <<x>> \in Seq(Strings) /\ s \o t \in Seq(Strings)
  BY OneSeq, ConcatProperties, Zenon
<1>2. Append(t, x) = t \o <<x>> /\ Append(s \o t, x) = (s \o t) \o <<x>>
  BY <1>1, AppendIsConcat, Zenon
<1>3. s \o (t \o <<x>>) = (s \o t) \o <<x>>
  BY <1>1, ConcatAssociative
<1> QED BY <1>2, <1>3, Zenon

Inside(s) ==
  LET c == FilepathClean(FALSE, s) IN
  /\ c \in Seq(Names) /\ Len(c) = Downs(s) - Ups(s)
  /\ FilepathClean(TRUE, s) = c
  /\ \A base \in Seq(Strings) : FilepathClean(TRUE, base \o s) = FilepathClean(TRUE, base) \o c

LEMMA InsideAppend ==
  ASSUME NEW s \in Seq(Strings), NEW x \in Strings, Inside(s),
         Ups(Append(s, x)) <= Downs(Append(s, x))
  PROVE  Inside(Append(s, x))
<1> DEFINE c == FilepathClean(FALSE, s)
           d == FilepathClean(FALSE, Append(s, x))
<1>1. c \in Seq(Names) /\ c \in Seq(Strings) /\ Len(c) = Downs(s) - Ups(s) /\ FilepathClean(TRUE, s) = c
  BY SeqOfNames DEF Inside
<1>2. \A base \in Seq(Strings) : FilepathClean(TRUE, base \o s) = FilepathClean(TRUE, base) \o c
  BY DEF Inside
<1>3. d = Resolve(FALSE, c, x) /\ FilepathClean(TRUE, Append(s, x)) = Resolve(TRUE, c, x)
  <2>1. d = Resolve(FALSE, c, x)
    BY CleanAppend, Zenon
  <2>2. FilepathClean(TRUE, Append(s, x)) = Resolve(TRUE, FilepathClean(TRUE, s), x)
    BY CleanAppend, Zenon
  <2>3. FilepathClean(TRUE, s) = c
    BY <1>1
  <2> QED BY <2>1, <2>2, <2>3, Zenon
<1>4. ASSUME NEW base \in Seq(Strings)
      PROVE  /\ FilepathClean(TRUE, base) \in Seq(Names)
             /\ FilepathClean(TRUE, base) \in Seq(Strings)
             /\ FilepathClean(TRUE, base \o Append(s, x))
                  = Resolve(TRUE, FilepathClean(TRUE, base) \o c, x)
  <2>1. base \o s \in Seq(Strings)
    BY ConcatProperties, Zenon
  <2>2. base \o Append(s, x) = Append(base \o s, x)
    BY AppendAfter, Zenon
  <2>3. FilepathClean(TRUE, base) \in Seq(Names)
    BY CleanRooted
  <2>4. FilepathClean(TRUE, Append(base \o s, x)) = Resolve(TRUE, FilepathClean(TRUE, base \o s), x)
    BY <2>1, CleanAppend, Zenon
  <2>5. FilepathClean(TRUE, base \o s) = FilepathClean(TRUE, base) \o c
    BY <1>2, Zenon
  <2> QED BY <2>2, <2>3, <2>4, <2>5, SeqOfNames, Zenon
<1>5. /\ Ups(s) \in Nat /\ Downs(s) \in Nat
      /\ Ups(Append(s, x)) = Ups(s) + IF x = ".." THEN 1 ELSE 0
      /\ Downs(Append(s, x)) = Downs(s) + IF x \in Names THEN 1 ELSE 0
  BY UpsDownsAppend
<1> HIDE DEF c
<1>6. CASE x \in {"", "."}
  <2>1. d = c /\ FilepathClean(TRUE, Append(s, x)) = c
    BY <1>3, <1>6, ResolveDot
  <2>2. Ups(Append(s, x)) = Ups(s) /\ Downs(Append(s, x)) = Downs(s)
    <3>1. x # ".." /\ x \notin Names
      BY <1>6 DEF Names
    <3> QED BY <3>1, <1>5
  <2>3. \A base \in Seq(Strings) :
          FilepathClean(TRUE, base \o Append(s, x)) = FilepathClean(TRUE, base) \o c
    BY <1>4, <1>6, ResolveDot
  <2> HIDE DEF d
  <2> QED BY <1>1, <2>1, <2>2, <2>3 DEF Inside, d
<1>7. CASE x \in Names
  <2>1. d = Append(c, x) /\ FilepathClean(TRUE, Append(s, x)) = Append(c, x)
    BY <1>3, <1>7, ResolveName
  <2>2. Ups(Append(s, x)) = Ups(s) /\ Downs(Append(s, x)) = Downs(s) + 1
    <3>1. x # ".."
      BY <1>7 DEF Names
    <3> QED BY <3>1, <1>5, <1>7
  <2>3. ASSUME NEW base \in Seq(Strings)
        PROVE  FilepathClean(TRUE, base \o Append(s, x)) = FilepathClean(TRUE, base) \o d
    <3>1. FilepathClean(TRUE, base \o Append(s, x)) = Append(FilepathClean(TRUE, base) \o c, x)
      BY <1>4, <1>7, ResolveName
    <3> DEFINE b == FilepathClean(TRUE, base)
    <3>2. b \o Append(c, x) = Append(b \o c, x)
      <4>1. b \in Seq(Strings)
        BY <1>4
      <4> HIDE DEF b
      <4> QED BY <4>1, <1>1, AppendAfter, Zenon
    <3> QED BY <2>1, <3>1, <3>2, Zenon
  <2>4. Append(c, x) \in Seq(Names) /\ Len(Append(c, x)) = Len(c) + 1
    BY <1>1, <1>7, AppendProperties, Zenon
  <2>5. Len(Append(c, x)) = Downs(Append(s, x)) - Ups(Append(s, x))
    BY <1>1, <1>5, <2>2, <2>4
  <2> HIDE DEF d
  <2> QED BY <2>1, <2>3, <2>4, <2>5 DEF Inside, d
<1>8. CASE x = ".."
  <2>1. Ups(Append(s, x)) = Ups(s) + 1 /\ Downs(Append(s, x)) = Downs(s)
    BY <1>5, <1>8 DEF Names
  <2>2. c # <<>>
    <3>1. Len(c) # 0
      BY <1>1, <1>5, <2>1
    <3> QED BY <3>1, EmptySeq
  <2>3. PICK u \in Seq(Names), y \in Names : c = Append(u, y)
    BY <1>1, <2>2, LastName
  <2>4. u \in Seq(Strings) /\ y \in Strings \ {".."}
    BY SeqOfNames DEF Names
  <2>5. d = u /\ FilepathClean(TRUE, Append(s, x)) = u
    <3>1. \A rooted : Resolve(rooted, Append(u, y), "..") = u
      BY <2>4, ResolveUp, Zenon
    <3> QED BY <1>3, <1>8, <2>3, <3>1, Zenon
  <2>6. ASSUME NEW base \in Seq(Strings)
        PROVE  FilepathClean(TRUE, base \o Append(s, x)) = FilepathClean(TRUE, base) \o u
    <3> DEFINE b == FilepathClean(TRUE, base)
    <3>1. b \in Seq(Strings)
      BY <1>4
    <3> HIDE DEF b
    <3>2. b \o c = Append(b \o u, y) /\ b \o u \in Seq(Strings)
      BY <3>1, <2>3, <2>4, AppendAfter, ConcatProperties
    <3>3. Resolve(TRUE, b \o c, x) = b \o u
      <4>1. Resolve(TRUE, Append(b \o u, y), "..") = b \o u
        BY <3>2, <2>4, ResolveUp, Zenon
      <4> QED BY <4>1, <3>2, <1>8, Zenon
    <3> QED BY <3>3, <1>4 DEF b
  <2>7. Len(u) = Downs(Append(s, x)) - Ups(Append(s, x))
    <3>1. Len(c) = Len(u) + 1 /\ Len(u) \in Nat
      BY <2>3, <2>4, Appended
    <3> QED BY <3>1, <1>1, <1>5, <2>1
  <2> HIDE DEF d
  <2> QED BY <2>5, <2>6, <2>7 DEF Inside, d
<1> QED BY <1>6, <1>7, <1>8 DEF Names

LEMMA StaysInside ==
  ASSUME NEW s \in Seq(Strings), ~ClimbsOut(s)
  PROVE  Inside(s)
<1> DEFINE T == {t \in Seq(Strings) : ~ClimbsOut(t) => Inside(t)}
<1>1. <<>> \in T
  <2>1. <<>> \in Seq(Names) /\ <<>> \in Seq(Strings) /\ Len(<<>>) = 0
    BY EmptySeq
  <2>2. \A base \in Seq(Strings) :
          /\ FilepathClean(TRUE, base \o <<>>) = FilepathClean(TRUE, base) \o <<>>
    <3> TAKE base \in Seq(Strings)
    <3>1. FilepathClean(TRUE, base) \in Seq(Names)
      BY CleanRooted
    <3> QED BY <3>1, ConcatEmptySeq
  <2>3. Inside(<<>>)
    <3>1. Len(<<>>) = Downs(<<>>) - Ups(<<>>)
      BY <2>1, UpsDownsEmpty
    <3> QED BY <3>1, <2>1, <2>2, CleanEmpty, Zenon DEF Inside
  <2> QED BY <2>1, <2>3
<1>2. ASSUME NEW t \in Seq(Strings), NEW x \in Strings, t \in T PROVE Append(t, x) \in T
  <2> SUFFICES ASSUME ~ClimbsOut(Append(t, x)) PROVE Inside(Append(t, x))
    BY Appended
  <2>1. ~ClimbsOut(t) /\ ~(Ups(Append(t, x)) > Downs(Append(t, x)))
    BY ClimbsAppend
  <2>2. Ups(Append(t, x)) <= Downs(Append(t, x))
    BY <2>1, UpsDownsAppend
  <2> QED BY <1>2, <2>1, <2>2, InsideAppend
<1>3. Seq(Strings) \subseteq T
  <2> HIDE DEF T
  <2> QED BY <1>1, <1>2, SeqInduct
<1> QED BY <1>3

(* One that climbs out keeps the ".." with which it did.                   *)
Led(c) == c \in Seq(Strings) /\ c # <<>> /\ c[1] = ".."

LEMMA AppendLed ==
  ASSUME NEW c \in Seq(Strings), NEW x \in Strings, Led(c) PROVE Led(Append(c, x))
<1>1. 1 \in 1 .. Len(c)
  BY EmptySeq DEF Led
<1> QED BY <1>1, Appended DEF Led

LEMMA ResolveLed ==
  ASSUME NEW c, NEW x \in Strings, Led(c)
  PROVE  Led(Resolve(FALSE, c, x))
<1>1. c \in Seq(Strings) /\ c # <<>> /\ c[1] = ".."
  BY DEF Led
<1>2. CASE x = ".." /\ CanGoUp(c)
  <2>1. PICK u \in Seq(Strings), y \in Strings : c = Append(u, y)
    BY <1>1, SequenceEmptyOrAppend
  <2>2. y # ".." /\ Front(c) = u
    BY <2>1, <1>2, FrontLast DEF CanGoUp
  <2>3. u # <<>>
    <3> SUFFICES ASSUME u = <<>> PROVE FALSE
      OBVIOUS
    <3>1. Len(u) = 0
      BY EmptySeq
    <3>2. Append(u, y)[Len(u) + 1] = y
      BY Appended
    <3>3. c[1] = y
      BY <3>1, <3>2, <2>1
    <3> QED BY <3>3, <1>1, <2>2
  <2>4. Len(u) \in Nat \ {0}
    BY <2>3, EmptySeq
  <2>5. Append(u, y)[1] = u[1]
    <3>1. 1 \in 1 .. Len(u)
      BY <2>4
    <3>2. \A i \in 1 .. Len(u) : Append(u, y)[i] = u[i]
      BY Appended, Zenon
    <3> QED BY <3>1, <3>2, Zenon
  <2>6. Led(u)
    BY <2>1, <2>3, <2>5, <1>1 DEF Led
  <2>7. Resolve(FALSE, c, x) = u
    BY <1>2, <2>2 DEF Resolve
  <2> QED BY <2>6, <2>7
<1>3. CASE x \in {"", "."}
  BY <1>3, ResolveDot
<1>4. CASE x \notin {"", "."} /\ ~(x = ".." /\ CanGoUp(c))
  <2>1. Resolve(FALSE, c, x) = Append(c, x)
    BY <1>4 DEF Resolve
  <2> QED BY <2>1, <1>1, AppendLed
<1> QED BY <1>2, <1>3, <1>4

LEMMA GoesOutside ==
  ASSUME NEW s \in Seq(Strings), ClimbsOut(s)
  PROVE  Led(FilepathClean(FALSE, s))
<1> DEFINE T == {t \in Seq(Strings) : ClimbsOut(t) => Led(FilepathClean(FALSE, t))}
<1>1. <<>> \in T
  <2>1. <<>> \in Seq(Strings) /\ DOMAIN <<>> = {}
    BY EmptySeq, LenProperties
  <2> QED BY <2>1 DEF ClimbsOut
<1>2. ASSUME NEW t \in Seq(Strings), NEW x \in Strings, t \in T PROVE Append(t, x) \in T
  <2> SUFFICES ASSUME ClimbsOut(Append(t, x)) PROVE Led(FilepathClean(FALSE, Append(t, x)))
    BY Appended
  <2> DEFINE c == FilepathClean(FALSE, t)
  <2>1. FilepathClean(FALSE, Append(t, x)) = Resolve(FALSE, c, x)
    BY CleanAppend
  <2>2. CASE ClimbsOut(t)
    <3>1. Led(c)
      BY <1>2, <2>2
    <3> HIDE DEF c
    <3> QED BY <3>1, <2>1, ResolveLed
  <2>3. CASE ~ClimbsOut(t)
    <3>1. Ups(Append(t, x)) > Downs(Append(t, x))
      BY <2>3, ClimbsAppend
    <3>2. c \in Seq(Names) /\ Len(c) = Downs(t) - Ups(t)
      BY <2>3, StaysInside DEF Inside
    <3>3. Len(c) \in Nat
      BY <3>2, LenProperties
    <3> HIDE DEF c
    <3>4. x = ".." /\ Len(c) = 0
      BY <3>1, <3>2, <3>3, UpsDownsAppend
    <3>5. c = <<>>
      BY <3>2, <3>4, EmptySeq
    <3>6. FilepathClean(FALSE, Append(t, x)) = Append(<<>>, "..")
      BY <2>1, <3>4, <3>5, ResolveTop
    <3>7. Led(Append(<<>>, ".."))
      <4>1. <<>> \in Seq(Strings) /\ Len(<<>>) + 1 = 1
        BY EmptySeq
      <4>2. ".." \in Strings
        BY DEF Strings
      <4>3. Append(<<>>, "..")[Len(<<>>) + 1] = ".." /\ Append(<<>>, "..") \in Seq(Strings) \ {<<>>}
        BY <4>1, <4>2, Appended, Zenon
      <4>4. Append(<<>>, "..")[1] = ".."
        BY <4>1, <4>3, Zenon
      <4> QED BY <4>3, <4>4, Zenon DEF Led
    <3> QED BY <3>6, <3>7
  <2> QED BY <2>2, <2>3
<1>3. Seq(Strings) \subseteq T
  <2> HIDE DEF T
  <2> QED BY <1>1, <1>2, SeqInduct
<1> QED BY <1>3

(* Names are left as they are.                                             *)
LEMMA CleanNames ==
  ASSUME NEW rooted \in BOOLEAN, NEW s \in Seq(Names)
  PROVE  FilepathClean(rooted, s) = s
<1> DEFINE T == {t \in Seq(Names) : FilepathClean(rooted, t) = t}
<1>1. <<>> \in T
  BY EmptySeq, CleanEmpty
<1>2. ASSUME NEW t \in Seq(Names), NEW x \in Names, t \in T PROVE Append(t, x) \in T
  <2>1. t \in Seq(Strings) /\ x \in Strings
    BY SeqOfNames DEF Names
  <2>2. FilepathClean(rooted, Append(t, x)) = Resolve(rooted, t, x)
    BY <1>2, <2>1, CleanAppend
  <2>3. Append(t, x) \in Seq(Names)
    BY AppendProperties, Zenon
  <2> QED BY <2>2, <2>3, ResolveName
<1>3. Seq(Names) \subseteq T
  <2> HIDE DEF T
  <2> QED BY <1>1, <1>2, SeqInduct
<1> QED BY <1>3

LEMMA UpIsPrefix ==
  ASSUME NEW c \in Seq(Strings)
  PROVE  IsPrefix(<<"..">>, c) <=> Led(c)
<1> DEFINE u == <<"..">>
           v == SubSeq(c, 1, 1)
<1>1. u \in Seq(Strings) /\ Len(u) = 1 /\ u[1] = ".." /\ SubSeq(u, 1, 1) = u
  <2>1. u \in Seq(Strings)
    <3>1. ".." \in Strings
      BY DEF Strings
    <3> QED BY <3>1, OneSeq, Zenon
  <2>2. Len(u) = 1 /\ u[1] = ".."
    OBVIOUS
  <2> QED BY <2>1, <2>2, SubSeqFull
<1>2. IsPrefix(u, c) <=> 1 <= Len(c) /\ v = u
  BY <1>1 DEF IsPrefix
<1>3. c # <<>> <=> 1 <= Len(c)
  BY EmptySeq
<1>4. ASSUME 1 <= Len(c) PROVE v = u <=> c[1] = ".."
  <2>1. \A i \in 1 .. 1 : c[i] \in Strings
    BY <1>4, LenProperties
  <2>2. v \in Seq(Strings) /\ Len(v) = 1 /\ v[1] = c[1]
    BY <2>1, SubSeqProperties
  <2> HIDE DEF u, v
  <2>3. ASSUME c[1] = ".." PROVE v = u
    <3>1. \A i \in 1 .. Len(v) : v[i] = u[i]
      BY <2>2, <2>3, <1>1
    <3> QED BY <3>1, <2>2, <1>1, SeqEqual
  <2> QED BY <2>2, <2>3, <1>1
<1> QED BY <1>2, <1>3, <1>4 DEF Led

LEMMA PrefixOfConcat ==
  ASSUME NEW s \in Seq(Strings), NEW t \in Seq(Strings)
  PROVE  IsPrefix(s, s \o t)
<1>1. /\ Len(s) \in Nat /\ Len(t) \in Nat
      /\ Len(s \o t) = Len(s) + Len(t) /\ s \o t \in Seq(Strings)
  BY LenProperties, ConcatProperties
<1>2. SubSeq(s \o t, 1, Len(s)) = SubSeq(s, 1, Len(s))
  <2>1. CASE Len(s) = 0
    BY <2>1, SubSeqEmpty
  <2>2. CASE Len(s) # 0
    <3>1. 1 \in 1 .. Len(s) /\ Len(s) \in 1 .. Len(s)
      BY <2>2, <1>1
    <3> QED BY <3>1, SubSeqOfConcat1
  <2> QED BY <2>1, <2>2
<1> QED BY <1>1, <1>2 DEF IsPrefix
-------------------------------------------------------------------------------
(* The directories the paths are joined to.                                *)
LEMMA NoUps ==
  ASSUME NEW s \in Seq(Strings), \A i \in DOMAIN s : s[i] # ".."
  PROVE  ~ClimbsOut(s)
<1> SUFFICES ASSUME NEW n \in DOMAIN s PROVE ~(Ups(SubSeq(s, 1, n)) > Downs(SubSeq(s, 1, n)))
  BY DEF ClimbsOut
<1> DEFINE u == SubSeq(s, 1, n)
<1>1. DOMAIN s = 1 .. Len(s) /\ Len(s) \in Nat /\ \A i \in 1 .. Len(s) : s[i] \in Strings
  BY LenProperties
<1>2. \A i \in 1 .. n : s[i] \in Strings
  BY <1>1
<1>3. /\ u \in Seq(Strings) /\ Len(u) = n
      /\ \A i \in 1 .. n : u[i] = s[i]
  BY <1>1, <1>2, SubSeqProperties
<1>4. DOMAIN u = 1 .. n
  BY <1>3, LenProperties
<1> HIDE DEF u
<1>5. {i \in DOMAIN u : u[i] = ".."} = {}
  BY <1>1, <1>3, <1>4
<1>6. Ups(u) = 0
  BY <1>5, FS_EmptySet DEF Ups
<1>7. Downs(u) \in Nat
  <2>1. "." \in Strings
    BY DEF Strings
  <2> QED BY <2>1, <1>3, UpsDownsAppend
<1> QED BY <1>6, <1>7 DEF u

LEMMA CleanBelow ==
  ASSUME NEW base \in Seq(Strings), NEW c \in Seq(Names)
  PROVE  FilepathClean(TRUE, base \o c) = FilepathClean(TRUE, base) \o c
<1>1. c \in Seq(Strings)
  BY SeqOfNames
<1>2. \A i \in DOMAIN c : c[i] # ".."
  <2>1. \A i \in DOMAIN c : c[i] \in Names
    BY LenProperties
  <2>2. \A x \in Names : x # ".."
    BY DEF Names
  <2> QED BY <2>1, <2>2
<1>3. Inside(c)
  BY <1>1, <1>2, NoUps, StaysInside
<1>4. FilepathClean(FALSE, c) = c
  BY CleanNames
<1> QED BY <1>3, <1>4 DEF Inside

LEMMA TrimCases ==
  ASSUME NEW s \in Seq(Strings)
  PROVE  \/ trimSlashes(s) = <<"">> /\ \A k \in DOMAIN s : s[k] = ""
         \/ \E i \in DOMAIN s, j \in DOMAIN s :
              /\ trimSlashes(s) = SubSeq(s, i, j)
              /\ i <= j /\ s[i] # "" /\ s[j] # ""
              /\ \A k \in DOMAIN s : s[k] # "" => i <= k /\ k <= j
<1> DEFINE named == {i \in DOMAIN s : s[i] # ""}
<1>1. DOMAIN s = 1 .. Len(s) /\ Len(s) \in Nat
  BY LenProperties
<1>2. CASE named = {}
  BY <1>2 DEF trimSlashes
<1>3. CASE named # {}
  <2> DEFINE i == CHOOSE x \in named : \A y \in named : x <= y
             j == CHOOSE x \in named : \A y \in named : y <= x
  <2>1. trimSlashes(s) = SubSeq(s, i, j)
    BY <1>3 DEF trimSlashes
  <2>2. named \subseteq Nat /\ named \subseteq 1 .. Len(s)
    <3>1. named \subseteq DOMAIN s
      OBVIOUS
    <3> HIDE DEF named
    <3> QED BY <3>1, <1>1
  <2>3. (\E x \in named : \A y \in named : x <= y) /\ (\E x \in named : \A y \in named : y <= x)
    <3> HIDE DEF named
    <3>1. \E x \in named : \A y \in named : x <= y
      BY <1>3, <2>2, Least, Zenon
    <3>2. \E x \in named : \A y \in named : y <= x
      BY <1>1, <1>3, <2>2, Greatest, Zenon
    <3> QED BY <3>1, <3>2
  <2>4. i \in named /\ j \in named /\ \A y \in named : i <= y /\ y <= j
    <3> HIDE DEF named
    <3> QED BY <2>3
  <2> HIDE DEF i, j
  <2> QED BY <2>1, <2>4
<1> QED BY <1>2, <1>3

LEMMA TrimParts ==
  ASSUME NEW s \in Seq(Strings)
  PROVE  /\ trimSlashes(s) \in Seq(Strings) \ {<<>>}
         /\ \A i \in DOMAIN trimSlashes(s) :
              trimSlashes(s)[i] = "" \/ \E j \in DOMAIN s : trimSlashes(s)[i] = s[j]
<1> DEFINE t == trimSlashes(s)
<1>1. CASE t = <<"">>
  <2>1. "" \in Strings
    BY DEF Strings
  <2>2. t \in Seq(Strings)
    BY <1>1, <2>1, OneSeq
  <2>3. t # <<>> /\ \A i \in DOMAIN t : t[i] = ""
    BY <1>1, OnePart, Zenon
  <2> QED BY <2>2, <2>3
<1>2. ASSUME NEW i \in DOMAIN s, NEW j \in DOMAIN s, t = SubSeq(s, i, j), i <= j
      PROVE  /\ t \in Seq(Strings) \ {<<>>}
             /\ \A k \in DOMAIN t : \E m \in DOMAIN s : t[k] = s[m]
  <2>1. DOMAIN s = 1 .. Len(s) /\ Len(s) \in Nat /\ \A k \in 1 .. Len(s) : s[k] \in Strings
    BY LenProperties
  <2>2. i \in Int /\ j \in Int /\ \A k \in i .. j : s[k] \in Strings
    BY <2>1
  <2>3. /\ t \in Seq(Strings) /\ Len(t) = j - i + 1
        /\ \A k \in 1 .. j - i + 1 : t[k] = s[i + k - 1]
    BY <2>2, <1>2, SubSeqProperties
  <2> HIDE DEF t
  <2>4. DOMAIN t = 1 .. j - i + 1 /\ t # <<>>
    BY <2>1, <2>3, <1>2, LenProperties, EmptySeq
  <2>5. \A k \in 1 .. j - i + 1 : i + k - 1 \in DOMAIN s
    BY <2>1
  <2> QED BY <2>3, <2>4, <2>5
<1>3. CASE \E i \in DOMAIN s, j \in DOMAIN s : t = SubSeq(s, i, j) /\ i <= j
  BY <1>2, <1>3
<1> QED BY <1>1, <1>3, TrimCases

LEMMA StringsAre == ASSUME NEW s \in Seq(STRING) PROVE s \in Seq(Strings)
<1>1. STRING \subseteq Strings
  BY DEF Strings
<1> QED BY <1>1, SeqMonotonic, Zenon

LEMMA RootBelow ==
  ASSUME NEW dataRoot \in DataRoots, NEW root \in RootsIn(dataRoot)
  PROVE  /\ root \in Seq(Strings)
         /\ \E v \in Seq(Names) : FilepathClean(TRUE, root) = FilepathClean(TRUE, dataRoot) \o v
<1>1. PICK sub \in Subdirs : ValidSubdir(sub) /\ root = userRootPath(dataRoot, sub, User)
  BY DEF RootsIn
<1> DEFINE s == IF sub = <<"">> THEN <<User>> ELSE sub
           t == trimSlashes(s)
<1>2. s \in Seq(Strings) /\ \A i \in DOMAIN s : s[i] # ".."
  <2>1. CASE sub = <<"">>
    <3>1. User \in Strings /\ User # ".."
      BY PathsAssumption DEF Strings
    <3>2. <<User>> \in Seq(Strings)
      BY <3>1, OneSeq, Zenon
    <3> QED BY <2>1, <3>1, <3>2, OnePart, Zenon
  <2>2. CASE sub # <<"">>
    <3>1. sub \in Seq(Strings)
      BY PathsAssumption, StringsAre
    <3> QED BY <2>2, <3>1, <1>1 DEF ValidSubdir
  <2> QED BY <2>1, <2>2
<1>3. root = dataRoot \o t
  BY <1>1, Zenon DEF userRootPath, joinClean
<1> HIDE DEF s
<1>4. t \in Seq(Strings) /\ \A i \in DOMAIN t : t[i] # ".."
  BY <1>2, TrimParts
<1> HIDE DEF t
<1>5. Inside(t)
  BY <1>4, NoUps, StaysInside
<1>6. dataRoot \in Seq(Strings)
  BY PathsAssumption, StringsAre
<1>7. dataRoot \o t \in Seq(Strings)
  BY <1>4, <1>6, ConcatProperties, Zenon
<1> QED BY <1>3, <1>5, <1>6, <1>7 DEF Inside

(* What clean makes of a path.                                             *)
LEMMA CleanedInside ==
  ASSUME NEW q \in Seq(Strings), Rooted(q) \/ ~ClimbsOut(q)
  PROVE  Cleaned(q) \in Seq(Names) /\ Cleaned(q) = FilepathClean(TRUE, q)
<1>1. CASE Rooted(q)
  <2>1. Rooted(q) = TRUE
    BY <1>1 DEF Rooted
  <2> QED BY <2>1, CleanRooted DEF Cleaned
<1>2. CASE ~Rooted(q)
  <2>1. Rooted(q) = FALSE
    BY <1>2 DEF Rooted
  <2>2. Inside(q)
    BY <1>2, StaysInside
  <2> QED BY <2>1, <2>2 DEF Cleaned, Inside
<1> QED BY <1>1, <1>2

LEMMA NamesAreNotLed == ASSUME NEW c \in Seq(Names) PROVE ~Led(c)
<1> SUFFICES ASSUME Led(c) PROVE FALSE
  OBVIOUS
<1>1. 1 \in 1 .. Len(c)
  <2>1. Len(c) \in Nat \ {0}
    BY EmptySeq DEF Led
  <2> QED BY <2>1
<1>2. c[1] \in Names
  BY <1>1, ElementOfSeq
<1> QED BY <1>2 DEF Led, Names

LEMMA CleanAccepts ==
  ASSUME NEW q \in Seq(Strings), NEW root \in Roots
  PROVE  /\ Accepted(root, q) <=> /\ Rooted(q) \/ ~ClimbsOut(q)
                                  /\ FilepathClean(TRUE, root) # <<>> \/ Cleaned(q) = <<>>
         /\ Accepted(root, q) => /\ Cleaned(q) \in Seq(Names)
                                 /\ Cleaned(q) = FilepathClean(TRUE, q)
                                 /\ AbsPath(root, q) = FilepathClean(TRUE, root) \o Cleaned(q)
<1> DEFINE rootAbs == FilepathClean(TRUE, root)
<1>1. root \in Seq(Strings) /\ rootAbs \in Seq(Names)
  <2>1. PICK d \in DataRoots : root \in RootsIn(d)
    BY DEF Roots
  <2> QED BY <2>1, RootBelow, CleanRooted
<1>2. CASE Rooted(q) \/ ~ClimbsOut(q)
  <2>1. Cleaned(q) \in Seq(Names) /\ Cleaned(q) = FilepathClean(TRUE, q)
    BY <1>2, CleanedInside
  <2>2. Cleaned(q) \in Seq(Strings) /\ FilepathClean(TRUE, root) \in Seq(Strings)
    BY <1>1, <2>1, SeqOfNames
  <2>3. ~LeavesRoot(q)
    BY <2>1, <2>2, NamesAreNotLed, UpIsPrefix DEF LeavesRoot
  <2>4. AbsPath(root, q) = FilepathClean(TRUE, root) \o Cleaned(q)
    BY <1>1, <2>1, CleanBelow DEF AbsPath
  <2>5. IsPrefix(rootAbs, AbsPath(root, q))
    BY <2>2, <2>4, PrefixOfConcat
  <2>6. AbsPath(root, q) = rootAbs \/ rootAbs # <<>> <=> rootAbs # <<>> \/ Cleaned(q) = <<>>
    <3>1. rootAbs = <<>> => AbsPath(root, q) = Cleaned(q)
      BY <2>2, <2>4, ConcatEmptySeq
    <3> HIDE DEF rootAbs
    <3> QED BY <3>1
  <2>7. Accepted(root, q) <=> AbsPath(root, q) = rootAbs \/ rootAbs # <<>>
    BY <2>3, <2>5 DEF Accepted
  <2> QED BY <1>2, <2>1, <2>4, <2>6, <2>7
<1>3. CASE ~Rooted(q) /\ ClimbsOut(q)
  <2>1. Rooted(q) = FALSE
    BY <1>3 DEF Rooted
  <2>2. Led(Cleaned(q))
    BY <1>3, <2>1, GoesOutside DEF Cleaned
  <2>3. LeavesRoot(q)
    BY <2>2, UpIsPrefix DEF LeavesRoot, Led
  <2> QED BY <1>3, <2>3 DEF Accepted
<1> QED BY <1>2, <1>3
-------------------------------------------------------------------------------
PathOK == p \in Seq(Strings) \ {<<>>}

LEMMA PathsAreSequences == Spec => []PathOK
<1>1. Parts \subseteq Strings
  BY PathsAssumption DEF Strings
<1>2. Init => PathOK
  <2> SUFFICES ASSUME NEW x \in Parts, p = <<x>> PROVE PathOK
    BY DEF Init
  <2>1. <<x>> \in Seq(Strings)
    BY <1>1, OneSeq
  <2>2. <<x>> # <<>>
    OBVIOUS
  <2> QED BY <2>1, <2>2 DEF PathOK
<1>3. PathOK /\ [Longer]_p => PathOK'
  <2> SUFFICES ASSUME PathOK, [Longer]_p PROVE PathOK'
    OBVIOUS
  <2>1. CASE Longer
    BY <1>1, <2>1, Appended DEF Longer, PathOK
  <2>2. CASE UNCHANGED p
    BY <2>2 DEF PathOK
  <2> QED BY <2>1, <2>2
<1> QED BY <1>2, <1>3, PTL DEF Spec

(* clean refuses exactly the paths that climb above the user's root, for   *)
(* roots of any depth and paths of any length, and below a root "/" all    *)
(* others as well (fs.go:32-48).                                           *)
THEOREM CleanIsExact == Spec => []RefusesExactly
<1>1. PathOK => RefusesExactly
  BY CleanAccepts DEF PathOK, RefusesExactly
<1> QED BY <1>1, PathsAreSequences, PTL

(* What clean accepts is the file the parts lead to, below the user's root *)
(* and so below the data directory (fs.go:36-48, main.go:215-226).         *)
THEOREM CleanStaysInside == Spec => []ResolvesInside
<1>1. ASSUME PathOK, NEW dataRoot \in DataRoots, NEW root \in RootsIn(dataRoot), Accepted(root, p)
      PROVE  /\ AbsPath(root, p) = FilepathClean(TRUE, root) \o FilepathClean(TRUE, p)
             /\ IsPrefix(FilepathClean(TRUE, dataRoot), AbsPath(root, p))
             /\ Rooted(p) \/ AbsPath(root, p) = FilepathClean(TRUE, root \o p)
  <2> DEFINE c == Cleaned(p)
             d == FilepathClean(TRUE, dataRoot)
             a == AbsPath(root, p)
  <2>1. p \in Seq(Strings) /\ root \in Seq(Strings) /\ root \in Roots
    BY <1>1, RootBelow DEF PathOK, Roots
  <2>2. /\ c \in Seq(Names) /\ c = FilepathClean(TRUE, p)
        /\ a = FilepathClean(TRUE, root) \o c
    BY <1>1, <2>1, CleanAccepts
  <2>3. PICK v \in Seq(Names) : FilepathClean(TRUE, root) = d \o v
    BY RootBelow
  <2>4. d \in Seq(Strings)
    BY PathsAssumption, StringsAre, CleanRooted, SeqOfNames
  <2> HIDE DEF c, d, a
  <2>5. c \in Seq(Strings) /\ v \in Seq(Strings)
    BY <2>2, SeqOfNames
  <2>6. IsPrefix(d, a)
    <3>1. a = d \o (v \o c)
      <4>1. (d \o v) \o c = d \o (v \o c)
        BY <2>4, <2>5, Associates, Zenon
      <4> QED BY <4>1, <2>2, <2>3, Zenon
    <3>2. v \o c \in Seq(Strings)
      BY <2>5, ConcatProperties, Zenon
    <3> QED BY <3>1, <3>2, <2>4, PrefixOfConcat
  <2>7. Rooted(p) \/ a = FilepathClean(TRUE, root \o p)
    <3> SUFFICES ASSUME ~Rooted(p) PROVE a = FilepathClean(TRUE, root \o p)
      OBVIOUS
    <3>1. ~ClimbsOut(p)
      BY <1>1, <2>1, CleanAccepts
    <3>2. Inside(p)
      BY <2>1, <3>1, StaysInside
    <3> QED BY <3>2, <2>1, <2>2 DEF Inside
  <2> QED BY <2>2, <2>6, <2>7 DEF c, d, a
<1>2. PathOK => ResolvesInside
  BY <1>1 DEF ResolvesInside
<1> QED BY <1>2, PathsAreSequences, PTL

LEMMA NoNamePart == ASSUME NEW rooted PROVE FilepathClean(rooted, <<"">>) = <<>>
<1>1. <<>> \in Seq(Strings) /\ "" \in Strings
  BY EmptySeq DEF Strings
<1>2. <<"">> = Append(<<>>, "")
  OBVIOUS
<1>3. FilepathClean(rooted, Append(<<>>, "")) = Resolve(rooted, <<>>, "")
  <2>1. FilepathClean(rooted, Append(<<>>, "")) = Resolve(rooted, FilepathClean(rooted, <<>>), "")
    BY <1>1, CleanAppend, Zenon
  <2> QED BY <2>1, CleanEmpty, Zenon
<1> QED BY <1>2, <1>3, ResolveDot, Zenon

LEMMA SlashFirst ==
  ASSUME NEW c \in Seq(Strings), c # <<>>
  PROVE  <<"">> \o c \in Seq(Strings) /\ Rooted(<<"">> \o c)
<1> DEFINE e == <<"">>
<1>1. e \in Seq(Strings) /\ Len(e) = 1 /\ e[1] = ""
  <2>1. "" \in Strings
    BY DEF Strings
  <2>2. e \in Seq(Strings)
    BY <2>1, OneSeq, Zenon
  <2> QED BY <2>2
<1>2. Len(c) \in Nat \ {0}
  BY EmptySeq
<1> HIDE DEF e
<1>3. e \o c \in Seq(Strings) /\ Len(e \o c) = Len(e) + Len(c)
      /\ \A i \in 1 .. Len(e) + Len(c) : (e \o c)[i] = IF i <= Len(e) THEN e[i] ELSE c[i - Len(e)]
  BY <1>1, ConcatProperties, Zenon
<1> DEFINE d == e \o c
<1> HIDE DEF d
<1>4. d \in Seq(Strings) /\ Len(d) = Len(e) + Len(c)
      /\ \A i \in 1 .. Len(e) + Len(c) : d[i] = IF i <= Len(e) THEN e[i] ELSE c[i - Len(e)]
  BY <1>3, Zenon DEF d
<1>5. Len(d) > 1 /\ d[1] = ""
  <2>1. \A l \in Nat \ {0} : 1 + l > 1 /\ 1 \in 1 .. 1 + l /\ 1 <= 1
    OBVIOUS
  <2>2. 1 + Len(c) > 1 /\ 1 \in 1 .. 1 + Len(c) /\ 1 <= 1
    BY <1>2, <2>1, Zenon
  <2>3. d[1] = IF 1 <= Len(e) THEN e[1] ELSE c[1 - Len(e)]
    BY <1>1, <1>4, <2>2, Zenon
  <2> QED BY <1>1, <1>4, <2>2, <2>3, Zenon
<1> QED BY <1>4, <1>5 DEF Rooted, d, e

(* The path reported to the audit log cleans to the same names.            *)
LEMMA RelIsAPath ==
  ASSUME NEW q \in Seq(Strings), Cleaned(q) \in Seq(Names)
  PROVE  RelPath(q) \in Seq(Strings) /\ Cleaned(RelPath(q)) = Cleaned(q)
         /\ (Rooted(RelPath(q)) \/ ~ClimbsOut(RelPath(q)))
<1> DEFINE n == Cleaned(q)
           c == IF n = <<>> THEN <<"">> ELSE n
<1>1. n \in Seq(Names) /\ n \in Seq(Strings) /\ "" \in Strings /\ <<"">> \in Seq(Strings)
  <2>1. "" \in Strings
    BY DEF Strings
  <2> QED BY <2>1, SeqOfNames, OneSeq, Zenon
<1>2. RelPath(q) = IF Rooted(q) THEN <<"">> \o c ELSE c
  BY DEF RelPath
<1> HIDE DEF n
<1>3. c \in Seq(Strings) /\ c # <<>> /\ \A i \in DOMAIN c : c[i] # ".."
  <2>1. CASE n = <<>>
    BY <2>1, <1>1, OnePart, Zenon
  <2>2. CASE n # <<>>
    <3>1. \A i \in DOMAIN n : n[i] \in Names
      BY <1>1, LenProperties
    <3> QED BY <2>2, <3>1, <1>1 DEF Names
  <2> QED BY <2>1, <2>2
<1>4. FilepathClean(FALSE, c) = n
  <2>1. CASE n = <<>>
    BY <2>1, NoNamePart
  <2>2. CASE n # <<>>
    BY <2>2, <1>1, CleanNames
  <2> QED BY <2>1, <2>2
<1>5. ~ClimbsOut(c)
  <2> HIDE DEF c
  <2> QED BY <1>3, NoUps
<1>6. CASE Rooted(q)
  <2> DEFINE r == <<"">> \o c
  <2>1. r \in Seq(Strings) /\ Rooted(r)
    <3> HIDE DEF c
    <3> QED BY <1>3, SlashFirst
  <2>2. FilepathClean(TRUE, r) = n
    <3> HIDE DEF c
    <3>1. Inside(c)
      BY <1>3, <1>5, StaysInside
    <3>2. FilepathClean(TRUE, r) = <<>> \o n
      BY <3>1, <1>1, <1>4, NoNamePart DEF Inside
    <3> QED BY <3>2, <1>1, ConcatEmptySeq
  <2>3. Rooted(r) = TRUE
    BY <2>1 DEF Rooted
  <2>4. RelPath(q) = r
    BY <1>2, <1>6
  <2> HIDE DEF r
  <2> QED BY <2>1, <2>2, <2>3, <2>4 DEF Cleaned, n
<1>7. CASE ~Rooted(q)
  <2>1. Rooted(c) = FALSE
    <3>1. CASE n = <<>>
      <4>1. Rooted(<<"">>) = FALSE
        BY DEF Rooted
      <4>2. c = <<"">>
        BY <3>1
      <4> QED BY <4>1, <4>2, Zenon
    <3>2. CASE n # <<>>
      <4>1. Len(n) \in Nat \ {0}
        BY <1>1, <3>2, EmptySeq
      <4>2. n[1] \in Names
        <5>1. 1 \in 1 .. Len(n)
          BY <4>1
        <5> QED BY <5>1, <1>1, ElementOfSeq, Zenon
      <4>3. n[1] # ""
        BY <4>2 DEF Names
      <4> QED BY <3>2, <4>3 DEF Rooted
    <3> QED BY <3>1, <3>2
  <2>2. RelPath(q) = c
    BY <1>2, <1>7
  <2> HIDE DEF c
  <2> QED BY <1>3, <1>4, <1>5, <2>1, <2>2 DEF Cleaned, n
<1> QED BY <1>6, <1>7

(* Given back to the server, the path reported to the audit log is the     *)
(* file it was reported for (fs.go:51-57).                                 *)
THEOREM RelIsTheFile == Spec => []RelNamesTheFile
<1>1. ASSUME PathOK, NEW root \in Roots, Accepted(root, p)
      PROVE  Accepted(root, RelPath(p)) /\ AbsPath(root, RelPath(p)) = AbsPath(root, p)
  <2>1. p \in Seq(Strings)
    BY <1>1 DEF PathOK
  <2>2. Cleaned(p) \in Seq(Names) /\ AbsPath(root, p) = FilepathClean(TRUE, root) \o Cleaned(p)
    BY <1>1, <2>1, CleanAccepts
  <2>3. /\ RelPath(p) \in Seq(Strings) /\ Cleaned(RelPath(p)) = Cleaned(p)
        /\ Rooted(RelPath(p)) \/ ~ClimbsOut(RelPath(p))
    BY <2>1, <2>2, RelIsAPath
  <2>4. FilepathClean(TRUE, root) # <<>> \/ Cleaned(p) = <<>>
    BY <1>1, <2>1, CleanAccepts
  <2>5. Accepted(root, RelPath(p))
    BY <2>3, <2>4, CleanAccepts
  <2>6. AbsPath(root, RelPath(p)) = FilepathClean(TRUE, root) \o Cleaned(p)
    BY <2>3, <2>5, CleanAccepts
  <2> QED BY <2>2, <2>5, <2>6
<1>2. PathOK => RelNamesTheFile
  BY <1>1 DEF RelNamesTheFile
<1> QED BY <1>2, PathsAreSequences, PTL
-------------------------------------------------------------------------------
(* What trimSlashes leaves begins and ends with a name.                    *)
LEMMA Slice ==
  ASSUME NEW s \in Seq(Strings), NEW i \in DOMAIN s, NEW j \in DOMAIN s, i <= j
  PROVE  /\ SubSeq(s, i, j) \in Seq(Strings)
         /\ Len(SubSeq(s, i, j)) = j - i + 1
         /\ \A k \in 1 .. j - i + 1 : SubSeq(s, i, j)[k] = s[i + k - 1]
<1>1. DOMAIN s = 1 .. Len(s) /\ Len(s) \in Nat /\ \A k \in 1 .. Len(s) : s[k] \in Strings
  BY LenProperties
<1>2. i \in Int /\ j \in Int /\ \A k \in i .. j : s[k] \in Strings
  BY <1>1
<1> QED BY <1>2, SubSeqProperties

LEMMA Ends ==
  ASSUME NEW i \in Nat, NEW j \in Nat, i <= j
  PROVE  /\ 1 \in 1 .. j - i + 1 /\ i + 1 - 1 = i
         /\ j - i + 1 \in 1 .. j - i + 1 /\ i + (j - i + 1) - 1 = j
OBVIOUS

(* Parts that slashes hold apart. *)
Named(x) == x # ""

LEMMA TrimSlice ==
  ASSUME NEW s \in Seq(Strings), Len(trimSlashes(s)) > 1 \/ \E k \in DOMAIN s : Named(s[k])
  PROVE  \E i \in 1 .. Len(s), j \in 1 .. Len(s) :
           /\ i <= j /\ trimSlashes(s) = SubSeq(s, i, j)
           /\ Len(trimSlashes(s)) = j - i + 1
           /\ trimSlashes(s)[1] = s[i] /\ Named(s[i])
           /\ trimSlashes(s)[j - i + 1] = s[j] /\ Named(s[j])
           /\ \A k \in 1 .. Len(s) : Named(s[k]) => i <= k /\ k <= j
<1>1. DOMAIN s = 1 .. Len(s) /\ Len(s) \in Nat
  BY LenProperties
<1>2. PICK i \in DOMAIN s, j \in DOMAIN s :
        /\ trimSlashes(s) = SubSeq(s, i, j)
        /\ i <= j /\ Named(s[i]) /\ Named(s[j])
        /\ \A k \in DOMAIN s : Named(s[k]) => i <= k /\ k <= j
  <2>1. Len(<<"">>) = 1 /\ ~(1 > 1)
    OBVIOUS
  <2> QED BY <2>1, TrimCases, Zenon DEF Named
<1> DEFINE q == SubSeq(s, i, j)
<1>3. Len(q) = j - i + 1 /\ \A k \in 1 .. j - i + 1 : q[k] = s[i + k - 1]
  BY <1>2, Slice
<1> HIDE DEF q
<1>4. i \in Nat /\ j \in Nat
  BY <1>1
<1>5. /\ 1 \in 1 .. j - i + 1 /\ i + 1 - 1 = i
      /\ j - i + 1 \in 1 .. j - i + 1 /\ i + (j - i + 1) - 1 = j
  BY <1>2, <1>4, Ends, Zenon
<1>6. q[1] = s[i] /\ q[j - i + 1] = s[j]
  BY <1>3, <1>5, Zenon
<1> QED BY <1>1, <1>2, <1>3, <1>6, Zenon DEF q

LEMMA TrimEnds ==
  ASSUME NEW s \in Seq(Strings), Len(trimSlashes(s)) > 1
  PROVE  LET q == trimSlashes(s) IN Named(q[1]) /\ Named(q[Len(q)])
BY TrimSlice, Zenon

LEMMA TrimLeft ==
  ASSUME NEW s \in Seq(Strings), NEW l \in Nat \ {0}, l = Len(s), Named(s[l])
  PROVE  /\ Named(s[1]) => trimSlashes(s) = s
         /\ ~Named(s[1]) => Len(trimSlashes(s)) < l
<1>1. DOMAIN s = 1 .. l /\ 1 .. Len(s) = 1 .. l
  BY LenProperties, Zenon
<1>2. 1 \in 1 .. l /\ l \in 1 .. l
  OBVIOUS
<1>3. \E k \in DOMAIN s : Named(s[k])
  BY <1>1, <1>2, Zenon
<1>4. PICK i \in 1 .. l, j \in 1 .. l :
        /\ trimSlashes(s) = SubSeq(s, i, j) /\ Len(trimSlashes(s)) = j - i + 1
        /\ Named(s[i])
        /\ \A k \in 1 .. l : Named(s[k]) => i <= k /\ k <= j
  BY <1>1, <1>3, TrimSlice, Zenon
<1>5. l <= j
  BY <1>2, <1>4, Zenon
<1>6. j = l
  BY <1>5
<1>7. ASSUME Named(s[1]) PROVE trimSlashes(s) = s
  <2>1. i <= 1
    BY <1>2, <1>4, <1>7, Zenon
  <2>2. i = 1
    BY <2>1
  <2>3. SubSeq(s, 1, Len(s)) = s
    BY SubSeqFull, Zenon
  <2> QED BY <1>4, <1>6, <2>2, <2>3, Zenon
<1>8. ASSUME ~Named(s[1]) PROVE Len(trimSlashes(s)) < l
  <2>1. i # 1
    BY <1>4, <1>8, Zenon
  <2>2. j - i + 1 < l
    BY <2>1, <1>6
  <2> QED BY <1>4, <2>2, Zenon
<1> QED BY <1>7, <1>8

LEMMA Concatenated ==
  ASSUME NEW s \in Seq(Strings), NEW t \in Seq(Strings)
  PROVE  /\ s \o t \in Seq(Strings)
         /\ Len(s \o t) = Len(s) + Len(t)
         /\ \A i \in 1 .. Len(s) + Len(t) :
              (s \o t)[i] = IF i <= Len(s) THEN s[i] ELSE t[i - Len(s)]
BY ConcatProperties, Zenon

LEMMA Wrapped ==
  ASSUME NEW a \in Strings, NEW b \in Strings, NEW t \in Seq(Strings), NEW u \in Strings
  PROVE  /\ Len(<<a, b>> \o t \o <<u>>) = Len(t) + 3
         /\ (<<a, b>> \o t \o <<u>>)[2] = b
<1> DEFINE h == <<a, b>>
           e == <<u>>
           m == h \o t
<1>1. h \in Seq(Strings) /\ Len(h) = 2 /\ h[2] = b
  OBVIOUS
<1>2. e \in Seq(Strings) /\ Len(e) = 1
  OBVIOUS
<1> HIDE DEF h, e
<1>3. Len(t) \in Nat
  BY LenProperties
<1>4. m \in Seq(Strings) /\ Len(m) = 2 + Len(t)
  <2>1. m \in Seq(Strings) /\ Len(m) = Len(h) + Len(t)
    BY <1>1, Concatenated, Zenon
  <2> QED BY <2>1, <1>1, Zenon
<1>5. \A i \in 1 .. Len(h) + Len(t) : m[i] = IF i <= Len(h) THEN h[i] ELSE t[i - Len(h)]
  BY <1>1, Concatenated, Zenon
<1>6. 2 \in 1 .. Len(h) + Len(t) /\ 2 <= Len(h)
  BY <1>1, <1>3
<1>7. m[2] = b
  BY <1>1, <1>5, <1>6, Zenon
<1> HIDE DEF m
<1>8. Len(m \o e) = Len(m) + Len(e)
  BY <1>2, <1>4, Concatenated, Zenon
<1>9. \A i \in 1 .. Len(m) + Len(e) : (m \o e)[i] = IF i <= Len(m) THEN m[i] ELSE e[i - Len(m)]
  BY <1>2, <1>4, Concatenated, Zenon
<1>10. 2 \in 1 .. Len(m) + Len(e) /\ 2 <= Len(m)
  BY <1>2, <1>3, <1>4
<1>11. (m \o e)[2] = b
  BY <1>7, <1>9, <1>10, Zenon
<1>12. Len(m \o e) = Len(t) + 3
  BY <1>2, <1>3, <1>4, <1>8
<1> QED BY <1>11, <1>12, Zenon DEF m, h, e

(* The two paths of a secret, for a prefix q without outer slashes: d      *)
(* stands for "data".                                                      *)
LEMMA Secrets ==
  ASSUME NEW q \in Seq(Strings), NEW l \in Nat, l = Len(q), l > 1,
         Named(q[l]), NEW d \in Strings, Named(d), NEW u \in Strings
  PROVE  LET r == Tail(q)
             w == <<q[1], d>> \o trimSlashes(r) \o <<u>>
         IN  /\ Append(q, u) # w
             /\ Named(q[2]) => trimSlashes(r) = r
             /\ ~Named(q[2]) => <<q[1], d>> \o r \o <<u>> # w
<1> DEFINE r == Tail(q)
           t == trimSlashes(r)
           w == <<q[1], d>> \o t \o <<u>>
<1>1. l - 1 \in Nat \ {0} /\ l - 1 \in 1 .. l - 1 /\ l - 1 + 1 = l /\ 1 \in 1 .. l - 1 /\ 1 + 1 = 2
      /\ 1 \in 1 .. l /\ 2 \in 1 .. l
  OBVIOUS
<1>2. q # <<>>
  BY EmptySeq
<1>3. r \in Seq(Strings) /\ Len(r) = l - 1 /\ \A i \in 1 .. l - 1 : r[i] = q[i + 1]
  BY <1>2, HeadTailProperties
<1> HIDE DEF r
<1>4. r[1] = q[2] /\ r[l - 1] = q[l]
  BY <1>1, <1>3, Zenon
<1>5. /\ Named(r[1]) => t = r
      /\ ~Named(r[1]) => Len(t) < l - 1
  BY <1>1, <1>3, <1>4, TrimLeft, Zenon
<1>6. t \in Seq(Strings) /\ q[1] \in Strings
  BY <1>1, <1>3, TrimParts, ElementOfSeq
<1>7. Len(t) \in Nat
  BY <1>6, LenProperties
<1> HIDE DEF t
<1>8. Len(w) = Len(t) + 3 /\ w[2] = d
  BY <1>6, Wrapped
<1>9. Append(q, u) # w
  <2> SUFFICES ASSUME Append(q, u) = w PROVE FALSE
    OBVIOUS
  <2> HIDE DEF w
  <2>1. Len(Append(q, u)) = l + 1 /\ \A i \in 1 .. l : Append(q, u)[i] = q[i]
    BY Appended, Zenon
  <2>2. q[2] = d /\ l + 1 = Len(t) + 3
    BY <1>1, <1>8, <2>1, Zenon
  <2>3. t = r
    BY <1>4, <1>5, <2>2, Zenon
  <2>4. Len(t) = l - 1
    BY <1>3, <2>3
  <2> QED BY <2>2, <2>4
<1>10. ASSUME ~Named(q[2]) PROVE <<q[1], d>> \o r \o <<u>> # w
  <2>1. Len(<<q[1], d>> \o r \o <<u>>) = Len(r) + 3
    BY <1>3, <1>6, Wrapped
  <2>2. Len(t) < l - 1
    BY <1>4, <1>5, <1>10, Zenon
  <2>3. Len(r) + 3 # Len(t) + 3
    BY <1>3, <1>7, <2>2
  <2> QED BY <2>1, <2>3, <1>8, Zenon
<1> QED BY <1>4, <1>5, <1>9, <1>10, Zenon DEF w, t, r

(* The server and the API agree on a user's secret for exactly these       *)
(* prefixes (vault.go:264-283 with admin-api main.go:320-334).             *)
THEOREM SecretsAgree == Spec => []SameSecret
<1> DEFINE q == trimSlashes(p)
           l == Len(q)
           d == "data"
           w == <<q[1], d>> \o trimSlashes(Tail(q)) \o <<User>>
<1>1. ASSUME PathOK PROVE SameSecret
  <2>1. p \in Seq(Strings)
    BY <1>1 DEF PathOK
  <2>2. q \in Seq(Strings) /\ q # <<>>
    BY <2>1, TrimParts
  <2>3. l \in Nat \ {0}
    BY <2>2, EmptySeq
  <2>4. d \in Strings /\ User \in Strings
    BY PathsAssumption DEF Strings
  <2>5. kvV2DataPath(p, User) = IF HasData(q) THEN Append(q, User)
                                ELSE <<q[1], d>> \o Tail(q) \o <<User>>
    BY Zenon DEF kvV2DataPath
  <2>6. kv2DataPath(p, User) = IF l < 2 THEN <<>> ELSE w
    BY Zenon DEF kv2DataPath
  <2>7. HasData(q) <=> \E i \in 2 .. l - 1 : q[i] = d
    BY Zenon DEF HasData
  <2>8. Named(d)
    BY DEF Named
  <2>9. SameSecret <=> (kvV2DataPath(p, User) = kv2DataPath(p, User)
                          <=> l > 1 /\ Named(q[2]) /\ ~HasData(q))
    BY <2>7, Zenon DEF SameSecret, Named
  <2> HIDE DEF d
  <2>10. CASE l > 1
    <3>1. Named(q[l])
      BY <2>1, <2>10, TrimEnds, Zenon
    <3> HIDE DEF q
    <3>2. l \in Nat
      BY <2>3
    <3>3. /\ Append(q, User) # w
          /\ Named(q[2]) => trimSlashes(Tail(q)) = Tail(q)
          /\ ~Named(q[2]) => <<q[1], d>> \o Tail(q) \o <<User>> # w
      BY <2>2, <2>4, <2>8, <2>10, <3>1, <3>2, Secrets, Zenon
    <3>4. ~(l < 2)
      BY <2>3, <2>10
    <3> QED BY <2>5, <2>6, <2>9, <2>10, <3>3, <3>4, Zenon
  <2>11. CASE ~(l > 1)
    <3> HIDE DEF q
    <3>1. l = 1 /\ l < 2
      <4>1. \A n \in Nat \ {0} : ~(n > 1) => n = 1 /\ n < 2
        OBVIOUS
      <4> QED BY <4>1, <2>3, <2>11, Zenon
    <3>2. ~HasData(q)
      <4>1. 2 .. l - 1 = {}
        BY <3>1
      <4> QED BY <2>7, <4>1, Zenon
    <3>3. Tail(q) \in Seq(Strings) /\ q[1] \in Strings
      BY <2>2, <3>1, HeadTailProperties, ElementOfSeq
    <3>4. Len(<<q[1], d>> \o Tail(q) \o <<User>>) = Len(Tail(q)) + 3
      BY <2>4, <3>3, Wrapped, Zenon
    <3>5. Len(Tail(q)) + 3 # 0
      BY <3>3, LenProperties
    <3>6. Len(<<>>) = 0
      OBVIOUS
    <3>7. <<q[1], d>> \o Tail(q) \o <<User>> # <<>>
      BY <3>4, <3>5, <3>6, Zenon
    <3> QED BY <2>5, <2>6, <2>9, <2>11, <3>1, <3>2, <3>7, Zenon
  <2> QED BY <2>10, <2>11
<1> QED BY <1>1, PathsAreSequences, PTL
===============================================================================
