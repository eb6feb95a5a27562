--------------------------- MODULE PrepareProofs ---------------------------
(***************************************************************************)
(* Proofs about the way from a composition to the input of a runner, for   *)
(* any compositions, any manifest and any environment.                     *)
(***************************************************************************)
EXTENDS Prepare, SequenceTheorems, FiniteSetTheorems, TLAPS

-----------------------------------------------------------------------------
(* Finite sets of numbers in their order *)

Below(S, i) == {k \in S : k <= i}

LEMMA RankFacts ==
    ASSUME NEW S, IsFiniteSet(S), S \subseteq Int, NEW i \in S
    PROVE  /\ IsFiniteSet(Below(S, i)) /\ Cardinality(Below(S, i)) \in Nat
           /\ Cardinality(Below(S, i)) \in 1..Cardinality(S)
           /\ Cardinality(Below(S, i)) = Cardinality(S) => Below(S, i) = S
<1>1. Below(S, i) \in SUBSET S /\ i \in Below(S, i)
    BY DEF Below
<1>2. /\ IsFiniteSet(Below(S, i)) /\ Cardinality(Below(S, i)) <= Cardinality(S)
      /\ Cardinality(Below(S, i)) = Cardinality(S) => Below(S, i) = S
    BY <1>1, FS_Subset
<1>3. Cardinality(Below(S, i)) \in Nat /\ Cardinality(S) \in Nat
    BY <1>2, FS_CardinalityType
<1>4. Cardinality(Below(S, i)) # 0
    BY <1>1, <1>2, FS_EmptySet
<1>5. PICK a \in Nat, b \in Nat : a = Cardinality(Below(S, i)) /\ b = Cardinality(S)
    BY <1>3
<1>6. a \in 1..b
    BY <1>2, <1>4, <1>5
<1> QED BY <1>2, <1>3, <1>5, <1>6

LEMMA RankInjective ==
    ASSUME NEW S, IsFiniteSet(S), S \subseteq Int, NEW i \in S, NEW j \in S,
           Cardinality(Below(S, i)) = Cardinality(Below(S, j))
    PROVE  i = j
<1>1. IsFiniteSet(Below(S, i)) /\ IsFiniteSet(Below(S, j))
    BY RankFacts
<1>2. ASSUME NEW x \in S, NEW y \in S, x < y,
             IsFiniteSet(Below(S, y)), Cardinality(Below(S, x)) = Cardinality(Below(S, y))
      PROVE  FALSE
    <2>1. Below(S, x) \in SUBSET Below(S, y)
        <3> SUFFICES ASSUME NEW k \in S, k <= x PROVE k <= y
            BY DEF Below
        <3>1. k \in Int /\ x \in Int /\ y \in Int
            OBVIOUS
        <3> QED BY <1>2, <3>1
    <2>2. Below(S, x) = Below(S, y)
        BY <1>2, <2>1, FS_Subset
    <2>3. y \in Below(S, y) /\ y \notin Below(S, x)
        BY <1>2 DEF Below
    <2> QED BY <2>2, <2>3
<1>3. ~(i < j) /\ ~(j < i)
    BY <1>1, <1>2
<1> QED BY <1>3

\* Every rank there can be belongs to an element.
LEMMA RankSurjective ==
    ASSUME NEW S, IsFiniteSet(S), S \subseteq Int, NEW p \in 1..Cardinality(S)
    PROVE  \E i \in S : Cardinality(Below(S, i)) = p
<1> DEFINE T == 1..Cardinality(S)
           f == [i \in S |-> Cardinality(Below(S, i))]
<1>1. PICK n \in Nat : n = Cardinality(S)
    BY FS_CardinalityType
<1>2. IsFiniteSet(T) /\ Cardinality(T) = Cardinality(S)
    BY <1>1, FS_Interval
<1>3. f \in [S -> T]
    BY RankFacts
<1>4. \A i, j \in S : f[i] = f[j] => i = j
    BY RankInjective
<1>5. f \in Injection(S, T)
    BY <1>3, <1>4 DEF Injection, IsInjective
<1>6. f \in Surjection(S, T)
    BY <1>2, <1>5, FS_Injection
<1>7. \E i \in S : f[i] = p
    BY <1>6 DEF Surjection
<1> QED BY <1>7

LEMMA SortedFacts ==
    ASSUME NEW S, IsFiniteSet(S), S \subseteq Int
    PROVE  /\ DOMAIN Sorted(S) = 1..Cardinality(S)
           /\ \A p \in 1..Cardinality(S) :
                 Sorted(S)[p] \in S /\ Cardinality(Below(S, Sorted(S)[p])) = p
           /\ \A i \in S : \E p \in 1..Cardinality(S) : Sorted(S)[p] = i
<1>1. DOMAIN Sorted(S) = 1..Cardinality(S)
    BY DEF Sorted
<1>2. ASSUME NEW p \in 1..Cardinality(S)
      PROVE  Sorted(S)[p] \in S /\ Cardinality(Below(S, Sorted(S)[p])) = p
    <2>1. Sorted(S)[p] = CHOOSE i \in S : Cardinality(Below(S, i)) = p
        BY DEF Sorted, Below
    <2>2. \E i \in S : Cardinality(Below(S, i)) = p
        BY RankSurjective
    <2> QED BY <2>1, <2>2
<1>3. ASSUME NEW i \in S PROVE \E p \in 1..Cardinality(S) : Sorted(S)[p] = i
    <2>1. PICK p \in 1..Cardinality(S) : p = Cardinality(Below(S, i))
        BY RankFacts
    <2>2. Sorted(S)[p] = i
        BY <1>2, <2>1, RankInjective
    <2> QED BY <2>2
<1> QED BY <1>1, <1>2, <1>3

LEMMA LastFacts ==
    ASSUME NEW S, IsFiniteSet(S), S \subseteq Int, S # {}
    PROVE  /\ Cardinality(S) \in Nat /\ Cardinality(S) >= 1
           /\ Sorted(S)[Cardinality(S)] \in S
           /\ \A k \in S : k <= Sorted(S)[Cardinality(S)]
<1>1. Cardinality(S) \in Nat /\ Cardinality(S) # 0
    BY FS_CardinalityType, FS_EmptySet
<1>2. PICK n \in Nat : n = Cardinality(S)
    BY <1>1
<1>3. n \in 1..n /\ n >= 1
    BY <1>1, <1>2
<1>4. Sorted(S)[n] \in S /\ Cardinality(Below(S, Sorted(S)[n])) = n
    BY <1>2, <1>3, SortedFacts
<1>5. Below(S, Sorted(S)[n]) = S
    BY <1>2, <1>4, RankFacts
<1> QED BY <1>2, <1>3, <1>4, <1>5 DEF Below

LEMMA MinFacts ==
    ASSUME NEW S, IsFiniteSet(S), S \subseteq Int, S # {}
    PROVE  Min(S) \in S
<1>1. PICK n \in Nat : n = Cardinality(S) /\ n >= 1
    BY LastFacts
<1>2. 1 \in 1..Cardinality(S)
    BY <1>1
<1>3. PICK i \in S : Cardinality(Below(S, i)) = 1
    BY <1>2, RankSurjective
<1>4. IsFiniteSet(Below(S, i)) /\ i \in Below(S, i)
    <2>1. i \in Below(S, i)
        BY DEF Below
    <2> QED BY <2>1, RankFacts
<1>5. Below(S, i) = {i}
    BY <1>3, <1>4, FS_Singleton
<1>6. \A k \in S : i <= k
    BY <1>5 DEF Below
<1> QED BY <1>6 DEF Min

-----------------------------------------------------------------------------
(* Lists of dependencies *)

LEMMA SeqFacts ==
    ASSUME NEW s, IsSequence(s)
    PROVE  /\ Len(s) \in Nat /\ DOMAIN s = 1..Len(s)
           /\ IsFiniteSet(DOMAIN s) /\ DOMAIN s \subseteq Int
<1>1. PICK n \in Nat : n = Len(s) /\ DOMAIN s = 1..n
    BY DEF IsSequence
<1>2. IsFiniteSet(1..n)
    BY FS_Interval
<1> QED BY <1>1, <1>2

Mods(d) == {d[i].mod : i \in DOMAIN d}
AtMod(d, m) == {k \in DOMAIN d : d[k].mod = m}
IsLast(d, m, i) == i \in AtMod(d, m) /\ \A k \in AtMod(d, m) : k <= i

LEMMA AsMapDomain == \A d : DOMAIN AsMap(d) = Mods(d)
BY DEF AsMap, Mods

LEMMA AsMapAt ==
    ASSUME NEW d, DOMAIN d \subseteq Int, NEW m, NEW i, IsLast(d, m, i)
    PROVE  m \in Mods(d) /\ AsMap(d)[m] = d[i]
<1>1. m \in Mods(d) /\ i \in DOMAIN d /\ d[i].mod = m
      /\ \A k \in DOMAIN d : d[k].mod = m => k <= i
    BY DEF IsLast, AtMod, Mods
<1> DEFINE j == CHOOSE x \in DOMAIN d :
                    d[x].mod = m /\ \A k \in DOMAIN d : d[k].mod = m => k <= x
<1>2. AsMap(d)[m] = d[j]
    BY <1>1 DEF AsMap, Mods
<1>3. j \in DOMAIN d /\ d[j].mod = m /\ \A k \in DOMAIN d : d[k].mod = m => k <= j
    BY <1>1
<1> HIDE DEF j
<1>4. j <= i /\ i <= j /\ i \in Int /\ j \in Int
    BY <1>1, <1>3
<1>5. i = j
    BY <1>4
<1> QED BY <1>1, <1>2, <1>5

\* A module that is on the list has a last entry, which is the one that counts.
LEMMA AsMapLast ==
    ASSUME NEW d, IsSequence(d), NEW m \in Mods(d)
    PROVE  LET i == Sorted(AtMod(d, m))[Cardinality(AtMod(d, m))]
           IN  IsLast(d, m, i) /\ AsMap(d)[m] = d[i] /\ d[i].mod = m
<1>1. IsFiniteSet(DOMAIN d) /\ DOMAIN d \subseteq Int
    BY SeqFacts
<1>2. AtMod(d, m) \in SUBSET DOMAIN d /\ AtMod(d, m) # {} /\ AtMod(d, m) \subseteq Int
    BY <1>1 DEF AtMod, Mods
<1>3. IsFiniteSet(AtMod(d, m))
    BY <1>1, <1>2, FS_Subset
<1> DEFINE i == Sorted(AtMod(d, m))[Cardinality(AtMod(d, m))]
<1>4. IsLast(d, m, i)
    BY <1>2, <1>3, LastFacts DEF IsLast
<1>5. d[i].mod = m
    BY <1>4 DEF IsLast, AtMod
<1> QED BY <1>1, <1>4, <1>5, AsMapAt

\* The versions of a module end with the one that counts.
LEMMA VersionsLast ==
    ASSUME NEW d, IsSequence(d), NEW m \in Mods(d)
    PROVE  \E n \in Nat : /\ n >= 1 /\ DOMAIN VersionsOf(d, m) = 1..n
                          /\ VersionsOf(d, m)[n] = AsMap(d)[m].ver
<1>1. IsFiniteSet(DOMAIN d) /\ DOMAIN d \subseteq Int
    BY SeqFacts
<1>2. AtMod(d, m) \in SUBSET DOMAIN d /\ AtMod(d, m) # {} /\ AtMod(d, m) \subseteq Int
    BY <1>1 DEF AtMod, Mods
<1>3. IsFiniteSet(AtMod(d, m))
    BY <1>1, <1>2, FS_Subset
<1>4. PICK n \in Nat : n = Cardinality(AtMod(d, m)) /\ n >= 1
    BY <1>2, <1>3, LastFacts
<1>5. DOMAIN Sorted(AtMod(d, m)) = 1..n
    BY <1>2, <1>3, <1>4, SortedFacts
<1>6. VersionsOf(d, m) = [p \in DOMAIN Sorted(AtMod(d, m)) |-> d[Sorted(AtMod(d, m))[p]].ver]
    BY DEF VersionsOf, AtMod
<1>7. AsMap(d)[m] = d[Sorted(AtMod(d, m))[n]]
    BY <1>4, AsMapLast
<1>8. n \in 1..n
    BY <1>4
<1> QED BY <1>4, <1>5, <1>6, <1>7, <1>8

LEMMA SameVersions ==
    ASSUME NEW d, NEW e, IsSequence(d), IsSequence(e), NEW m \in Mods(d), m \in Mods(e),
           VersionsOf(d, m) = VersionsOf(e, m)
    PROVE  AsMap(d)[m].ver = AsMap(e)[m].ver
<1>1. PICK a \in Nat : /\ a >= 1 /\ DOMAIN VersionsOf(d, m) = 1..a
                       /\ VersionsOf(d, m)[a] = AsMap(d)[m].ver
    BY VersionsLast
<1>2. PICK b \in Nat : /\ b >= 1 /\ DOMAIN VersionsOf(e, m) = 1..b
                       /\ VersionsOf(e, m)[b] = AsMap(e)[m].ver
    BY VersionsLast
<1>3. a \in 1..b /\ b \in 1..a
    BY <1>1, <1>2
<1>4. a = b
    BY <1>3
<1> QED BY <1>1, <1>2, <1>4

LEMMA FiniteMods ==
    ASSUME NEW d, IsSequence(d)
    PROVE  IsFiniteSet(Mods(d))
<1> DEFINE f == [i \in DOMAIN d |-> d[i].mod]
<1>1. f \in Surjection(DOMAIN d, Mods(d))
    BY DEF Surjection, Mods
<1> QED BY <1>1, SeqFacts, FS_Surjection

\* SetToSeq lists every element once.
LEMMA SetToSeqFacts ==
    ASSUME NEW S, IsFiniteSet(S)
    PROVE  /\ Cardinality(S) \in Nat
           /\ SetToSeq(S) \in [1..Cardinality(S) -> S] /\ SetToSeq(S) \in Seq(S)
           /\ Len(SetToSeq(S)) = Cardinality(S)
           /\ \A x \in S : \E i \in 1..Cardinality(S) : SetToSeq(S)[i] = x
           /\ \A i, j \in 1..Cardinality(S) : SetToSeq(S)[i] = SetToSeq(S)[j] => i = j
<1> DEFINE f == SetToSeq(S)
<1>1. PICK n \in Nat : n = Cardinality(S)
    BY FS_CardinalityType
<1>2. \E g \in [1..Cardinality(S) -> S] : IsInjective(g)
    <2>1. ExistsBijection(1..Cardinality(S), S)
        BY FS_CardinalityType
    <2> QED BY <2>1 DEF ExistsBijection, Bijection, Injection, IsInjective
<1>3. f \in [1..Cardinality(S) -> S] /\ IsInjective(f)
    BY <1>2 DEF SetToSeq
<1> HIDE DEF f
<1>4. f \in Injection(1..n, S)
    BY <1>1, <1>3 DEF Injection, IsInjective
<1>5. Cardinality(1..n) = n
    BY FS_Interval
<1>6. f \in Surjection(1..n, S)
    BY <1>1, <1>4, <1>5, FS_Injection
<1>7. f \in [1..n -> S] /\ \A x \in S : \E i \in 1..n : f[i] = x
    BY <1>6 DEF Surjection
<1>8. \A i, j \in 1..n : f[i] = f[j] => i = j
    BY <1>4 DEF Injection, IsInjective
<1>9. f \in Seq(S) /\ Len(f) = n
    BY <1>7
<1> QED BY <1>1, <1>3, <1>7, <1>8, <1>9 DEF f

LEMMA SeqIsSequence ==
    ASSUME NEW S, NEW s \in Seq(S)
    PROVE  IsSequence(s)
<1>1. PICK n \in Nat : s \in [1..n -> S]
    BY SeqDef
<1>2. s \in [1..n -> ToSet(s)]
    BY <1>1 DEF ToSet
<1>3. s \in Seq(ToSet(s))
    BY <1>2, SeqDef
<1> QED BY <1>3 DEF IsSequence

Missing(d, defaults) == {m \in Mods(defaults) : m \notin Mods(d)}
Added(d, defaults) ==
    {[mod |-> m, target |-> "", ver |-> AsMap(defaults)[m].ver] : m \in Missing(d, defaults)}

LEMMA AppliedTo ==
    ASSUME NEW d, NEW defaults
    PROVE  ApplyDefaults(d, defaults) =
              IF d = <<>> THEN defaults ELSE d \o SetToSeq(Added(d, defaults))
BY AsMapDomain DEF ApplyDefaults, Added, Missing

LEMMA FiniteAdded ==
    ASSUME NEW d, NEW defaults, IsSequence(defaults)
    PROVE  IsFiniteSet(Added(d, defaults))
<1>1. IsFiniteSet(Missing(d, defaults))
    <2>1. Missing(d, defaults) \in SUBSET Mods(defaults)
        BY DEF Missing
    <2> QED BY <2>1, FiniteMods, FS_Subset
<1> DEFINE f == [m \in Missing(d, defaults) |->
                    [mod |-> m, target |-> "", ver |-> AsMap(defaults)[m].ver]]
<1>2. f \in Surjection(Missing(d, defaults), Added(d, defaults))
    BY DEF Surjection, Added
<1> QED BY <1>1, <1>2, FS_Surjection

\* A list and what is appended to it.
Appended(d, R) == d \o SetToSeq(R)

LEMMA AppendedList ==
    ASSUME NEW d, IsSequence(d), NEW R, IsFiniteSet(R), NEW e, e = Appended(d, R)
    PROVE  /\ IsSequence(e) /\ Len(d) \in Nat /\ Cardinality(R) \in Nat
           /\ DOMAIN d = 1..Len(d)
           /\ DOMAIN e = 1..(Len(d) + Cardinality(R))
           /\ \A k \in DOMAIN d : k \in DOMAIN e /\ e[k] = d[k]
           /\ \A k \in DOMAIN e : k \notin DOMAIN d => k > Len(d) /\ e[k] \in R
           /\ \A x \in R : \E k \in DOMAIN e : k > Len(d) /\ e[k] = x
           /\ \A k, l \in DOMAIN e : (k > Len(d) /\ l > Len(d) /\ e[k] = e[l]) => k = l
<1> DEFINE S == ToSet(d) \cup R
           t == SetToSeq(R)
<1>1. /\ Cardinality(R) \in Nat /\ t \in [1..Cardinality(R) -> R] /\ t \in Seq(R)
      /\ Len(t) = Cardinality(R)
      /\ \A x \in R : \E i \in 1..Cardinality(R) : t[i] = x
      /\ \A i, j \in 1..Cardinality(R) : t[i] = t[j] => i = j
    BY SetToSeqFacts
<1>2. Len(d) \in Nat /\ DOMAIN d = 1..Len(d)
    BY SeqFacts
<1> HIDE DEF t
<1>3. d \in Seq(S) /\ t \in Seq(S)
    BY <1>1, SeqMonotonic DEF IsSequence
<1> HIDE DEF S
<1>4. /\ d \o t \in Seq(S) /\ Len(d \o t) = Len(d) + Len(t)
      /\ \A i \in 1..(Len(d) + Len(t)) : (d \o t)[i] = IF i <= Len(d) THEN d[i] ELSE t[i - Len(d)]
    BY <1>3, ConcatProperties, Zenon
<1>5. e = d \o t
    BY DEF t, Appended
<1>6. e \in Seq(S) /\ Len(e) = Len(d) + Len(t)
      /\ \A i \in 1..(Len(d) + Len(t)) : e[i] = IF i <= Len(d) THEN d[i] ELSE t[i - Len(d)]
    BY <1>4, <1>5, Zenon
<1>7. PICK a \in Nat, b \in Nat : a = Len(d) /\ b = Cardinality(R)
    BY <1>1, <1>2
<1>8. IsSequence(e)
    BY <1>6, SeqIsSequence
<1>9. DOMAIN e = 1..(a + b)
    BY <1>1, <1>6, <1>7, LenProperties
<1>10. \A i \in 1..(a + b) : e[i] = IF i <= a THEN d[i] ELSE t[i - a]
    BY <1>1, <1>6, <1>7
<1>11. \A k \in 1..a : k \in 1..(a + b) /\ e[k] = d[k]
    BY <1>10
<1>12. ASSUME NEW k \in 1..(a + b), k \notin 1..a PROVE k > a /\ e[k] \in R
    <2>1. k > a /\ k - a \in 1..b
        BY <1>12
    <2> QED BY <2>1, <1>1, <1>7, <1>10
<1>13. ASSUME NEW x \in R PROVE \E k \in 1..(a + b) : k > a /\ e[k] = x
    <2>1. PICK i \in 1..b : t[i] = x
        BY <1>1, <1>7
    <2>2. i + a \in 1..(a + b) /\ i + a > a /\ (i + a) - a = i
        OBVIOUS
    <2>3. e[i + a] = t[(i + a) - a]
        BY <1>10, <2>2
    <2> QED BY <2>1, <2>2, <2>3
<1>14. ASSUME NEW k \in 1..(a + b), NEW l \in 1..(a + b), k > a, l > a, e[k] = e[l]
       PROVE  k = l
    <2>1. k - a \in 1..b /\ l - a \in 1..b
        BY <1>14
    <2>2. e[k] = t[k - a] /\ e[l] = t[l - a]
        BY <1>10, <1>14
    <2>3. k - a = l - a
        BY <1>1, <1>7, <1>14, <2>1, <2>2
    <2> QED BY <2>1, <2>3
<1> QED BY <1>2, <1>7, <1>8, <1>9, <1>11, <1>12, <1>13, <1>14

\* What ApplyDefaults makes of two lists: their modules, the versions of the
\* list itself first; applying it again adds nothing.
LEMMA AppliedFacts ==
    ASSUME NEW d, NEW defaults, IsSequence(d), IsSequence(defaults),
           NEW e, e = ApplyDefaults(d, defaults)
    PROVE  /\ IsSequence(e) /\ Mods(e) = Mods(d) \cup Mods(defaults)
           /\ \A m \in Mods(d) : AsMap(e)[m].ver = AsMap(d)[m].ver
           /\ \A m \in Mods(defaults) : m \notin Mods(d) =>
                 AsMap(e)[m].ver = AsMap(defaults)[m].ver
<1>1. CASE d = <<>>
    <2>1. e = defaults /\ Mods(d) = {}
        BY <1>1, AppliedTo DEF Mods
    <2> QED BY <2>1
<1>2. CASE d # <<>>
    <2> DEFINE R == Added(d, defaults)
    <2>1. e = Appended(d, R)
        BY <1>2, AppliedTo DEF Appended
    <2>2. IsFiniteSet(R)
        BY FiniteAdded
    <2>3. /\ IsSequence(e) /\ Len(d) \in Nat /\ Cardinality(R) \in Nat
          /\ DOMAIN d = 1..Len(d)
          /\ DOMAIN e = 1..(Len(d) + Cardinality(R))
          /\ \A k \in DOMAIN d : k \in DOMAIN e /\ e[k] = d[k]
          /\ \A k \in DOMAIN e : k \notin DOMAIN d => k > Len(d) /\ e[k] \in R
          /\ \A x \in R : \E k \in DOMAIN e : k > Len(d) /\ e[k] = x
          /\ \A k, l \in DOMAIN e : (k > Len(d) /\ l > Len(d) /\ e[k] = e[l]) => k = l
        <3> HIDE DEF R
        <3> QED BY <2>1, <2>2, AppendedList
    <2>4. \A x \in R : /\ x.mod \in Missing(d, defaults) /\ x.ver = AsMap(defaults)[x.mod].ver
                       /\ x = [mod |-> x.mod, target |-> "", ver |-> AsMap(defaults)[x.mod].ver]
        <3> SUFFICES ASSUME NEW x \in R
                     PROVE  /\ x.mod \in Missing(d, defaults)
                            /\ x.ver = AsMap(defaults)[x.mod].ver
                            /\ x = [mod |-> x.mod, target |-> "", ver |-> AsMap(defaults)[x.mod].ver]
            OBVIOUS
        <3>1. PICK m \in Missing(d, defaults) :
                 x = [mod |-> m, target |-> "", ver |-> AsMap(defaults)[m].ver]
            BY DEF Added
        <3>2. x.mod = m /\ x.ver = AsMap(defaults)[m].ver
            BY <3>1
        <3> QED BY <3>1, <3>2
    <2>5. ASSUME NEW m \in Missing(d, defaults) PROVE \E x \in R : x.mod = m
        <3>1. PICK x : x = [mod |-> m, target |-> "", ver |-> AsMap(defaults)[m].ver]
            OBVIOUS
        <3>2. x \in R
            BY <3>1 DEF Added
        <3>3. x.mod = m
            BY <3>1
        <3> QED BY <3>2, <3>3
    <2> HIDE DEF R
    <2>6. \A x \in R : x.mod \in Mods(defaults) /\ x.mod \notin Mods(d)
        BY <2>4 DEF Missing
    <2>7. Mods(e) = Mods(d) \cup Mods(defaults)
        <3>1. ASSUME NEW k \in DOMAIN e PROVE e[k].mod \in Mods(d) \cup Mods(defaults)
            <4>1. CASE k \in DOMAIN d
                BY <2>3, <4>1 DEF Mods
            <4>2. CASE k \notin DOMAIN d
                BY <2>3, <2>6, <4>2
            <4> QED BY <4>1, <4>2
        <3>2. Mods(d) \subseteq Mods(e)
            BY <2>3 DEF Mods
        <3>3. ASSUME NEW m \in Mods(defaults), m \notin Mods(d) PROVE m \in Mods(e)
            <4>1. PICK x \in R : x.mod = m
                BY <2>5, <3>3 DEF Missing
            <4>2. PICK k \in DOMAIN e : e[k] = x
                BY <2>3
            <4> QED BY <4>1, <4>2 DEF Mods
        <3>4. Mods(e) \subseteq Mods(d) \cup Mods(defaults)
            <4> SUFFICES ASSUME NEW m \in Mods(e) PROVE m \in Mods(d) \cup Mods(defaults)
                OBVIOUS
            <4>1. PICK k \in DOMAIN e : e[k].mod = m
                BY DEF Mods
            <4> QED BY <3>1, <4>1
        <3> QED BY <3>2, <3>3, <3>4
    <2>8. DOMAIN e \subseteq Int /\ DOMAIN d \subseteq Int
        BY <2>3, SeqFacts
    <2>9. ASSUME NEW m \in Mods(d) PROVE AsMap(e)[m].ver = AsMap(d)[m].ver
        <3>1. PICK j : IsLast(d, m, j) /\ AsMap(d)[m] = d[j]
            BY AsMapLast
        <3>2. j \in DOMAIN d /\ d[j].mod = m
            BY <3>1 DEF IsLast, AtMod
        <3>3. \A k \in AtMod(e, m) : k \in AtMod(d, m)
            BY <2>3, <2>6 DEF AtMod
        <3>4. IsLast(e, m, j)
            BY <2>3, <3>1, <3>2, <3>3 DEF IsLast, AtMod
        <3>5. AsMap(e)[m] = e[j]
            BY <2>8, <3>4, AsMapAt
        <3> QED BY <2>3, <3>1, <3>2, <3>5
    <2>10. ASSUME NEW m \in Mods(defaults), m \notin Mods(d)
           PROVE  AsMap(e)[m].ver = AsMap(defaults)[m].ver
        <3>1. PICK x \in R : x.mod = m
            BY <2>5, <2>10 DEF Missing
        <3>2. PICK j \in DOMAIN e : j > Len(d) /\ e[j] = x
            BY <2>3
        <3>3. ASSUME NEW k \in AtMod(e, m) PROVE k = j
            <4>1. k \in DOMAIN e /\ e[k].mod = m
                BY DEF AtMod
            <4>2. k \notin DOMAIN d
                BY <2>3, <2>10, <4>1 DEF Mods
            <4>3. k > Len(d) /\ e[k] \in R
                BY <2>3, <4>1, <4>2
            <4>4. e[k] = x
                BY <2>4, <3>1, <4>1, <4>3
            <4> QED BY <2>3, <3>2, <4>1, <4>3, <4>4
        <3>4. j \in Int /\ j \in AtMod(e, m)
            BY <2>8, <3>1, <3>2 DEF AtMod
        <3>5. IsLast(e, m, j)
            BY <3>3, <3>4 DEF IsLast
        <3>6. AsMap(e)[m] = e[j]
            BY <2>8, <3>5, AsMapAt
        <3> QED BY <2>4, <3>1, <3>2, <3>6
    <2> QED BY <2>3, <2>7, <2>9, <2>10
<1> QED BY <1>1, <1>2

LEMMA AppliedTwice ==
    ASSUME NEW d, NEW defaults, IsSequence(d), IsSequence(defaults),
           NEW e, e = ApplyDefaults(d, defaults)
    PROVE  ApplyDefaults(e, defaults) = e
<1>1. IsSequence(e) /\ Mods(defaults) \subseteq Mods(e)
    BY AppliedFacts
<1>2. Missing(e, defaults) = {}
    BY <1>1 DEF Missing
<1>3. Added(e, defaults) = {}
    BY <1>2 DEF Added
<1>4. SetToSeq({}) \in Seq({}) /\ Len(SetToSeq({})) = 0
    BY FS_EmptySet, SetToSeqFacts
<1>5. SetToSeq({}) = <<>>
    BY <1>4
<1>6. e \o <<>> = e
    BY <1>1, ConcatEmptySeq DEF IsSequence
<1>7. CASE e # <<>>
    <2>1. ApplyDefaults(e, defaults) = e \o SetToSeq(Added(e, defaults))
        BY <1>7, AppliedTo
    <2> QED BY <1>3, <1>5, <1>6, <2>1
<1>8. CASE e = <<>>
    <2>1. Mods(e) = {}
        BY <1>8 DEF Mods
    <2>2. Len(defaults) \in Nat /\ DOMAIN defaults = 1..Len(defaults)
        BY SeqFacts
    <2>3. DOMAIN defaults = {}
        BY <1>1, <2>1 DEF Mods
    <2>4. defaults = <<>>
        <3>1. PICK n \in Nat : n = Len(defaults) /\ 1..n = {}
            BY <2>2, <2>3
        <3>2. n = 0
            BY <3>1
        <3>3. defaults \in Seq(ToSet(defaults))
            BY DEF IsSequence
        <3> QED BY <3>1, <3>2, <3>3, EmptySeq
    <2>5. ApplyDefaults(e, defaults) = defaults
        BY <1>8, AppliedTo
    <2> QED BY <1>8, <2>4, <2>5
<1> QED BY <1>7, <1>8

-----------------------------------------------------------------------------
(* What a group is built from *)

LEMMA DefaultsFacts ==
    ASSUME NEW a, NEW b
    PROVE  /\ DOMAIN WithDefaults(a, b) = DOMAIN a \cup DOMAIN b
           /\ \A k \in DOMAIN a : WithDefaults(a, b)[k] = a[k]
           /\ \A k \in DOMAIN b : k \notin DOMAIN a => WithDefaults(a, b)[k] = b[k]
BY DEF WithDefaults

LEMMA DefaultsAssociative ==
    ASSUME NEW a, NEW b, NEW c
    PROVE  WithDefaults(WithDefaults(a, b), c) = WithDefaults(a, WithDefaults(b, c))
BY DEF WithDefaults

LEMMA DefaultsTwice ==
    ASSUME NEW a, NEW b
    PROVE  WithDefaults(WithDefaults(a, b), b) = WithDefaults(a, b)
BY DEF WithDefaults

LEMMA NoDefaults ==
    ASSUME NEW a, NEW b, NEW e, DOMAIN e = {}
    PROVE  WithDefaults(WithDefaults(a, b), e) = WithDefaults(a, b)
BY DEF WithDefaults

Known == {"docker:go", "exec:go", "docker:node", "docker:generic"}
Goes == {"docker:go", "exec:go"}

\* What ForgetTargets leaves of the content of a group.
Outcome(grp) ==
    [builder |-> grp.builder,
     config |-> WithDefaults(grp.config, EnvBuilders[grp.builder]),
     tags |-> IF grp.builder \in Goes THEN ToSet(grp.selectors) ELSE {},
     replace |-> [m \in (IF grp.builder \in Goes THEN Mods(grp.deps) ELSE {}) |->
                    AsMap(grp.deps)[m].ver]]

LEMMA ForgetMade ==
    ASSUME NEW grp, NEW tags, NEW replace
    PROVE  ForgetTargets(Made(grp, tags, replace)) =
              [builder |-> grp.builder,
               config |-> WithDefaults(grp.config, EnvBuilders[grp.builder]),
               tags |-> tags,
               replace |-> [m \in DOMAIN replace |-> replace[m].ver]]
BY DEF ForgetTargets, Made

LEMMA ForgetContent ==
    ASSUME NEW grp, grp.builder \in Known
    PROVE  ForgetTargets(Content(grp)) = Outcome(grp)
<1>1. DOMAIN AsMap(grp.deps) = Mods(grp.deps)
    BY AsMapDomain
<1>2. CASE grp.builder = "docker:go"
    <2> DEFINE rep == [m \in DOMAIN AsMap(grp.deps) |->
                         [target |-> IF AsMap(grp.deps)[m].target = "" THEN m
                                     ELSE AsMap(grp.deps)[m].target,
                          ver |-> AsMap(grp.deps)[m].ver]]
    <2>1. Content(grp) = Made(grp, ToSet(grp.selectors), rep)
        BY <1>2 DEF Content, DockerGo
    <2>2. /\ DOMAIN rep = Mods(grp.deps)
          /\ \A m \in Mods(grp.deps) : rep[m].ver = AsMap(grp.deps)[m].ver
        BY <1>1
    <2> HIDE DEF rep
    <2>3. [m \in DOMAIN rep |-> rep[m].ver] = [m \in Mods(grp.deps) |-> AsMap(grp.deps)[m].ver]
        BY <2>2
    <2> QED BY <1>2, <2>1, <2>3, ForgetMade DEF Outcome, Goes
<1>3. CASE grp.builder = "exec:go"
    <2> DEFINE rep == [m \in DOMAIN AsMap(grp.deps) |->
                         [target |-> AsMap(grp.deps)[m].target, ver |-> AsMap(grp.deps)[m].ver]]
    <2>1. Content(grp) = Made(grp, ToSet(grp.selectors), rep)
        BY <1>3 DEF Content, ExecGo
    <2>2. /\ DOMAIN rep = Mods(grp.deps)
          /\ \A m \in Mods(grp.deps) : rep[m].ver = AsMap(grp.deps)[m].ver
        BY <1>1
    <2> HIDE DEF rep
    <2>3. [m \in DOMAIN rep |-> rep[m].ver] = [m \in Mods(grp.deps) |-> AsMap(grp.deps)[m].ver]
        BY <2>2
    <2> QED BY <1>3, <2>1, <2>3, ForgetMade DEF Outcome, Goes
<1>4. CASE grp.builder \in {"docker:node", "docker:generic"}
    <2>1. Content(grp) = Made(grp, {}, <<>>)
        BY <1>4 DEF Content, DockerNode, DockerGeneric
    <2>2. PICK rep : rep = <<>> /\ DOMAIN rep = {}
        OBVIOUS
    <2>3. [m \in DOMAIN rep |-> rep[m].ver] = [m \in {} |-> AsMap(grp.deps)[m].ver]
        BY <2>2
    <2>4. Content(grp) = Made(grp, {}, rep)
        BY <2>1, <2>2
    <2>5. ForgetTargets(Content(grp)) =
              [builder |-> grp.builder,
               config |-> WithDefaults(grp.config, EnvBuilders[grp.builder]),
               tags |-> {},
               replace |-> [m \in DOMAIN rep |-> rep[m].ver]]
        BY <2>4, ForgetMade
    <2>6. grp.builder \notin Goes
        BY <1>4 DEF Goes
    <2> QED BY <2>3, <2>5, <2>6 DEF Outcome
<1> QED BY <1>2, <1>3, <1>4 DEF Known

LEMMA SameContent ==
    ASSUME NEW g, NEW h, g.builder = h.builder, g.builder \in Known, g.config = h.config,
           ToSet(g.selectors) = ToSet(h.selectors), Mods(g.deps) = Mods(h.deps),
           \A m \in Mods(g.deps) : AsMap(g.deps)[m].ver = AsMap(h.deps)[m].ver
    PROVE  ForgetTargets(Content(g)) = ForgetTargets(Content(h))
<1>1. ForgetTargets(Content(g)) = Outcome(g) /\ ForgetTargets(Content(h)) = Outcome(h)
    BY ForgetContent
<1>2. [m \in Mods(g.deps) |-> AsMap(g.deps)[m].ver] = [m \in Mods(h.deps) |-> AsMap(h.deps)[m].ver]
    OBVIOUS
<1>3. [m \in {} |-> AsMap(g.deps)[m].ver] = [m \in {} |-> AsMap(h.deps)[m].ver]
    OBVIOUS
<1>4. Outcome(g) = Outcome(h)
    <2>1. CASE g.builder \in Goes
        BY <1>2, <2>1 DEF Outcome
    <2>2. CASE g.builder \notin Goes
        BY <1>3, <2>2 DEF Outcome
    <2> QED BY <2>1, <2>2
<1> QED BY <1>1, <1>4

\* Groups with one build key are built alike, up to the targets of replace
\* directives, which the key leaves out.
LEMMA KeyContent ==
    ASSUME NEW g, NEW h, IsSequence(g.deps), IsSequence(h.deps), g.builder \in Known,
           BuildKey(g) = BuildKey(h)
    PROVE  ForgetTargets(Content(g)) = ForgetTargets(Content(h))
<1>1. /\ g.builder = h.builder /\ g.config = h.config
      /\ ToBag(g.selectors) = ToBag(h.selectors)
      /\ [m \in DOMAIN AsMap(g.deps) |-> VersionsOf(g.deps, m)] =
            [m \in DOMAIN AsMap(h.deps) |-> VersionsOf(h.deps, m)]
    BY DEF BuildKey
<1>2. ToSet(g.selectors) = ToSet(h.selectors)
    <2>1. \A s : DOMAIN ToBag(s) = ToSet(s)
        BY DEF ToBag, ToSet, Range
    <2> QED BY <1>1, <2>1
<1>3. DOMAIN AsMap(g.deps) = Mods(g.deps) /\ DOMAIN AsMap(h.deps) = Mods(h.deps)
    BY AsMapDomain
<1>4. PICK f : /\ f = [m \in Mods(g.deps) |-> VersionsOf(g.deps, m)]
               /\ f = [m \in Mods(h.deps) |-> VersionsOf(h.deps, m)]
    BY <1>1, <1>3
<1>5. Mods(g.deps) = Mods(h.deps)
    BY <1>4
<1>6. \A m \in Mods(g.deps) : VersionsOf(g.deps, m) = VersionsOf(h.deps, m)
    BY <1>4, <1>5
<1>7. \A m \in Mods(g.deps) : AsMap(g.deps)[m].ver = AsMap(h.deps)[m].ver
    BY <1>5, <1>6, SameVersions
<1> QED BY <1>1, <1>2, <1>5, <1>7, SameContent

\* A list that is made from a map by module says what the map says.
ListOf(f) == SetToSeq({f[m] : m \in DOMAIN f})

LEMMA ListOfMap ==
    ASSUME NEW f, IsFiniteSet(DOMAIN f), \A m \in DOMAIN f : f[m].mod = m,
           NEW s, s = ListOf(f)
    PROVE  Mods(s) = DOMAIN f /\ \A m \in DOMAIN f : AsMap(s)[m] = f[m]
<1> DEFINE R == {f[m] : m \in DOMAIN f}
           h == [m \in DOMAIN f |-> f[m]]
<1>1. h \in Surjection(DOMAIN f, R)
    <2>1. h \in [DOMAIN f -> R]
        OBVIOUS
    <2>2. \A x \in R : \E m \in DOMAIN f : h[m] = x
        OBVIOUS
    <2> QED BY <2>1, <2>2 DEF Surjection
<1>2. IsFiniteSet(R)
    BY <1>1, FS_Surjection
<1>3. \A x \in R : x.mod \in DOMAIN f /\ x = f[x.mod]
    OBVIOUS
<1>4. \A m \in DOMAIN f : f[m] \in R
    OBVIOUS
<1>5. s = SetToSeq(R)
    BY DEF ListOf
<1> HIDE DEF R
<1>6. PICK n \in Nat :
         /\ s \in [1..n -> R]
         /\ \A x \in R : \E i \in 1..n : s[i] = x
         /\ \A i, j \in 1..n : s[i] = s[j] => i = j
    BY <1>2, <1>5, SetToSeqFacts
<1>7. DOMAIN s = 1..n /\ DOMAIN s \subseteq Int
    BY <1>6
<1>8. Mods(s) = DOMAIN f
    <2>1. ASSUME NEW m \in DOMAIN f PROVE m \in Mods(s)
        <3>1. PICK k \in 1..n : s[k] = f[m]
            BY <1>4, <1>6
        <3> QED BY <1>7, <3>1 DEF Mods
    <2>2. ASSUME NEW m \in Mods(s) PROVE m \in DOMAIN f
        <3>1. PICK k \in 1..n : s[k].mod = m
            BY <1>7 DEF Mods
        <3> QED BY <1>3, <1>6, <3>1
    <2> QED BY <2>1, <2>2
<1>9. ASSUME NEW m \in DOMAIN f PROVE AsMap(s)[m] = f[m]
    <2>1. PICK j \in 1..n : s[j] = f[m]
        BY <1>4, <1>6
    <2>2. ASSUME NEW k \in AtMod(s, m) PROVE k = j
        <3>1. k \in 1..n /\ s[k].mod = m
            BY <1>7 DEF AtMod
        <3>2. s[k] = f[m]
            BY <1>3, <1>6, <3>1
        <3> QED BY <1>6, <2>1, <3>1, <3>2
    <2>3. j \in AtMod(s, m) /\ j \in Int
        BY <1>7, <2>1 DEF AtMod
    <2>4. IsLast(s, m, j)
        BY <2>2, <2>3 DEF IsLast
    <2> QED BY <1>7, <2>1, <2>4, AsMapAt
<1> QED BY <1>8, <1>9

-----------------------------------------------------------------------------
(* The inductive invariant *)

\* What a group says about its build.
Settings(x) == [builder |-> x.builder, config |-> x.config, deps |-> x.deps,
                selectors |-> x.selectors]

\* The same after PrepareForBuild with the global settings g.
PreparedSettings(x, g) ==
    [builder |-> IF x.builder = "" THEN g.builder ELSE x.builder,
     config |-> WithDefaults(x.config, GlobalConfig(g)),
     deps |-> IF g.hasBuild THEN ApplyDefaults(x.deps, g.deps) ELSE x.deps,
     selectors |-> IF g.hasBuild /\ x.selectors = <<>> THEN g.selectors ELSE x.selectors]

\* Two global sections that prepare every group alike.
SameGlobal(g, h) ==
    /\ DOMAIN g = GlobalFields
    /\ \A f \in GlobalFields \ {"config"} : g[f] = h[f]
    /\ GlobalConfig(g) = GlobalConfig(h)

Prepared(i) == Settings(comp.groups[i]) = PreparedSettings(orig.groups[i], orig.global)
Fits(a, i) == /\ a \in DOMAIN content
              /\ ForgetTargets(content[a]) = ForgetTargets(Wanted(i))
Picked(i) == \E p \in DOMAIN pick : pick[p] = i

PlaceOK ==
    /\ pc \in Over \cup {"client", "queue", "doBuild", "jobs", "prepareRun"}
    /\ kind \in {"build", "run"} /\ ignore \in BOOLEAN /\ cache \in BOOLEAN
    /\ pc \in {"queue", "prepareRun"} => kind = "run"
    /\ orig \in Compositions /\ DOMAIN content \subseteq Images

\* A group is as it was written, or prepared once or more.
GroupOK(i) ==
    LET x == comp.groups[i] IN
    /\ DOMAIN x = GroupFields
    /\ x.count = orig.groups[i].count /\ x.pct = orig.groups[i].pct
    /\ pc # "run" => x.params = orig.groups[i].params
    /\ Settings(x) = Settings(orig.groups[i]) \/ Prepared(i)
    /\ IF x.artifact \in DOMAIN content THEN Prepared(i) /\ Fits(x.artifact, i)
       ELSE x.artifact = orig.groups[i].artifact

CompOK ==
    /\ DOMAIN comp = {"global", "groups"}
    /\ SameGlobal(comp.global, orig.global)
    /\ DOMAIN comp.groups = DOMAIN orig.groups
    /\ \A i \in Idx : GroupOK(i)

PickOK ==
    /\ IsFiniteSet(DOMAIN pick) /\ DOMAIN pick \subseteq Int
    /\ \A p \in DOMAIN pick : pick[p] \in Idx

\* A group without an artifact is picked, and so has one in the end.
PickedOK ==
    \A i \in Idx : comp.groups[i].artifact = "" =>
        /\ pc # "prepareRun"
        /\ (pc \in {"queue", "doBuild", "jobs"} /\ kind = "run") => Picked(i)

\* A job builds what each of its groups asked for.
JobShape(j) ==
    /\ DOMAIN jobs[j] = {"at", "src", "pc", "base"}
    /\ jobs[j].at # {} /\ jobs[j].at \subseteq DOMAIN pick
    /\ jobs[j].pc \in {"setup", "cache", "build", "untag", "tag", "image", "done", "failed"}
JobBuilds(j) ==
    \A p \in jobs[j].at :
        /\ ForgetTargets(Content(GroupOf(j))) = ForgetTargets(Wanted(pick[p]))
        /\ jobs[j].pc = "done" => Fits(jobs[j].base, pick[p])

JobsOK ==
    /\ pc = "client" => jobs = <<>>
    /\ \A j \in DOMAIN jobs : JobShape(j)
    /\ pc = "jobs" =>
          /\ \A j \in DOMAIN jobs : JobBuilds(j)
          /\ \A p \in DOMAIN pick : Prepared(pick[p]) /\ \E j \in DOMAIN jobs : p \in jobs[j].at

IInv == /\ PlaceOK /\ CompOK /\ PickOK /\ PickedOK /\ JobsOK
        /\ ArtifactFits /\ InputFits /\ PrepareOnce

-----------------------------------------------------------------------------
(* What preparing does to a group *)

LEMMA PreparedFields ==
    ASSUME NEW x, NEW g, DOMAIN x = GroupFields, NEW r, r = PrepareGroup(x, g)
    PROVE  /\ DOMAIN r = GroupFields /\ Settings(r) = PreparedSettings(x, g)
           /\ r.artifact = x.artifact /\ r.params = x.params
           /\ r.count = x.count /\ r.pct = x.pct
<1>1. DOMAIN r = GroupFields
    BY DEF PrepareGroup
<1>2. /\ r.artifact = x.artifact /\ r.params = x.params
      /\ r.count = x.count /\ r.pct = x.pct
    BY DEF PrepareGroup, GroupFields
<1>3. /\ r.builder = IF x.builder = "" THEN g.builder ELSE x.builder
      /\ r.config = WithDefaults(x.config, GlobalConfig(g))
      /\ r.deps = IF g.hasBuild THEN ApplyDefaults(x.deps, g.deps) ELSE x.deps
      /\ r.selectors = IF g.hasBuild /\ x.selectors = <<>> THEN g.selectors ELSE x.selectors
    BY DEF PrepareGroup, GroupFields
<1> QED
    BY <1>1, <1>2, <1>3 DEF Settings, PreparedSettings

LEMMA SettingsFields ==
    ASSUME NEW x, NEW y, Settings(x) = Settings(y)
    PROVE  /\ x.builder = y.builder /\ x.config = y.config
           /\ x.deps = y.deps /\ x.selectors = y.selectors
BY DEF Settings

LEMMA PreparedIs ==
    ASSUME NEW x, NEW y, NEW g, Settings(y) = PreparedSettings(x, g)
    PROVE  /\ y.builder = IF x.builder = "" THEN g.builder ELSE x.builder
           /\ y.config = WithDefaults(x.config, GlobalConfig(g))
           /\ y.deps = IF g.hasBuild THEN ApplyDefaults(x.deps, g.deps) ELSE x.deps
           /\ y.selectors = IF g.hasBuild /\ x.selectors = <<>> THEN g.selectors
                            ELSE x.selectors
BY DEF Settings, PreparedSettings

LEMMA SamePrepared ==
    ASSUME NEW x, NEW y, NEW g, NEW h, Settings(x) = Settings(y), SameGlobal(g, h)
    PROVE  PreparedSettings(x, g) = PreparedSettings(y, h)
<1>1. /\ g.builder = h.builder /\ g.hasBuild = h.hasBuild /\ g.deps = h.deps
      /\ g.selectors = h.selectors /\ GlobalConfig(g) = GlobalConfig(h)
    BY DEF SameGlobal, GlobalFields
<1> QED
    BY <1>1, SettingsFields DEF PreparedSettings

\* Preparing is idempotent.
LEMMA PreparedTwice ==
    ASSUME NEW x, NEW y, NEW g, IsSequence(x.deps), IsSequence(g.deps),
           Settings(y) = PreparedSettings(x, g)
    PROVE  PreparedSettings(y, g) = Settings(y)
<1>1. /\ y.builder = IF x.builder = "" THEN g.builder ELSE x.builder
      /\ y.config = WithDefaults(x.config, GlobalConfig(g))
      /\ y.deps = IF g.hasBuild THEN ApplyDefaults(x.deps, g.deps) ELSE x.deps
      /\ y.selectors = IF g.hasBuild /\ x.selectors = <<>> THEN g.selectors ELSE x.selectors
    BY PreparedIs
<1>2. WithDefaults(y.config, GlobalConfig(g)) = y.config
    BY <1>1, DefaultsTwice
<1>3. g.hasBuild => ApplyDefaults(y.deps, g.deps) = y.deps
    <2>1. PICK d, f, e : d = x.deps /\ f = g.deps /\ e = y.deps
        OBVIOUS
    <2>2. e = ApplyDefaults(d, f) => ApplyDefaults(e, f) = e
        BY <2>1, AppliedTwice
    <2> QED
        BY <1>1, <2>1, <2>2
<1>4. (IF y.builder = "" THEN g.builder ELSE y.builder) = y.builder
    BY <1>1
<1>5. (IF g.hasBuild THEN ApplyDefaults(y.deps, g.deps) ELSE y.deps) = y.deps
    BY <1>3
<1>6. (IF g.hasBuild /\ y.selectors = <<>> THEN g.selectors ELSE y.selectors) = y.selectors
    BY <1>1
<1> QED
    BY <1>2, <1>4, <1>5, <1>6 DEF PreparedSettings, Settings

LEMMA SameKey ==
    ASSUME NEW x, NEW y, Settings(x) = Settings(y)
    PROVE  BuildKey(x) = BuildKey(y)
BY SettingsFields DEF BuildKey

\* The group whose content Wanted is.
WantedDeps(x, g) ==
    WithDefaults(AsMap(x.deps), IF g.hasBuild THEN AsMap(g.deps) ELSE <<>>)
WantedGroup(x, g) ==
    [x EXCEPT
        !.builder = IF @ = "" THEN g.builder ELSE @,
        !.config = WithDefaults(WithDefaults(@, g.config),
            IF g.builder \in DOMAIN Manifest.builders
            THEN Manifest.builders[g.builder] ELSE <<>>),
        !.selectors = IF @ = <<>> /\ g.hasBuild THEN g.selectors ELSE @,
        !.deps = ListOf(WantedDeps(x, g))]

LEMMA WantedIs ==
    ASSUME NEW i
    PROVE  Wanted(i) = Content(WantedGroup(orig.groups[i], orig.global))
BY DEF Wanted, WantedGroup, WantedDeps, ListOf

LEMMA WantedFields ==
    ASSUME NEW x, NEW g, DOMAIN x = GroupFields, NEW w, w = WantedGroup(x, g)
    PROVE  /\ w.builder = IF x.builder = "" THEN g.builder ELSE x.builder
           /\ w.config = WithDefaults(x.config, GlobalConfig(g))
           /\ w.selectors = IF g.hasBuild /\ x.selectors = <<>> THEN g.selectors
                            ELSE x.selectors
           /\ w.deps = ListOf(WantedDeps(x, g))
<1>1. /\ w.builder = IF x.builder = "" THEN g.builder ELSE x.builder
      /\ w.config = WithDefaults(WithDefaults(x.config, g.config),
            IF g.builder \in DOMAIN Manifest.builders
            THEN Manifest.builders[g.builder] ELSE <<>>)
      /\ w.selectors = IF g.hasBuild /\ x.selectors = <<>> THEN g.selectors ELSE x.selectors
      /\ w.deps = ListOf(WantedDeps(x, g))
    BY DEF WantedGroup, GroupFields
<1>2. w.config = WithDefaults(x.config, GlobalConfig(g))
    <2>1. CASE g.builder \in DOMAIN Manifest.builders
        <3>1. GlobalConfig(g) = WithDefaults(g.config, Manifest.builders[g.builder])
            BY <2>1 DEF GlobalConfig
        <3>2. w.config =
                WithDefaults(WithDefaults(x.config, g.config), Manifest.builders[g.builder])
            BY <2>1, <1>1
        <3>3. PICK a, b, c : /\ a = x.config /\ b = g.config
                             /\ c = Manifest.builders[g.builder]
            OBVIOUS
        <3>4. WithDefaults(WithDefaults(a, b), c) = WithDefaults(a, WithDefaults(b, c))
            BY DefaultsAssociative
        <3> QED
            BY <3>1, <3>2, <3>3, <3>4
    <2>2. CASE g.builder \notin DOMAIN Manifest.builders
        <3>1. GlobalConfig(g) = g.config
            BY <2>2 DEF GlobalConfig
        <3>2. PICK a, b, e : a = x.config /\ b = g.config /\ e = <<>> /\ DOMAIN e = {}
            OBVIOUS
        <3>3. w.config = WithDefaults(WithDefaults(a, b), e)
            BY <2>2, <1>1, <3>2
        <3>4. WithDefaults(WithDefaults(a, b), e) = WithDefaults(a, b)
            BY <3>2, NoDefaults
        <3> QED
            BY <3>1, <3>2, <3>3, <3>4
    <2> QED
        BY <2>1, <2>2
<1> QED
    BY <1>1, <1>2

LEMMA AsMapMod ==
    ASSUME NEW d, IsSequence(d), NEW m \in Mods(d)
    PROVE  AsMap(d)[m].mod = m
BY AsMapLast

WantedMods(x, g) == Mods(x.deps) \cup (IF g.hasBuild THEN Mods(g.deps) ELSE {})

ListsWanted(f, x, g) ==
    /\ DOMAIN f = WantedMods(x, g)
    /\ IsFiniteSet(DOMAIN f)
    /\ \A m \in DOMAIN f : f[m].mod = m
    /\ \A m \in Mods(x.deps) : f[m] = AsMap(x.deps)[m]
    /\ \A m \in DOMAIN f : m \notin Mods(x.deps) => f[m] = AsMap(g.deps)[m]

LEMMA WantedDepsFacts ==
    ASSUME NEW x, NEW g, IsSequence(x.deps), IsSequence(g.deps),
           NEW f, f = WantedDeps(x, g)
    PROVE  ListsWanted(f, x, g)
<1>1. PICK d, e, a, b, c :
        /\ d = x.deps /\ e = g.deps /\ a = AsMap(d)
        /\ c = AsMap(e) /\ b = IF g.hasBuild THEN c ELSE <<>>
    OBVIOUS
<1>2. /\ DOMAIN a = Mods(d) /\ DOMAIN c = Mods(e)
      /\ DOMAIN b = IF g.hasBuild THEN Mods(e) ELSE {}
    BY <1>1, AsMapDomain
<1>3. f = WithDefaults(a, b)
    BY <1>1 DEF WantedDeps
<1>4. /\ DOMAIN f = DOMAIN a \cup DOMAIN b
      /\ \A k \in DOMAIN a : f[k] = a[k]
      /\ \A k \in DOMAIN b : k \notin DOMAIN a => f[k] = b[k]
    BY <1>3 DEF WithDefaults
<1>5. \A m \in DOMAIN b : b[m] = c[m] /\ m \in Mods(e)
    BY <1>1, <1>2
<1>6. /\ \A m \in Mods(d) : a[m].mod = m
      /\ \A m \in Mods(e) : c[m].mod = m
    BY <1>1, AsMapMod
<1>7. IsFiniteSet(DOMAIN f)
    <2>1. IsFiniteSet(Mods(d)) /\ IsFiniteSet(Mods(e))
        BY <1>1, FiniteMods
    <2>2. IsFiniteSet(DOMAIN a) /\ IsFiniteSet(DOMAIN b)
        BY <2>1, <1>2, FS_EmptySet
    <2> QED
        BY <2>2, <1>4, FS_Union
<1>8. DOMAIN f = WantedMods(x, g)
    BY <1>1, <1>2, <1>4 DEF WantedMods
<1> QED
    BY <1>1, <1>2, <1>4, <1>5, <1>6, <1>7, <1>8 DEF ListsWanted

\* What is built from a prepared group is what was asked for.
LEMMA WantedContent ==
    ASSUME NEW x, NEW y, NEW g, DOMAIN x = GroupFields, IsSequence(x.deps),
           IsSequence(g.deps), Settings(y) = PreparedSettings(x, g), y.builder \in Known
    PROVE  ForgetTargets(Content(y)) = ForgetTargets(Content(WantedGroup(x, g)))
<1>1. PICK w : w = WantedGroup(x, g)
    OBVIOUS
<1>2. /\ y.builder = IF x.builder = "" THEN g.builder ELSE x.builder
      /\ y.config = WithDefaults(x.config, GlobalConfig(g))
      /\ y.deps = IF g.hasBuild THEN ApplyDefaults(x.deps, g.deps) ELSE x.deps
      /\ y.selectors = IF g.hasBuild /\ x.selectors = <<>> THEN g.selectors ELSE x.selectors
    BY PreparedIs
<1>3. /\ w.builder = y.builder /\ w.config = y.config /\ w.selectors = y.selectors
      /\ w.deps = ListOf(WantedDeps(x, g))
    <2>1. /\ w.builder = IF x.builder = "" THEN g.builder ELSE x.builder
          /\ w.config = WithDefaults(x.config, GlobalConfig(g))
          /\ w.selectors = IF g.hasBuild /\ x.selectors = <<>> THEN g.selectors
                           ELSE x.selectors
          /\ w.deps = ListOf(WantedDeps(x, g))
        BY <1>1, WantedFields, Zenon
    <2> QED
        BY <2>1, <1>2, Zenon
<1>4. PICK f : f = WantedDeps(x, g)
    OBVIOUS
<1>5. /\ DOMAIN f = WantedMods(x, g)
      /\ IsFiniteSet(DOMAIN f)
      /\ \A m \in DOMAIN f : f[m].mod = m
      /\ \A m \in Mods(x.deps) : f[m] = AsMap(x.deps)[m]
      /\ \A m \in DOMAIN f : m \notin Mods(x.deps) => f[m] = AsMap(g.deps)[m]
    <2>1. ListsWanted(f, x, g)
        BY <1>4, WantedDepsFacts
    <2> QED
        BY <2>1 DEF ListsWanted
<1>6. Mods(w.deps) = DOMAIN f /\ \A m \in DOMAIN f : AsMap(w.deps)[m] = f[m]
    <2>1. PICK s : s = w.deps
        OBVIOUS
    <2>2. s = ListOf(f)
        BY <2>1, <1>3, <1>4
    <2>3. Mods(s) = DOMAIN f /\ \A m \in DOMAIN f : AsMap(s)[m] = f[m]
        BY <2>2, <1>5, ListOfMap
    <2> QED
        BY <2>1, <2>3
<1>7. /\ Mods(y.deps) = DOMAIN f
      /\ \A m \in Mods(y.deps) : AsMap(y.deps)[m].ver = f[m].ver
    <2>1. CASE ~g.hasBuild
        BY <2>1, <1>2, <1>5 DEF WantedMods
    <2>2. CASE g.hasBuild
        <3>1. PICK d, h, e : d = x.deps /\ h = g.deps /\ e = y.deps
            OBVIOUS
        <3>2. e = ApplyDefaults(d, h)
            BY <2>2, <3>1, <1>2
        <3>3. /\ Mods(e) = Mods(d) \cup Mods(h)
              /\ \A m \in Mods(d) : AsMap(e)[m].ver = AsMap(d)[m].ver
              /\ \A m \in Mods(h) : m \notin Mods(d) => AsMap(e)[m].ver = AsMap(h)[m].ver
            BY <3>1, <3>2, AppliedFacts
        <3> QED
            BY <2>2, <3>1, <3>3, <1>5 DEF WantedMods
    <2> QED
        BY <2>1, <2>2
<1>8. ForgetTargets(Content(y)) = ForgetTargets(Content(w))
    BY <1>3, <1>6, <1>7, SameContent
<1> QED
    BY <1>1, <1>8

GlobalAfter(g) == [g EXCEPT !.config = IF @ = <<>> THEN @ ELSE GlobalConfig(g)]

LEMMA GlobalAfterFields ==
    ASSUME NEW g, DOMAIN g = GlobalFields, NEW k, k = GlobalAfter(g)
    PROVE  /\ DOMAIN k = GlobalFields
           /\ \A f \in GlobalFields \ {"config"} : k[f] = g[f]
           /\ k.config = IF g.config = <<>> THEN g.config ELSE GlobalConfig(g)
BY DEF GlobalAfter, GlobalFields

LEMMA GlobalOnce ==
    ASSUME NEW g, NEW h, SameGlobal(g, h), NEW k, k = GlobalAfter(g)
    PROVE  SameGlobal(k, h)
<1>1. /\ DOMAIN g = GlobalFields
      /\ \A f \in GlobalFields \ {"config"} : g[f] = h[f]
      /\ GlobalConfig(g) = GlobalConfig(h)
    BY DEF SameGlobal
<1>2. /\ DOMAIN k = GlobalFields
      /\ \A f \in GlobalFields \ {"config"} : k[f] = g[f]
      /\ k.config = IF g.config = <<>> THEN g.config ELSE GlobalConfig(g)
    BY <1>1, GlobalAfterFields
<1>3. k.builder = g.builder
    BY <1>2 DEF GlobalFields
<1>4. GlobalConfig(k) = GlobalConfig(g)
    <2>1. CASE g.config = <<>> \/ g.builder \notin DOMAIN Manifest.builders
        BY <2>1, <1>2, <1>3 DEF GlobalConfig
    <2>2. CASE g.config # <<>> /\ g.builder \in DOMAIN Manifest.builders
        <3>1. PICK a, b : a = g.config /\ b = Manifest.builders[g.builder]
            OBVIOUS
        <3>2. GlobalConfig(g) = WithDefaults(a, b)
            BY <2>2, <3>1 DEF GlobalConfig
        <3>3. GlobalConfig(k) = WithDefaults(WithDefaults(a, b), b)
            BY <2>2, <3>1, <3>2, <1>2, <1>3 DEF GlobalConfig
        <3> QED
            BY <3>2, <3>3, DefaultsTwice
    <2> QED
        BY <2>1, <2>2
<1> QED
    BY <1>1, <1>2, <1>4 DEF SameGlobal

\* However often a group has been prepared, preparing it gives the same.
LEMMA PreparedAgain ==
    ASSUME NEW x, NEW o, NEW g, NEW h, SameGlobal(g, h), IsSequence(o.deps),
           IsSequence(h.deps),
           Settings(x) = Settings(o) \/ Settings(x) = PreparedSettings(o, h)
    PROVE  PreparedSettings(x, g) = PreparedSettings(o, h)
<1>1. PreparedSettings(x, g) = PreparedSettings(x, h)
    BY SamePrepared
<1>2. CASE Settings(x) = Settings(o)
    BY <1>2, SamePrepared
<1>3. CASE Settings(x) = PreparedSettings(o, h)
    BY <1>1, <1>3, PreparedTwice
<1> QED
    BY <1>2, <1>3

-----------------------------------------------------------------------------
(* The steps *)

LEMMA WantedStable ==
    ASSUME orig' = orig, NEW i
    PROVE  Wanted(i)' = Wanted(i)
BY DEF Wanted

\* What the assumptions say of the composition that was written.
LEMMA OrigFacts ==
    ASSUME PlaceOK
    PROVE  /\ DOMAIN orig = {"global", "groups"} /\ IsSequence(orig.groups)
           /\ DOMAIN orig.global = GlobalFields /\ orig.global.total \in Nat
           /\ IsSequence(orig.global.deps) /\ orig.global.artifact \notin Images
           /\ \A i \in DOMAIN orig.groups :
                 /\ DOMAIN orig.groups[i] = GroupFields
                 /\ orig.groups[i].count \in Nat /\ orig.groups[i].pct \in Nat
                 /\ IsSequence(orig.groups[i].deps) /\ orig.groups[i].artifact \notin Images
BY CompositionAssumption DEF PlaceOK

\* PrepareForBuild on some of the groups.
LEMMA BuildPrepared ==
    ASSUME NEW c, NEW S, CompOK, c = PrepareForBuild(comp, S)
    PROVE  /\ DOMAIN c = {"global", "groups"} /\ SameGlobal(c.global, orig.global)
           /\ DOMAIN c.groups = Idx
           /\ \A i \in Idx : c.groups[i] =
                 IF i \in S THEN PrepareGroup(comp.groups[i], comp.global) ELSE comp.groups[i]
<1>1. /\ DOMAIN c = {"global", "groups"} /\ c.global = GlobalAfter(comp.global)
      /\ DOMAIN c.groups = Idx
      /\ \A i \in Idx : c.groups[i] =
            IF i \in S THEN PrepareGroup(comp.groups[i], comp.global) ELSE comp.groups[i]
    BY DEF PrepareForBuild, GlobalAfter, Idx
<1>2. SameGlobal(comp.global, orig.global)
    BY DEF CompOK
<1>3. PICK g, h, k : g = comp.global /\ h = orig.global /\ k = c.global
    OBVIOUS
<1>4. SameGlobal(k, h)
    BY <1>1, <1>2, <1>3, GlobalOnce
<1> QED
    BY <1>1, <1>3, <1>4

LEMMA Preparing ==
    ASSUME PlaceOK, CompOK, NEW S, comp' = PrepareForBuild(comp, S), orig' = orig,
           content' = content, pc # "run", pc' # "run"
    PROVE  /\ CompOK' /\ Idx' = Idx
           /\ \A i \in Idx : comp'.groups[i].artifact = comp.groups[i].artifact
           /\ \A i \in Idx : i \in S => Prepared(i)'
<1>1. /\ DOMAIN comp' = {"global", "groups"} /\ SameGlobal(comp'.global, orig.global)
      /\ DOMAIN comp'.groups = Idx
      /\ \A i \in Idx : comp'.groups[i] =
            IF i \in S THEN PrepareGroup(comp.groups[i], comp.global) ELSE comp.groups[i]
    BY BuildPrepared
<1>2. Idx' = Idx
    BY <1>1 DEF Idx
<1>3. ASSUME NEW i \in Idx
      PROVE  /\ GroupOK(i)' /\ comp'.groups[i].artifact = comp.groups[i].artifact
             /\ i \in S => Prepared(i)'
    <2>1. PICK x, y, o, g, h : /\ x = comp.groups[i] /\ y = comp'.groups[i]
                               /\ o = orig.groups[i] /\ g = comp.global /\ h = orig.global
        OBVIOUS
    <2>2. GroupOK(i) /\ SameGlobal(g, h) /\ i \in DOMAIN orig.groups
        BY <1>3, <2>1 DEF CompOK, Idx
    <2>3. /\ DOMAIN x = GroupFields /\ x.count = o.count /\ x.pct = o.pct
          /\ x.params = o.params
          /\ Settings(x) = Settings(o) \/ Settings(x) = PreparedSettings(o, h)
          /\ IF x.artifact \in DOMAIN content
             THEN Settings(x) = PreparedSettings(o, h) /\ Fits(x.artifact, i)
             ELSE x.artifact = o.artifact
        BY <2>1, <2>2 DEF GroupOK, Prepared
    <2>4. IsSequence(o.deps) /\ IsSequence(h.deps)
        BY <2>1, <2>2, OrigFacts
    <2>5. PreparedSettings(x, g) = PreparedSettings(o, h)
        BY <2>2, <2>3, <2>4, PreparedAgain
    <2>6. /\ DOMAIN y = GroupFields /\ y.artifact = x.artifact /\ y.params = x.params
          /\ y.count = x.count /\ y.pct = x.pct
          /\ IF i \in S THEN Settings(y) = PreparedSettings(o, h) ELSE y = x
        <3>1. CASE i \in S
            <4>1. y = PrepareGroup(x, g)
                BY <1>1, <1>3, <2>1, <3>1
            <4> QED
                BY <4>1, <3>1, <2>3, <2>5, PreparedFields
        <3>2. CASE i \notin S
            BY <1>1, <1>3, <2>1, <2>3, <3>2
        <3> QED
            BY <3>1, <3>2
    <2>7. Fits(x.artifact, i)' <=> Fits(x.artifact, i)
        BY WantedStable DEF Fits
    <2>8. Prepared(i)' <=> Settings(y) = PreparedSettings(o, h)
        BY <2>1 DEF Prepared
    <2> QED
        BY <2>1, <2>3, <2>6, <2>7, <2>8 DEF GroupOK
<1> QED
    BY <1>1, <1>2, <1>3 DEF CompOK, Idx

\* A step that leaves the composition alone and forgets no content.
LEMMA CompKept ==
    ASSUME PlaceOK, CompOK, orig' = orig, comp' = comp, pc' # "run" => pc # "run",
           DOMAIN content \subseteq DOMAIN content', DOMAIN content' \subseteq Images,
           \A a \in DOMAIN content : content'[a] = content[a]
    PROVE  CompOK' /\ Idx' = Idx
<1>1. Idx' = Idx
    BY DEF Idx
<1>2. ASSUME NEW i \in Idx
      PROVE  GroupOK(i)'
    <2>1. PICK x, o, h : x = comp.groups[i] /\ o = orig.groups[i] /\ h = orig.global
        OBVIOUS
    <2>2. GroupOK(i) /\ i \in DOMAIN orig.groups
        BY <1>2 DEF CompOK, Idx
    <2>3. o.artifact \notin DOMAIN content'
        BY <2>1, <2>2, OrigFacts
    <2>4. Prepared(i)' <=> Prepared(i)
        BY DEF Prepared
    <2>5. Fits(x.artifact, i) => Fits(x.artifact, i)'
        BY WantedStable DEF Fits
    <2> QED
        BY <2>1, <2>2, <2>3, <2>4, <2>5 DEF GroupOK
<1> QED
    BY <1>1, <1>2 DEF CompOK

LEMMA IdxFacts ==
    ASSUME PlaceOK, CompOK
    PROVE  IsFiniteSet(Idx) /\ Idx \subseteq Int
<1>1. PICK s : s = orig.groups
    OBVIOUS
<1>2. IsSequence(s)
    BY <1>1, OrigFacts
<1>3. Idx = DOMAIN s
    BY <1>1 DEF CompOK, Idx
<1> QED
    BY <1>2, <1>3, SeqFacts

LEMMA NoRun ==
    ASSUME pc' # "run"
    PROVE  ArtifactFits' /\ InputFits' /\ PrepareOnce'
BY DEF ArtifactFits, InputFits, PrepareOnce

LEMMA NoJobs ==
    ASSUME jobs' = <<>>, pc' # "jobs"
    PROVE  JobsOK'
BY DEF JobsOK

LEMMA InitStep == Init => IInv
<1> SUFFICES ASSUME Init PROVE IInv
    OBVIOUS
<1>1. /\ comp \in Compositions /\ orig = comp /\ pc = "client" /\ pick = <<>>
      /\ jobs = <<>> /\ content = <<>> /\ DOMAIN content = {} /\ DOMAIN pick = {}
      /\ DOMAIN jobs = {}
    BY DEF Init
<1>2. PlaceOK
    BY <1>1 DEF Init, PlaceOK
<1>3. CompOK
    <2>1. SameGlobal(comp.global, orig.global)
        BY <1>1, <1>2, OrigFacts DEF SameGlobal
    <2>2. ASSUME NEW i \in Idx
          PROVE  GroupOK(i)
        BY <1>1, <1>2, <2>2, OrigFacts DEF GroupOK, Idx
    <2> QED
        BY <1>1, <1>2, <2>1, <2>2, OrigFacts DEF CompOK
<1>4. PickOK
    BY <1>1, FS_EmptySet DEF PickOK
<1>5. PickedOK /\ JobsOK
    BY <1>1 DEF PickedOK, JobsOK
<1>6. ArtifactFits /\ InputFits /\ PrepareOnce
    BY <1>1 DEF ArtifactFits, InputFits, PrepareOnce
<1> QED
    BY <1>2, <1>3, <1>4, <1>5, <1>6 DEF IInv

LEMMA ClientBuildStep ==
    ASSUME IInv, ClientBuild
    PROVE  IInv'
<1>1. PlaceOK /\ CompOK /\ PickOK /\ jobs = <<>>
    BY DEF IInv, JobsOK, ClientBuild
<1>2. /\ orig' = orig /\ kind' = kind /\ ignore' = ignore /\ cache' = cache
      /\ content' = content /\ jobs' = jobs /\ pc = "client" /\ kind = "build"
      /\ pc' \in {"doBuild", "rejected"} /\ pick' = [i \in Idx |-> i]
    BY DEF ClientBuild, Go
<1>3. comp' = PrepareForBuild(comp, Idx) \/ comp' = comp
    BY DEF ClientBuild
<1>4. CompOK' /\ Idx' = Idx
    <2>1. CASE comp' = PrepareForBuild(comp, Idx)
        <3>1. PICK S : S = Idx
            OBVIOUS
        <3> QED
            BY <2>1, <3>1, <1>1, <1>2, Preparing
    <2>2. CASE comp' = comp
        <3>1. DOMAIN content \subseteq Images
            BY <1>1 DEF PlaceOK
        <3> QED
            BY <2>2, <3>1, <1>1, <1>2, CompKept
    <2> QED
        BY <1>3, <2>1, <2>2
<1>5. PlaceOK'
    BY <1>1, <1>2 DEF PlaceOK, Over
<1>6. PickOK'
    BY <1>1, <1>2, <1>4, IdxFacts DEF PickOK
<1>7. PickedOK'
    BY <1>2 DEF PickedOK
<1>8. JobsOK'
    BY <1>1, <1>2, NoJobs
<1> QED
    BY <1>2, <1>4, <1>5, <1>6, <1>7, <1>8, NoRun DEF IInv

LEMMA ClientRunStep ==
    ASSUME IInv, ClientRun
    PROVE  IInv'
<1> DEFINE S == {i \in Idx : comp.groups[i].artifact = "" \/ ignore}
<1>1. PlaceOK /\ CompOK /\ PickOK /\ jobs = <<>> /\ DOMAIN content \subseteq Images
    BY DEF IInv, JobsOK, ClientRun, PlaceOK
<1>2. /\ orig' = orig /\ kind' = kind /\ ignore' = ignore /\ cache' = cache
      /\ content' = content /\ jobs' = jobs /\ comp' = comp /\ pc = "client"
      /\ pc' \in {"queue", "rejected"} /\ kind = "run" /\ pick' = Sorted(S)
    BY DEF ClientRun, Go
<1>3. CompOK' /\ Idx' = Idx
    BY <1>1, <1>2, CompKept
<1>4. PlaceOK'
    BY <1>1, <1>2 DEF PlaceOK, Over
<1>5. IsFiniteSet(S) /\ S \subseteq Int /\ S \subseteq Idx
    BY <1>1, IdxFacts, FS_Subset
<1>6. \A i \in Idx : comp.groups[i].artifact = "" => i \in S
    OBVIOUS
<1> HIDE DEF S
<1>7. PICK n \in Nat : n = Cardinality(S)
    BY <1>5, FS_CardinalityType
<1>8. /\ DOMAIN pick' = 1..n /\ \A p \in 1..n : pick'[p] \in S
      /\ \A i \in S : \E p \in 1..n : pick'[p] = i
    BY <1>2, <1>5, <1>7, SortedFacts
<1>9. PickOK'
    <2>1. IsFiniteSet(1..n) /\ 1..n \subseteq Int
        BY FS_Interval
    <2> QED
        BY <2>1, <1>3, <1>5, <1>8 DEF PickOK
<1>10. PickedOK'
    BY <1>2, <1>3, <1>6, <1>8 DEF PickedOK, Picked
<1>11. JobsOK'
    BY <1>1, <1>2, NoJobs
<1> QED
    BY <1>2, <1>3, <1>4, <1>9, <1>10, <1>11, NoRun DEF IInv

LEMMA QueueRunStep ==
    ASSUME IInv, QueueRun
    PROVE  IInv'
<1>1. /\ PlaceOK /\ CompOK /\ PickOK /\ PickedOK /\ JobsOK
      /\ DOMAIN content \subseteq Images /\ pc = "queue" /\ kind = "run"
    BY DEF IInv, PlaceOK, QueueRun
<1>2. /\ orig' = orig /\ kind' = kind /\ ignore' = ignore /\ cache' = cache
      /\ content' = content /\ jobs' = jobs /\ comp' = comp /\ pick' = pick
      /\ pc' \in {"prepareRun", "doBuild", "rejected"}
      /\ pc' = "prepareRun" => pick = <<>>
    BY DEF QueueRun, Go
<1>3. CompOK' /\ Idx' = Idx
    BY <1>1, <1>2, CompKept
<1>4. PlaceOK' /\ PickOK'
    BY <1>1, <1>2, <1>3 DEF PlaceOK, Over, PickOK
<1>5. PickedOK'
    <2>1. \A i \in Idx : comp.groups[i].artifact = "" => Picked(i)
        BY <1>1 DEF PickedOK
    <2>2. pc' = "prepareRun" => \A i : ~Picked(i)
        BY <1>2 DEF Picked
    <2>3. \A i : Picked(i)' <=> Picked(i)
        BY <1>2 DEF Picked
    <2> QED
        BY <2>1, <2>2, <2>3, <1>2, <1>3 DEF PickedOK
<1>6. JobsOK'
    BY <1>1, <1>2 DEF JobsOK, JobShape
<1> QED
    BY <1>2, <1>3, <1>4, <1>5, <1>6, NoRun DEF IInv

\* The jobs have the positions of pick between them, one job per build key.
JobsMade(js, c) ==
    /\ \A j \in DOMAIN js :
          /\ DOMAIN js[j] = {"at", "src", "pc", "base"} /\ js[j].pc = "setup"
          /\ js[j].at # {} /\ js[j].at \subseteq DOMAIN pick /\ IsFiniteSet(js[j].at)
          /\ \A p, q \in js[j].at :
                BuildKey(c.groups[pick[p]]) = BuildKey(c.groups[pick[q]])
    /\ \A p \in DOMAIN pick : \E j \in DOMAIN js : p \in js[j].at

LEMMA JobsFacts ==
    ASSUME IsFiniteSet(DOMAIN pick), NEW c, NEW js, js = Jobs(c)
    PROVE  JobsMade(js, c)
<1> DEFINE f == [p \in DOMAIN pick |-> BuildKey(c.groups[pick[p]])]
           K == {BuildKey(c.groups[pick[p]]) : p \in DOMAIN pick}
<1>1. f \in Surjection(DOMAIN pick, K)
    BY DEF Surjection
<1>2. IsFiniteSet(K)
    BY <1>1, FS_Surjection, Zenon
<1>3. PICK keys : keys = SetToSeq(K)
    OBVIOUS
<1>4. PICK n \in Nat : n = Cardinality(K)
    BY <1>2, FS_CardinalityType
<1>5. PICK KK : KK = K
    OBVIOUS
<1>6. /\ keys \in [1..n -> KK]
      /\ \A x \in KK : \E i \in 1..n : keys[i] = x
    <2>1. IsFiniteSet(KK) /\ keys = SetToSeq(KK) /\ n = Cardinality(KK)
        BY <1>2, <1>3, <1>4, <1>5
    <2> HIDE DEF f, K
    <2> QED
        BY <2>1, SetToSeqFacts
<1>7. js = [j \in DOMAIN keys |->
            [at |-> {p \in DOMAIN pick : BuildKey(c.groups[pick[p]]) = keys[j]},
             src |-> IF Len(keys) = 1 THEN 0 ELSE j,
             pc |-> "setup", base |-> "default"]]
    BY <1>3 DEF Jobs
<1>8. ASSUME NEW j \in DOMAIN js
      PROVE  /\ DOMAIN js[j] = {"at", "src", "pc", "base"} /\ js[j].pc = "setup"
             /\ js[j].at = {p \in DOMAIN pick : BuildKey(c.groups[pick[p]]) = keys[j]}
             /\ js[j].at # {}
    <2>1. j \in 1..n
        BY <1>6, <1>7
    <2>2. PICK p \in DOMAIN pick : keys[j] = BuildKey(c.groups[pick[p]])
        BY <1>5, <1>6, <2>1
    <2> QED
        BY <1>7, <2>2
<1>9. ASSUME NEW p \in DOMAIN pick
      PROVE  \E j \in DOMAIN js : p \in js[j].at
    <2>1. PICK j \in 1..n : keys[j] = BuildKey(c.groups[pick[p]])
        BY <1>5, <1>6
    <2> QED
        BY <2>1, <1>6, <1>7
<1>10. ASSUME NEW j \in DOMAIN js
       PROVE  IsFiniteSet(js[j].at)
    BY <1>8, FS_Subset
<1> QED
    BY <1>8, <1>9, <1>10 DEF JobsMade

LEMMA PreparedSequence ==
    ASSUME NEW x, NEW y, NEW g, IsSequence(x.deps), IsSequence(g.deps),
           Settings(y) = PreparedSettings(x, g)
    PROVE  IsSequence(y.deps)
<1>1. y.deps = IF g.hasBuild THEN ApplyDefaults(x.deps, g.deps) ELSE x.deps
    BY PreparedIs
<1>2. PICK d, h, e : d = x.deps /\ h = g.deps /\ e = y.deps
    OBVIOUS
<1>3. e = ApplyDefaults(d, h) => IsSequence(e)
    BY <1>2, AppliedFacts
<1> QED
    BY <1>1, <1>2, <1>3

\* Two prepared groups with the same key were asked to have the same content.
LEMMA KeyWanted ==
    ASSUME PlaceOK, NEW a \in DOMAIN orig.groups, NEW b \in DOMAIN orig.groups,
           NEW y, NEW z, Settings(y) = PreparedSettings(orig.groups[a], orig.global),
           Settings(z) = PreparedSettings(orig.groups[b], orig.global),
           y.builder \in Known, z.builder \in Known, BuildKey(y) = BuildKey(z)
    PROVE  ForgetTargets(Content(y)) = ForgetTargets(Wanted(b))
<1>1. PICK x, o, g : x = orig.groups[a] /\ o = orig.groups[b] /\ g = orig.global
    OBVIOUS
<1>2. /\ IsSequence(x.deps) /\ IsSequence(o.deps) /\ IsSequence(g.deps)
      /\ DOMAIN o = GroupFields
    BY <1>1, OrigFacts
<1>3. IsSequence(y.deps) /\ IsSequence(z.deps)
    BY <1>1, <1>2, PreparedSequence
<1>4. ForgetTargets(Content(y)) = ForgetTargets(Content(z))
    BY <1>3, KeyContent
<1>5. ForgetTargets(Content(z)) = ForgetTargets(Content(WantedGroup(o, g)))
    BY <1>1, <1>2, WantedContent
<1>6. Wanted(b) = Content(WantedGroup(o, g))
    BY <1>1, WantedIs
<1> QED
    BY <1>4, <1>5, <1>6

LEMMA DoBuildStep ==
    ASSUME IInv, DoBuild
    PROVE  IInv'
<1>1. /\ PlaceOK /\ CompOK /\ PickOK /\ PickedOK /\ JobsOK
      /\ DOMAIN content \subseteq Images /\ pc = "doBuild"
    BY DEF IInv, PlaceOK, DoBuild
<1>2. PICK S : S = ToSet(pick)
    OBVIOUS
<1>3. \A i : i \in S <=> \E p \in DOMAIN pick : pick[p] = i
    BY <1>2 DEF ToSet, Range
<1>4. /\ orig' = orig /\ kind' = kind /\ ignore' = ignore /\ cache' = cache
      /\ content' = content /\ pick' = pick /\ comp' = PrepareForBuild(comp, S)
      /\ \/ BuildersSupported(comp, S) /\ jobs' = Jobs(comp') /\ pc' = "jobs"
         \/ pc' = "failed" /\ jobs' = jobs
    BY <1>2 DEF DoBuild, Go
<1>5. pc' # "run" /\ pc # "run"
    BY <1>1, <1>4
<1>6. /\ CompOK' /\ Idx' = Idx
      /\ \A i \in Idx : comp'.groups[i].artifact = comp.groups[i].artifact
      /\ \A i \in Idx : i \in S => Prepared(i)'
    BY <1>1, <1>4, <1>5, Preparing
<1>7. PlaceOK' /\ PickOK'
    BY <1>1, <1>4, <1>6 DEF PlaceOK, Over, PickOK
<1>8. PickedOK'
    <2>1. \A i : Picked(i)' <=> Picked(i)
        BY <1>4 DEF Picked
    <2> QED
        BY <2>1, <1>1, <1>4, <1>6 DEF PickedOK
<1>9. JobsOK'
    <2>1. CASE pc' = "failed" /\ jobs' = jobs
        BY <2>1, <1>1, <1>4 DEF JobsOK, JobShape
    <2>2. CASE BuildersSupported(comp, S) /\ jobs' = Jobs(comp') /\ pc' = "jobs"
        <3>1. PICK c, js : c = comp' /\ js = jobs'
            OBVIOUS
        <3>2. JobsMade(js, c)
            <4>1. IsFiniteSet(DOMAIN pick) /\ js = Jobs(c)
                BY <1>1, <2>2, <3>1 DEF PickOK
            <4> QED
                BY <4>1, JobsFacts
        <3>3. ASSUME NEW p \in DOMAIN pick
              PROVE  /\ pick[p] \in Idx /\ pick[p] \in DOMAIN orig.groups
                     /\ Settings(c.groups[pick[p]]) =
                            PreparedSettings(orig.groups[pick[p]], orig.global)
                     /\ c.groups[pick[p]].builder \in Known
            <4>1. PICK i : i = pick[p]
                OBVIOUS
            <4>2. i \in Idx /\ i \in S /\ i \in DOMAIN orig.groups
                BY <3>3, <4>1, <1>1, <1>3 DEF PickOK, CompOK, Idx
            <4>3. Prepared(i)'
                BY <4>2, <1>6
            <4>4. Settings(c.groups[i]) = PreparedSettings(orig.groups[i], orig.global)
                BY <4>3, <3>1, <1>4 DEF Prepared
            <4>5. c.groups[i] = PrepareGroup(comp.groups[i], comp.global)
                BY <4>2, <3>1, <1>1, <1>4, BuildPrepared
            <4>6. c.groups[i].builder \in DOMAIN Manifest.builders
                BY <4>2, <4>5, <2>2 DEF BuildersSupported
            <4> QED
                BY <4>1, <4>2, <4>4, <4>6, ManifestAssumption DEF Known
        <3>4. ASSUME NEW j \in DOMAIN js
              PROVE  JobShape(j)' /\ JobBuilds(j)'
            <4>1. PICK at : at = js[j].at
                OBVIOUS
            <4>2. /\ at # {} /\ at \subseteq DOMAIN pick /\ IsFiniteSet(at)
                  /\ \A p, q \in at :
                        BuildKey(c.groups[pick[p]]) = BuildKey(c.groups[pick[q]])
                  /\ js[j].pc = "setup" /\ DOMAIN js[j] = {"at", "src", "pc", "base"}
                BY <3>2, <3>4, <4>1 DEF JobsMade
            <4>3. at \subseteq Int
                BY <4>2, <1>1 DEF PickOK
            <4>4. PICK m \in at : m = Min(at)
                BY <4>2, <4>3, MinFacts
            <4>5. GroupOf(j)' = c.groups[pick[m]]
                BY <3>1, <4>1, <4>4, <1>4 DEF GroupOf
            <4>6. ASSUME NEW p \in at
                  PROVE  ForgetTargets(Content(c.groups[pick[m]])) =
                            ForgetTargets(Wanted(pick[p]))
                <5>1. m \in DOMAIN pick /\ p \in DOMAIN pick
                    BY <4>2
                <5>2. PICK a, b, y, z : /\ a = pick[m] /\ b = pick[p]
                                        /\ y = c.groups[a] /\ z = c.groups[b]
                    OBVIOUS
                <5>3. /\ a \in DOMAIN orig.groups /\ b \in DOMAIN orig.groups
                      /\ Settings(y) = PreparedSettings(orig.groups[a], orig.global)
                      /\ Settings(z) = PreparedSettings(orig.groups[b], orig.global)
                      /\ y.builder \in Known /\ z.builder \in Known
                    BY <5>1, <5>2, <3>3
                <5>4. BuildKey(y) = BuildKey(z)
                    BY <4>2, <5>2
                <5>5. ForgetTargets(Content(y)) = ForgetTargets(Wanted(b))
                    BY <5>3, <5>4, <1>1, KeyWanted
                <5> QED
                    BY <5>2, <5>5
            <4>7. JobShape(j)'
                BY <3>1, <4>1, <4>2, <1>4 DEF JobShape
            <4>8. JobBuilds(j)'
                <5>1. \A i : Wanted(i)' = Wanted(i)
                    BY <1>4, WantedStable
                <5>2. jobs'[j].at = at /\ jobs'[j].pc = "setup"
                    BY <3>1, <4>1, <4>2
                <5>3. ASSUME NEW p \in at
                      PROVE  ForgetTargets(Content(GroupOf(j)))' =
                                ForgetTargets(Wanted(pick[p]))'
                    <6>1. PICK y, b : y = GroupOf(j)' /\ b = pick[p]
                        OBVIOUS
                    <6>2. /\ Content(GroupOf(j))' = Content(y)
                          /\ ForgetTargets(Content(GroupOf(j)))' = ForgetTargets(Content(y))
                        BY <6>1 DEF Content, ForgetTargets, DockerGo, ExecGo, DockerNode,
                                    DockerGeneric
                    <6> QED
                        BY <6>1, <6>2, <5>1, <4>5, <4>6, <5>3, <1>4
                <5> QED
                    BY <5>2, <5>3, <1>4 DEF JobBuilds
            <4> QED
                BY <4>7, <4>8
        <3> QED
            BY <3>1, <3>2, <3>3, <3>4, <2>2, <1>4 DEF JobsOK, JobsMade, Prepared
    <2> QED
        BY <1>4, <2>1, <2>2
<1> QED
    BY <1>5, <1>6, <1>7, <1>8, <1>9, NoRun DEF IInv

\* A step of job j leaves it as q.
Moved(j, q) ==
    /\ DOMAIN jobs' = DOMAIN jobs /\ jobs'[j] = q
    /\ \A k \in DOMAIN jobs : k # j => jobs'[k] = jobs[k]
    /\ DOMAIN q = {"at", "src", "pc", "base"} /\ q.at = jobs[j].at

ContentKept ==
    /\ DOMAIN content \subseteq DOMAIN content' /\ DOMAIN content' \subseteq Images
    /\ \A a \in DOMAIN content : content'[a] = content[a]

LEMMA JobMoved ==
    ASSUME IInv, NEW j \in DOMAIN jobs, pc = "jobs", JobRest, NEW q, Moved(j, q),
           q.pc \in {"setup", "cache", "build", "untag", "tag", "image", "done", "failed"},
           q.pc = "done" => \A p \in q.at :
                /\ q.base \in DOMAIN content'
                /\ ForgetTargets(content'[q.base]) = ForgetTargets(Wanted(pick[p])),
           cache' \in BOOLEAN, ContentKept
    PROVE  IInv'
<1>1. PlaceOK /\ CompOK /\ PickOK /\ PickedOK /\ JobsOK
    BY DEF IInv
<1>2. /\ orig' = orig /\ comp' = comp /\ kind' = kind /\ ignore' = ignore
      /\ pc' = pc /\ pick' = pick
    BY DEF JobRest
<1>3. CompOK' /\ Idx' = Idx
    BY <1>1, <1>2, CompKept DEF ContentKept
<1>4. PlaceOK' /\ PickOK'
    BY <1>1, <1>2, <1>3 DEF PlaceOK, PickOK, ContentKept
<1>5. PickedOK'
    <2>1. \A i : Picked(i)' <=> Picked(i)
        BY <1>2 DEF Picked
    <2> QED
        BY <2>1, <1>1, <1>2, <1>3 DEF PickedOK
<1>6. ASSUME NEW k \in DOMAIN jobs
      PROVE  JobShape(k)' /\ JobBuilds(k)'
    <2>1. JobShape(k) /\ JobBuilds(k)
        BY <1>1, <1>6 DEF JobsOK
    <2>2. /\ jobs'[k].at = jobs[k].at
          /\ k # j => jobs'[k] = jobs[k]
          /\ k = j => jobs'[k] = q
        BY <1>6 DEF Moved
    <2>3. JobShape(k)'
        BY <2>1, <2>2, <1>2 DEF JobShape, Moved
    <2>4. \A i : Wanted(i)' = Wanted(i)
        BY <1>2, WantedStable
    <2>5. ASSUME NEW p \in jobs[k].at
          PROVE  /\ ForgetTargets(Content(GroupOf(k)))' = ForgetTargets(Wanted(pick[p]))
                 /\ jobs'[k].pc = "done" => /\ jobs'[k].base \in DOMAIN content'
                                            /\ ForgetTargets(content'[jobs'[k].base]) =
                                                  ForgetTargets(Wanted(pick[p]))
        <3>1. /\ ForgetTargets(Content(GroupOf(k))) = ForgetTargets(Wanted(pick[p]))
              /\ jobs[k].pc = "done" => Fits(jobs[k].base, pick[p])
            BY <2>1, <2>5 DEF JobBuilds
        <3>2. GroupOf(k)' = GroupOf(k)
            BY <1>2, <2>2 DEF GroupOf
        <3>3. ForgetTargets(Content(GroupOf(k)))' = ForgetTargets(Content(GroupOf(k)))
            <4>1. PICK y : y = GroupOf(k)
                OBVIOUS
            <4>2. ForgetTargets(Content(GroupOf(k)))' = ForgetTargets(Content(y))
                BY <4>1, <3>2 DEF Content, ForgetTargets, DockerGo, ExecGo, DockerNode,
                                  DockerGeneric
            <4> QED
                BY <4>1, <4>2
        <3>4. CASE k = j
            BY <3>1, <3>3, <3>4, <2>2, <2>5 DEF Moved
        <3>5. CASE k # j
            BY <3>1, <3>3, <3>5, <2>2 DEF Fits, ContentKept
        <3> QED
            BY <3>4, <3>5
    <2>6. JobBuilds(k)'
        BY <2>2, <2>4, <2>5, <1>2 DEF JobBuilds, Fits
    <2> QED
        BY <2>3, <2>6
<1>7. \A p \in DOMAIN pick : Prepared(pick[p])' /\ \E k \in DOMAIN jobs' : p \in jobs'[k].at
    <2>1. \A k \in DOMAIN jobs : jobs'[k].at = jobs[k].at
        BY DEF Moved
    <2> QED
        BY <2>1, <1>1, <1>2 DEF JobsOK, Prepared, Moved
<1>8. JobsOK'
    BY <1>2, <1>6, <1>7 DEF JobsOK, Moved
<1>9. ArtifactFits' /\ InputFits' /\ PrepareOnce'
    BY <1>2, NoRun
<1> QED
    BY <1>3, <1>4, <1>5, <1>8, <1>9 DEF IInv

\* A step of a job that only goes on or fails.
LEMMA JobWent ==
    ASSUME IInv, NEW j \in DOMAIN jobs, pc = "jobs", JobRest, NEW to, JobTo(j, to),
           to \in {"setup", "cache", "build", "untag", "tag", "image", "failed"},
           cache' \in BOOLEAN, content' = content
    PROVE  IInv'
<1>1. JobShape(j) /\ DOMAIN content \subseteq Images
    BY DEF IInv, JobsOK, PlaceOK
<1>2. PICK q : q = [jobs[j] EXCEPT !.pc = to]
    OBVIOUS
<1>3. /\ DOMAIN q = {"at", "src", "pc", "base"} /\ q.at = jobs[j].at /\ q.pc = to
    BY <1>1, <1>2 DEF JobShape
<1>4. Moved(j, q)
    BY <1>2, <1>3 DEF Moved, JobTo
<1>5. ContentKept
    BY <1>1 DEF ContentKept
<1> QED
    BY <1>3, <1>4, <1>5, JobMoved

LEMMA JobFound ==
    ASSUME IInv, NEW j \in DOMAIN jobs, pc = "jobs", JobRest, NEW b,
           jobs' = [jobs EXCEPT ![j].base = b, ![j].pc = "build"],
           cache' \in BOOLEAN, content' = content
    PROVE  IInv'
<1>1. JobShape(j) /\ DOMAIN content \subseteq Images
    BY DEF IInv, JobsOK, PlaceOK
<1>2. PICK q : q = [jobs[j] EXCEPT !.base = b, !.pc = "build"]
    OBVIOUS
<1>3. /\ DOMAIN q = {"at", "src", "pc", "base"} /\ q.at = jobs[j].at /\ q.pc = "build"
    BY <1>1, <1>2 DEF JobShape
<1>4. Moved(j, q)
    BY <1>2, <1>3 DEF Moved
<1>5. ContentKept
    BY <1>1 DEF ContentKept
<1> QED
    BY <1>3, <1>4, <1>5, JobMoved

\* The image has a new ID, and its content is the job's.
LEMMA JobImaged ==
    ASSUME IInv, NEW j \in DOMAIN jobs, pc = "jobs", JobRest, NEW art \in Images,
           art \notin DOMAIN content, cache' = cache,
           jobs' = [jobs EXCEPT ![j].pc = "done", ![j].base = art],
           content' = [a \in DOMAIN content \cup {art} |->
                        IF a = art THEN Content(GroupOf(j)) ELSE content[a]]
    PROVE  IInv'
<1>1. /\ JobShape(j) /\ JobBuilds(j) /\ DOMAIN content \subseteq Images /\ cache \in BOOLEAN
    BY DEF IInv, JobsOK, PlaceOK
<1>2. PICK q : q = [jobs[j] EXCEPT !.pc = "done", !.base = art]
    OBVIOUS
<1>3. /\ DOMAIN q = {"at", "src", "pc", "base"} /\ q.at = jobs[j].at /\ q.pc = "done"
      /\ q.base = art
    BY <1>1, <1>2 DEF JobShape
<1>4. Moved(j, q)
    BY <1>2, <1>3 DEF Moved
<1>5. ContentKept /\ art \in DOMAIN content' /\ content'[art] = Content(GroupOf(j))
    BY <1>1 DEF ContentKept
<1>6. \A p \in q.at : /\ q.base \in DOMAIN content'
                      /\ ForgetTargets(content'[q.base]) = ForgetTargets(Wanted(pick[p]))
    BY <1>1, <1>3, <1>5 DEF JobBuilds
<1> QED
    BY <1>1, <1>3, <1>4, <1>5, <1>6, JobMoved

LEMMA JobStepStep ==
    ASSUME IInv, NEW j \in DOMAIN jobs, JobStep(j)
    PROVE  IInv'
<1>1. cache \in BOOLEAN
    BY DEF IInv, PlaceOK
<1>2. CASE JobSetup(j)
    BY <1>1, <1>2, JobWent DEF JobSetup, JobAt
<1>3. CASE JobFindCache(j)
    <2>1. PICK b : b = IF cache THEN "cache" ELSE "default"
        OBVIOUS
    <2>2. pc = "jobs" /\ JobRest /\ cache' \in BOOLEAN /\ content' = content
        BY <1>1, <1>3 DEF JobFindCache, JobAt
    <2>3. \/ jobs' = [jobs EXCEPT ![j].base = b, ![j].pc = "build"]
          \/ JobTo(j, "failed")
        BY <1>3, <2>1 DEF JobFindCache
    <2> QED
        BY <2>2, <2>3, JobFound, JobWent
<1>4. CASE JobBuild(j)
    BY <1>1, <1>4, JobWent DEF JobBuild, JobAt
<1>5. CASE JobUntag(j)
    BY <1>1, <1>5, JobWent DEF JobUntag, JobAt
<1>6. CASE JobTag(j)
    BY <1>1, <1>6, JobWent DEF JobTag, JobAt
<1>7. CASE JobImage(j)
    <2>1. PICK art : art = CHOOSE a \in Images : a \notin DOMAIN content
        OBVIOUS
    <2>2. pc = "jobs" /\ JobRest /\ cache' = cache
        BY <1>7 DEF JobImage, JobAt
    <2>3. \/ /\ ~(Images \subseteq DOMAIN content)
             /\ jobs' = [jobs EXCEPT ![j].pc = "done", ![j].base = art]
             /\ content' = [a \in DOMAIN content \cup {art} |->
                            IF a = art THEN Content(GroupOf(j)) ELSE content[a]]
          \/ JobTo(j, "failed") /\ content' = content
        BY <1>7, <2>1 DEF JobImage
    <2>4. ~(Images \subseteq DOMAIN content) => art \in Images /\ art \notin DOMAIN content
        BY <2>1
    <2>5. CASE ~(Images \subseteq DOMAIN content)
               /\ jobs' = [jobs EXCEPT ![j].pc = "done", ![j].base = art]
               /\ content' = [a \in DOMAIN content \cup {art} |->
                              IF a = art THEN Content(GroupOf(j)) ELSE content[a]]
        BY <2>2, <2>4, <2>5, JobImaged
    <2>6. CASE JobTo(j, "failed") /\ content' = content
        BY <1>1, <2>2, <2>6, JobWent
    <2> QED
        BY <2>3, <2>5, <2>6
<1> QED
    BY <1>2, <1>3, <1>4, <1>5, <1>6, <1>7 DEF JobStep

\* A group that has been built gets the artifact its job has made.
LEMMA BuildWaitStep ==
    ASSUME IInv, BuildWait
    PROVE  IInv'
<1>1. /\ PlaceOK /\ CompOK /\ PickOK /\ PickedOK /\ JobsOK
      /\ DOMAIN content \subseteq Images /\ pc = "jobs"
    BY DEF IInv, PlaceOK, BuildWait
<1>2. /\ orig' = orig /\ kind' = kind /\ ignore' = ignore /\ cache' = cache
      /\ content' = content /\ pick' = pick /\ jobs' = jobs
    BY DEF BuildWait
<1>3. JobsOK' \/ pc' \in {"client", "jobs"}
    BY <1>1, <1>2 DEF JobsOK, JobShape
<1>4. CASE pc' = "failed" /\ comp' = comp
    <2>1. CompOK' /\ Idx' = Idx
        BY <1>1, <1>2, <1>4, CompKept
    <2>2. PlaceOK' /\ PickOK' /\ PickedOK'
        BY <1>1, <1>2, <1>4, <2>1 DEF PlaceOK, Over, PickOK, PickedOK
    <2> QED
        BY <1>3, <1>4, <2>1, <2>2, NoRun DEF IInv
<1>5. CASE /\ JobsSucceeded /\ pc' = (IF kind = "run" THEN "prepareRun" ELSE "built")
           /\ comp' = [comp EXCEPT !.groups = [i \in Idx |->
                [comp.groups[i] EXCEPT !.artifact =
                    IF \E p \in DOMAIN pick : pick[p] = i
                    THEN Result(CHOOSE p \in DOMAIN pick : pick[p] = i) ELSE @]]]
    <2>1. /\ DOMAIN comp' = {"global", "groups"} /\ comp'.global = comp.global
          /\ DOMAIN comp'.groups = Idx /\ Idx' = Idx
          /\ \A i \in Idx : comp'.groups[i] = [comp.groups[i] EXCEPT !.artifact =
                    IF \E p \in DOMAIN pick : pick[p] = i
                    THEN Result(CHOOSE p \in DOMAIN pick : pick[p] = i) ELSE @]
        BY <1>1, <1>5 DEF CompOK, Idx
    <2>2. ASSUME NEW i \in Idx
          PROVE  /\ GroupOK(i)'
                 /\ kind = "run" => comp'.groups[i].artifact # ""
        <3>1. PICK x, y, o, h : /\ x = comp.groups[i] /\ y = comp'.groups[i]
                                /\ o = orig.groups[i] /\ h = orig.global
            OBVIOUS
        <3>2. GroupOK(i)
            BY <1>1 DEF CompOK
        <3>3. /\ DOMAIN y = GroupFields /\ y.count = x.count /\ y.pct = x.pct
              /\ y.params = x.params /\ Settings(y) = Settings(x)
              /\ y.artifact = IF \E p \in DOMAIN pick : pick[p] = i
                    THEN Result(CHOOSE p \in DOMAIN pick : pick[p] = i) ELSE x.artifact
            <4>1. PICK a : a = IF \E p \in DOMAIN pick : pick[p] = i
                               THEN Result(CHOOSE p \in DOMAIN pick : pick[p] = i)
                               ELSE x.artifact
                OBVIOUS
            <4>2. y = [x EXCEPT !.artifact = a]
                BY <2>1, <3>1, <4>1
            <4>3. DOMAIN x = GroupFields
                BY <3>1, <3>2 DEF GroupOK
            <4>4. /\ DOMAIN y = GroupFields /\ y.count = x.count /\ y.pct = x.pct
                  /\ y.params = x.params /\ Settings(y) = Settings(x) /\ y.artifact = a
                BY <4>2, <4>3 DEF GroupFields, Settings
            <4> QED
                BY <4>1, <4>4
        <3>4. Prepared(i)' <=> Prepared(i)
            BY <1>2, <3>1, <3>3 DEF Prepared
        <3>5. \A a : Fits(a, i)' <=> Fits(a, i)
            BY <1>2, WantedStable DEF Fits
        <3>6. CASE \E p \in DOMAIN pick : pick[p] = i
            <4>1. PICK p \in DOMAIN pick : /\ pick[p] = i
                                           /\ p = CHOOSE b \in DOMAIN pick : pick[b] = i
                BY <3>6
            <4>2. y.artifact = Result(p)
                BY <3>3, <3>6, <4>1
            <4>3. Prepared(i) /\ \E j \in DOMAIN jobs : p \in jobs[j].at
                BY <1>1, <4>1 DEF JobsOK
            <4>4. PICK j \in DOMAIN jobs : /\ p \in jobs[j].at
                                           /\ Result(p) = jobs[j].base
                BY <4>3 DEF Result
            <4>5. Fits(jobs[j].base, pick[p])
                BY <1>1, <1>5, <4>4 DEF JobsOK, JobBuilds, JobsSucceeded
            <4>6. Fits(y.artifact, i) /\ y.artifact \in DOMAIN content
                BY <4>1, <4>2, <4>4, <4>5 DEF Fits
            <4>7. y.artifact # ""
                BY <4>6, <1>1, CompositionAssumption
            <4> QED
                BY <1>2, <1>5, <3>1, <3>2, <3>3, <3>4, <3>5, <4>3, <4>6, <4>7, <1>1
                DEF GroupOK
        <3>7. CASE ~ \E p \in DOMAIN pick : pick[p] = i
            <4>1. y.artifact = x.artifact
                BY <3>3, <3>7
            <4>2. kind = "run" => x.artifact # ""
                BY <1>1, <3>1, <3>7 DEF PickedOK, Picked
            <4> QED
                BY <1>1, <1>2, <1>5, <3>1, <3>2, <3>3, <3>4, <3>5, <4>1, <4>2 DEF GroupOK
        <3> QED
            BY <3>6, <3>7
    <2>3. CompOK'
        BY <1>1, <1>2, <2>1, <2>2 DEF CompOK, Idx
    <2>4. PlaceOK' /\ PickOK' /\ PickedOK'
        BY <1>1, <1>2, <1>5, <2>1, <2>2 DEF PlaceOK, Over, PickOK, PickedOK
    <2> QED
        BY <1>3, <1>5, <2>3, <2>4, NoRun DEF IInv
<1> QED
    BY <1>4, <1>5 DEF BuildWait, Go

LEMMA RunBuiltStep ==
    ASSUME IInv, RunBuilt
    PROVE  IInv'
<1>1. PlaceOK /\ CompOK /\ PickOK /\ DOMAIN content \subseteq Images
    BY DEF IInv, PlaceOK
<1>2. /\ orig' = orig /\ comp' = comp /\ pick' = pick /\ cache' = cache
      /\ content' = content /\ jobs' = <<>> /\ pc = "built" /\ pc' = "client"
      /\ kind' = "run" /\ ignore' \in BOOLEAN
    BY DEF RunBuilt, Go
<1>3. CompOK' /\ Idx' = Idx
    BY <1>1, <1>2, CompKept
<1>4. PlaceOK' /\ PickOK' /\ PickedOK' /\ JobsOK'
    BY <1>1, <1>2, <1>3, NoJobs DEF PlaceOK, Over, PickOK, PickedOK
<1> QED
    BY <1>2, <1>3, <1>4, NoRun DEF IInv

\* A step that changes nothing but the cache image.
LEMMA SameStep ==
    ASSUME IInv, cache' \in BOOLEAN,
           UNCHANGED <<orig, comp, kind, ignore, pc, pick, jobs, content, input>>
    PROVE  IInv'
<1>1. PlaceOK /\ CompOK /\ PickOK /\ PickedOK /\ JobsOK /\ DOMAIN content \subseteq Images
    BY DEF IInv, PlaceOK
<1>2. /\ orig' = orig /\ comp' = comp /\ kind' = kind /\ ignore' = ignore /\ pc' = pc
      /\ pick' = pick /\ jobs' = jobs /\ content' = content /\ input' = input
    OBVIOUS
<1>3. CompOK' /\ Idx' = Idx
    BY <1>1, <1>2, CompKept
<1>4. PlaceOK' /\ PickOK'
    BY <1>1, <1>2, <1>3 DEF PlaceOK, PickOK
<1>5. PickedOK'
    BY <1>1, <1>2, <1>3 DEF PickedOK, Picked
<1>6. JobsOK'
    <2>1. \A j : GroupOf(j)' = GroupOf(j)
        BY <1>2 DEF GroupOf
    <2>2. \A i : Wanted(i)' = Wanted(i)
        BY <1>2, WantedStable
    <2>3. \A j : JobShape(j)' <=> JobShape(j)
        BY <1>2 DEF JobShape
    <2>4. \A a, i : Fits(a, i)' <=> Fits(a, i)
        BY <1>2, <2>2 DEF Fits
    <2>5. ASSUME NEW j, JobBuilds(j)
          PROVE  JobBuilds(j)'
        <3>1. PICK y : y = GroupOf(j)
            OBVIOUS
        <3>2. y = GroupOf(j)'
            BY <3>1, <2>1
        <3>3. ForgetTargets(Content(GroupOf(j)))' = ForgetTargets(Content(y))
            BY <3>2 DEF Content, ForgetTargets, DockerGo, ExecGo, DockerNode,
                              DockerGeneric
        <3> QED
            BY <3>1, <3>3, <1>2, <2>2, <2>5 DEF JobBuilds, Fits
    <2>6. \A i : Prepared(i)' <=> Prepared(i)
        BY <1>2 DEF Prepared
    <2> QED
        BY <1>1, <1>2, <2>3, <2>5, <2>6 DEF JobsOK, Prepared
<1>7. ArtifactFits' /\ InputFits' /\ PrepareOnce'
    <2>1. \A i : Wanted(i)' = Wanted(i)
        BY <1>2, WantedStable
    <2>2. ArtifactFits'
        BY <1>2, <1>3, <2>1 DEF IInv, ArtifactFits
    <2>3. InputFits'
        BY <1>2 DEF IInv, InputFits, Idx, Rounds
    <2>4. PrepareOnce'
        BY <1>2 DEF IInv, PrepareOnce, Idx
    <2> QED
        BY <2>2, <2>3, <2>4
<1> QED
    BY <1>3, <1>4, <1>5, <1>6, <1>7 DEF IInv

-----------------------------------------------------------------------------
(* The input of the runner *)

\* What PrepareForRun makes of a group.
RunGroup(x, g) ==
    [x EXCEPT
        !.artifact = IF g.hasRun /\ @ = "" THEN g.artifact ELSE @,
        !.params = WithDefaults(IF g.hasRun THEN WithDefaults(@, g.params) ELSE @,
                                Manifest.params)]

RunParams(a, g) ==
    WithDefaults(IF g.hasRun THEN WithDefaults(a, g.params) ELSE a, Manifest.params)

LEMMA RunGroupFields ==
    ASSUME NEW x, NEW g, DOMAIN x = GroupFields, NEW y, y = RunGroup(x, g)
    PROVE  /\ DOMAIN y = GroupFields /\ Settings(y) = Settings(x)
           /\ y.count = x.count /\ y.pct = x.pct
           /\ y.artifact = IF g.hasRun /\ x.artifact = "" THEN g.artifact ELSE x.artifact
           /\ y.params = RunParams(x.params, g)
BY DEF RunGroup, RunParams, GroupFields, Settings

LEMMA RunParamsOnce ==
    ASSUME NEW a, NEW g
    PROVE  RunParams(RunParams(a, g), g) = RunParams(a, g)
<1>1. PICK b, c : b = g.params /\ c = Manifest.params
    OBVIOUS
<1>2. WithDefaults(WithDefaults(WithDefaults(WithDefaults(a, b), c), b), c) =
        WithDefaults(WithDefaults(a, b), c)
    BY DEF WithDefaults
<1>3. WithDefaults(WithDefaults(a, c), c) = WithDefaults(a, c)
    BY DefaultsTwice
<1>4. CASE g.hasRun
    BY <1>1, <1>2, <1>4 DEF RunParams
<1>5. CASE ~g.hasRun
    BY <1>1, <1>3, <1>5 DEF RunParams
<1> QED
    BY <1>4, <1>5

LEMMA RunGroupOnce ==
    ASSUME NEW x, NEW g, DOMAIN x = GroupFields, NEW y, y = RunGroup(x, g)
    PROVE  RunGroup(y, g) = y
<1>1. /\ DOMAIN y = GroupFields
      /\ y.artifact = IF g.hasRun /\ x.artifact = "" THEN g.artifact ELSE x.artifact
      /\ y.params = RunParams(x.params, g)
    BY RunGroupFields
<1>2. RunParams(y.params, g) = y.params
    BY <1>1, RunParamsOnce
<1>3. (IF g.hasRun /\ y.artifact = "" THEN g.artifact ELSE y.artifact) = y.artifact
    BY <1>1
<1>4. RunGroup(y, g) = [y EXCEPT !.artifact = y.artifact, !.params = y.params]
    BY <1>2, <1>3 DEF RunGroup, RunParams
<1>5. y = [f \in DOMAIN y |-> y[f]]
    BY DEF RunGroup
<1> QED
    BY <1>1, <1>4, <1>5

LEMMA RunPrepared ==
    ASSUME NEW c, DOMAIN c = {"global", "groups"}, NEW r, r = PrepareForRun(c)
    PROVE  /\ DOMAIN r = {"global", "groups"} /\ r.global = c.global
           /\ r.groups = [i \in DOMAIN c.groups |-> RunGroup(c.groups[i], c.global)]
BY DEF PrepareForRun, RunGroup

LEMMA RunOnce ==
    ASSUME NEW c, DOMAIN c = {"global", "groups"},
           \A i \in DOMAIN c.groups : DOMAIN c.groups[i] = GroupFields,
           NEW r, r = PrepareForRun(c)
    PROVE  PrepareForRun(r) = r
<1>1. PICK F : F = [i \in DOMAIN c.groups |-> RunGroup(c.groups[i], c.global)]
    OBVIOUS
<1>2. /\ DOMAIN r = {"global", "groups"} /\ r.global = c.global /\ r.groups = F
    BY <1>1, RunPrepared
<1>3. ASSUME NEW i \in DOMAIN c.groups
      PROVE  RunGroup(F[i], c.global) = F[i]
    <2>1. PICK x, y, g : x = c.groups[i] /\ y = F[i] /\ g = c.global
        OBVIOUS
    <2>2. DOMAIN x = GroupFields /\ y = RunGroup(x, g)
        BY <1>1, <1>3, <2>1
    <2>3. RunGroup(y, g) = y
        BY <2>2, RunGroupOnce
    <2> QED
        BY <2>1, <2>3
<1>4. [i \in DOMAIN F |-> RunGroup(F[i], c.global)] = F
    BY <1>1, <1>3
<1>5. PrepareForRun(r) = [r EXCEPT !.groups = F]
    <2>1. PrepareForRun(r) = [r EXCEPT !.groups =
                                [i \in DOMAIN r.groups |-> RunGroup(r.groups[i], r.global)]]
        BY DEF PrepareForRun, RunGroup
    <2> QED
        BY <1>2, <1>4, <2>1
<1>6. r = [f \in DOMAIN r |-> r[f]]
    BY DEF PrepareForRun
<1> QED
    BY <1>2, <1>5, <1>6

LEMMA KeyOnce ==
    ASSUME NEW c, NEW S, NEW i \in DOMAIN c.groups, i \in S, DOMAIN c.groups[i] = GroupFields,
           NEW o, NEW h, SameGlobal(c.global, h), IsSequence(o.deps), IsSequence(h.deps),
           Settings(c.groups[i]) = PreparedSettings(o, h)
    PROVE  BuildKey(PrepareForBuild(c, S).groups[i]) = BuildKey(c.groups[i])
<1>1. PICK x, g, y : x = c.groups[i] /\ g = c.global /\ y = PrepareGroup(x, g)
    OBVIOUS
<1>2. PrepareForBuild(c, S).groups[i] = y
    BY <1>1 DEF PrepareForBuild
<1>3. Settings(y) = PreparedSettings(x, g)
    BY <1>1, PreparedFields
<1>4. PreparedSettings(x, g) = PreparedSettings(o, h)
    BY <1>1, PreparedAgain
<1>5. BuildKey(y) = BuildKey(x)
    BY <1>1, <1>3, <1>4, SameKey
<1> QED
    BY <1>1, <1>2, <1>5

\* calculatedInstanceCnt rounds to the nearest.
LEMMA RoundFacts ==
    ASSUME NEW a \in Nat, NEW b \in Nat, NEW half \in {99, 100},
           NEW n, n = (2 * a * b + half) \div 200
    PROVE  LET off == 100 * n - a * b IN -50 <= off /\ off <= 50
<1>1. PICK m \in Nat : m = a * b
    OBVIOUS
<1>2. 2 * a * b = 2 * m
    BY <1>1
<1>3. n \in Int /\ 200 * n <= 2 * m + half /\ 2 * m + half < 200 * n + 200
    BY <1>2
<1> QED
    BY <1>1, <1>3

LEMMA DoRunStep ==
    ASSUME IInv, DoRun
    PROVE  IInv'
<1>1. /\ PlaceOK /\ CompOK /\ PickOK /\ PickedOK /\ JobsOK
      /\ DOMAIN content \subseteq Images /\ pc = "prepareRun"
    BY DEF IInv, PlaceOK, DoRun
<1>2. /\ orig' = orig /\ kind' = kind /\ ignore' = ignore /\ cache' = cache
      /\ content' = content /\ pick' = pick /\ jobs' = jobs
    BY DEF DoRun
<1>3. JobsOK' \/ pc' \in {"client", "jobs"}
    BY <1>1, <1>2 DEF JobsOK, JobShape
<1>4. CASE pc' = "failed" /\ comp' = comp
    <2>1. CompOK' /\ Idx' = Idx
        BY <1>1, <1>2, <1>4, CompKept
    <2>2. PlaceOK' /\ PickOK' /\ PickedOK'
        BY <1>1, <1>2, <1>4, <2>1 DEF PlaceOK, Over, PickOK, PickedOK
    <2> QED
        BY <1>3, <1>4, <2>1, <2>2, NoRun DEF IInv
<1>5. CASE /\ RunSupported(comp) /\ ValidForRun(comp') /\ comp' = PrepareForRun(comp)
           /\ input' = [i \in DOMAIN comp'.groups |->
                [id |-> comp'.groups[i].id, instances |-> InstanceCount(comp', i),
                 artifact |-> comp'.groups[i].artifact, params |-> comp'.groups[i].params]]
           /\ pc' = "run"
    <2>1. PICK c : c = comp'
        OBVIOUS
    <2>2. /\ DOMAIN c = {"global", "groups"} /\ c.global = comp.global
          /\ c.groups = [i \in Idx |-> RunGroup(comp.groups[i], comp.global)]
          /\ DOMAIN c.groups = Idx /\ Idx' = Idx
        <3>1. DOMAIN comp = {"global", "groups"} /\ c = PrepareForRun(comp)
            BY <1>1, <1>5, <2>1 DEF CompOK
        <3>2. /\ DOMAIN c = {"global", "groups"} /\ c.global = comp.global
              /\ c.groups = [i \in Idx |-> RunGroup(comp.groups[i], comp.global)]
            BY <3>1, RunPrepared DEF Idx
        <3> QED
            BY <3>2, <2>1 DEF Idx
    <2>3. ASSUME NEW i \in Idx
          PROVE  /\ DOMAIN c.groups[i] = GroupFields
                 /\ Settings(c.groups[i]) = Settings(comp.groups[i])
                 /\ c.groups[i].count = orig.groups[i].count
                 /\ c.groups[i].pct = orig.groups[i].pct
                 /\ c.groups[i].artifact = comp.groups[i].artifact
                 /\ c.groups[i].artifact # ""
                 /\ c.groups[i].params = RunParams(orig.groups[i].params, orig.global)
        <3>1. PICK x, y, g : x = comp.groups[i] /\ y = c.groups[i] /\ g = comp.global
            OBVIOUS
        <3>2. GroupOK(i) /\ y = RunGroup(x, g) /\ SameGlobal(g, orig.global)
            BY <1>1, <2>2, <2>3, <3>1 DEF CompOK
        <3>3. /\ DOMAIN x = GroupFields /\ x.count = orig.groups[i].count
              /\ x.pct = orig.groups[i].pct /\ x.params = orig.groups[i].params
              /\ x.artifact # ""
            BY <1>1, <2>3, <3>1, <3>2 DEF GroupOK, PickedOK
        <3>4. /\ DOMAIN y = GroupFields /\ Settings(y) = Settings(x)
              /\ y.count = x.count /\ y.pct = x.pct
              /\ y.artifact = IF g.hasRun /\ x.artifact = "" THEN g.artifact ELSE x.artifact
              /\ y.params = RunParams(x.params, g)
            <4>1. y = RunGroup(x, g) /\ DOMAIN x = GroupFields
                BY <3>2, <3>3
            <4> QED
                BY <4>1, RunGroupFields
        <3>5. g.hasRun = orig.global.hasRun /\ g.params = orig.global.params
            BY <3>2 DEF SameGlobal, GlobalFields
        <3>6. RunParams(x.params, g) = RunParams(x.params, orig.global)
            BY <3>5 DEF RunParams
        <3> QED
            BY <3>1, <3>3, <3>4, <3>6
    <2>4. ASSUME NEW i \in Idx
          PROVE  /\ GroupOK(i)' /\ (Prepared(i)' <=> Prepared(i))
                 /\ \A a : Fits(a, i)' <=> Fits(a, i)
        <3>1. GroupOK(i)
            BY <1>1 DEF CompOK
        <3>2. Prepared(i)' <=> Prepared(i)
            BY <1>2, <2>1, <2>3 DEF Prepared
        <3>3. \A a : Fits(a, i)' <=> Fits(a, i)
            BY <1>2, WantedStable DEF Fits
        <3> QED
            BY <1>2, <1>5, <2>1, <2>3, <3>1, <3>2, <3>3 DEF GroupOK
    <2>5. CompOK'
        BY <1>1, <1>2, <2>1, <2>2, <2>4 DEF CompOK, Idx
    <2>6. PlaceOK' /\ PickOK' /\ PickedOK' /\ JobsOK'
        BY <1>1, <1>2, <1>3, <1>5, <2>2 DEF PlaceOK, Over, PickOK, PickedOK
    <2>7. \A i \in Idx : /\ input'[i].artifact = comp.groups[i].artifact
                         /\ input'[i].instances = InstanceCount(c, i)
                         /\ input'[i].params = RunParams(orig.groups[i].params, orig.global)
                         /\ input'[i].artifact # ""
        BY <1>5, <2>1, <2>2, <2>3
    <2>8. ArtifactFits'
        <3>1. ASSUME NEW i \in Idx
              PROVE  IF input'[i].artifact \in DOMAIN content
                     THEN ForgetTargets(content[input'[i].artifact]) =
                            ForgetTargets(Wanted(i))
                     ELSE input'[i].artifact = orig.groups[i].artifact
            <4>1. GroupOK(i)
                BY <1>1 DEF CompOK
            <4> QED
                BY <2>7, <3>1, <4>1 DEF GroupOK, Fits
        <3>2. \A i : Wanted(i)' = Wanted(i)
            BY <1>2, WantedStable
        <3> QED
            BY <1>2, <2>2, <2>7, <3>1, <3>2 DEF ArtifactFits
    <2>9. InputFits'
        <3>1. orig.global.total = comp.global.total /\ orig.global.total \in Nat
            BY <1>1, OrigFacts DEF CompOK, SameGlobal, GlobalFields
        <3>2. orig.global.total \in Manifest.min..Manifest.max
            BY <1>5, <3>1 DEF RunSupported
        <3>3. [i \in Idx |-> input'[i].instances] =
                [i \in DOMAIN c.groups |-> InstanceCount(c, i)]
            BY <2>2, <2>7
        <3>4. SumFunction([i \in Idx |-> input'[i].instances]) = orig.global.total
            BY <1>5, <2>1, <2>2, <3>1, <3>3 DEF ValidForRun
        <3>5. ASSUME NEW i \in Idx
              PROVE  IF orig.groups[i].count # 0
                     THEN input'[i].instances = orig.groups[i].count
                     ELSE Rounds(input'[i].instances, orig.groups[i])
            <4>1. i \in DOMAIN orig.groups
                BY <1>1, <3>5 DEF CompOK, Idx
            <4>2. orig.groups[i].pct \in Nat
                BY <1>1, <4>1, OrigFacts
            <4>3. PICK n, a, b : /\ n = input'[i].instances /\ a = orig.groups[i].pct
                                 /\ b = orig.global.total
                OBVIOUS
            <4>0. PICK half \in {99, 100} :
                     half = IF <<a, b>> \in HalvesDown THEN 99 ELSE 100
                OBVIOUS
            <4>4. n = IF orig.groups[i].count # 0 THEN orig.groups[i].count
                      ELSE (2 * a * b + half) \div 200
                <5>1. /\ c.groups[i].count = orig.groups[i].count /\ c.groups[i].pct = a
                      /\ c.global.total = b /\ n = InstanceCount(c, i)
                    BY <2>2, <2>3, <2>7, <3>1, <3>5, <4>3
                <5> QED
                    BY <4>0, <5>1 DEF InstanceCount
            <4>5. n = (2 * a * b + half) \div 200 => (-50 <= 100 * n - a * b
                                                     /\ 100 * n - a * b <= 50)
                BY <3>1, <4>2, <4>3, RoundFacts
            <4> QED
                BY <4>3, <4>4, <4>5 DEF Rounds
        <3>6. ASSUME NEW i \in Idx
              PROVE  LET g == orig.groups[i]
                         gl == IF orig.global.hasRun THEN orig.global.params ELSE <<>>
                     IN  \A k \in DOMAIN g.params \cup DOMAIN gl \cup DOMAIN Manifest.params :
                            input'[i].params[k] =
                              IF k \in DOMAIN g.params THEN g.params[k]
                              ELSE IF k \in DOMAIN gl THEN gl[k] ELSE Manifest.params[k]
            <4>1. input'[i].params = RunParams(orig.groups[i].params, orig.global)
                BY <2>7, <3>6
            <4>2. CASE orig.global.hasRun
                BY <4>1, <4>2 DEF RunParams, WithDefaults
            <4>3. CASE ~orig.global.hasRun
                BY <4>1, <4>3 DEF RunParams, WithDefaults
            <4> QED
                BY <4>2, <4>3
        <3> QED
            BY <1>2, <2>2, <3>2, <3>4, <3>5, <3>6 DEF InputFits, Rounds
    <2>10. PrepareOnce'
        <3>1. PrepareForRun(comp') = comp'
            <4>1. PICK d : d = comp
                OBVIOUS
            <4>2. /\ DOMAIN d = {"global", "groups"} /\ c = PrepareForRun(d)
                  /\ \A i \in DOMAIN d.groups : DOMAIN d.groups[i] = GroupFields
                BY <1>1, <1>5, <2>1, <4>1 DEF CompOK, GroupOK, Idx
            <4>3. PrepareForRun(c) = c
                BY <4>2, RunOnce
            <4> QED
                BY <2>1, <4>3
        <3>2. PICK S : S = {i \in Idx : input'[i].artifact \in DOMAIN content}
            OBVIOUS
        <3>3. ASSUME NEW i \in S
              PROVE  BuildKey(PrepareForBuild(comp', S).groups[i]) = BuildKey(comp'.groups[i])
            <4>1. i \in Idx /\ input'[i].artifact \in DOMAIN content /\ i \in DOMAIN orig.groups
                BY <1>1, <3>2, <3>3 DEF CompOK, Idx
            <4>2. GroupOK(i)
                BY <1>1, <4>1 DEF CompOK
            <4>3. Prepared(i)
                BY <2>7, <4>1, <4>2 DEF GroupOK
            <4>4. PICK o, h : o = orig.groups[i] /\ h = orig.global
                OBVIOUS
            <4>5. /\ DOMAIN c.groups[i] = GroupFields /\ i \in DOMAIN c.groups
                  /\ Settings(c.groups[i]) = PreparedSettings(o, h)
                BY <2>2, <2>3, <4>1, <4>3, <4>4 DEF Prepared
            <4>6. SameGlobal(c.global, h) /\ IsSequence(o.deps) /\ IsSequence(h.deps)
                BY <1>1, <2>2, <4>1, <4>4, OrigFacts DEF CompOK
            <4>7. BuildKey(PrepareForBuild(c, S).groups[i]) = BuildKey(c.groups[i])
                BY <3>3, <4>5, <4>6, KeyOnce
            <4> QED
                BY <2>1, <4>7
        <3> QED
            BY <1>2, <2>2, <3>1, <3>2, <3>3 DEF PrepareOnce
    <2> QED
        BY <2>5, <2>6, <2>8, <2>9, <2>10 DEF IInv
<1> QED
    BY <1>4, <1>5 DEF DoRun, Go

-----------------------------------------------------------------------------
(* The theorems *)

LEMMA NextStep ==
    ASSUME IInv, [Next]_vars
    PROVE  IInv'
<1>0. cache \in BOOLEAN
    BY DEF IInv, PlaceOK
<1>1. CASE ClientRun
    BY <1>1, ClientRunStep
<1>2. CASE ClientBuild
    BY <1>2, ClientBuildStep
<1>3. CASE QueueRun
    BY <1>3, QueueRunStep
<1>4. CASE DoBuild
    BY <1>4, DoBuildStep
<1>5. CASE BuildWait
    BY <1>5, BuildWaitStep
<1>6. CASE DoRun
    BY <1>6, DoRunStep
<1>7. CASE RunBuilt
    BY <1>7, RunBuiltStep
<1>8. CASE Purge
    BY <1>8, SameStep DEF Purge
<1>9. CASE \E j \in DOMAIN jobs : JobStep(j)
    BY <1>9, JobStepStep
<1>10. CASE UNCHANGED vars
    BY <1>0, <1>10, SameStep DEF vars
<1> QED
    BY <1>1, <1>2, <1>3, <1>4, <1>5, <1>6, <1>7, <1>8, <1>9, <1>10 DEF Next, Engine

\* The invariant, for every set of compositions, every manifest and environment,
\* any number of groups and jobs, and with or without failing builders.
THEOREM PrepareInvariance == Spec => []IInv
<1>1. Init => IInv
    BY InitStep
<1>2. IInv /\ [Next]_vars => IInv'
    BY NextStep
<1> QED
    BY <1>1, <1>2, PTL DEF Spec

\* The request is in a known place, jobs cover positions of BuildGroups, and a
\* group's artifact comes from a build or from the composition (BuildInput, RunGroup).
THEOREM PrepareTypes == Spec => []TypeOK
<1>1. IInv => TypeOK
    <2> SUFFICES ASSUME IInv PROVE TypeOK
        OBVIOUS
    <2>1. PlaceOK /\ CompOK /\ PickOK /\ JobsOK
        BY DEF IInv
    <2>2. \A i \in Idx : comp.groups[i].artifact \in
            DOMAIN content \cup {"", orig.groups[i].artifact, orig.global.artifact}
        BY <2>1 DEF CompOK, GroupOK
    <2> QED
        BY <2>1, <2>2 DEF TypeOK, PlaceOK, CompOK, PickOK, JobsOK, JobShape
<1> QED
    BY <1>1, PrepareInvariance, PTL

\* What doBuild makes reaches the groups that asked for it: the artifact a group runs
\* was built with that group's builder, configuration, tags and versions, or is the
\* one the composition names, and every group has one.
THEOREM ArtifactTheorem == Spec => []ArtifactFits
<1>1. IInv => ArtifactFits
    BY DEF IInv
<1> QED
    BY <1>1, PrepareInvariance, PTL

\* The runner's input has the total, counts, shares and parameters the user wrote,
\* whatever PrepareForBuild and PrepareForRun did on the way.
THEOREM InputTheorem == Spec => []InputFits
<1>1. IInv => InputFits
    BY DEF IInv
<1> QED
    BY <1>1, PrepareInvariance, PTL

\* PrepareForRun and PrepareForBuild are idempotent on what is run: a composition that
\* is written back and prepared again has the same parameters and build keys.
THEOREM OnceTheorem == Spec => []PrepareOnce
<1>1. IInv => PrepareOnce
    BY DEF IInv
<1> QED
    BY <1>1, PrepareInvariance, PTL

=============================================================================
