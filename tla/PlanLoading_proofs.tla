------------------------- MODULE PlanLoading_proofs -------------------------
(***************************************************************************)
(* Proofs that loading a plan keeps its types, that what is loaded is what *)
(* was written, that the searches find the loops and the ancestors there   *)
(* are, and that no consumer of a contract races its producers unwarned.   *)
(***************************************************************************)
EXTENDS PlanLoading, SequenceTheorems, FiniteSetTheorems, WellFoundedInduction, TLAPS

------------------------------------------------------------------------------
(* Numbers and sets: induction as a fact about sets of numbers, smallest    *)
(* sets, Min and Max, a set as a sequence.                                  *)
LEMMA LeastNumber ==
  ASSUME NEW T \in SUBSET Nat, T # {}
  PROVE  \E m \in T : \A n \in T : m <= n
<1> DEFINE R == OpToRel(<, Nat)
<1>1. IsWellFoundedOn(R, Nat)
  BY NatLessThanWellFounded
<1>2. \A x, y \in Nat : <<x, y>> \in R <=> x < y
  BY DEF OpToRel
<1> HIDE DEF R
<1>3. PICK m \in T : \A n \in T : <<n, m>> \notin R
  BY <1>1, WFMin
<1>4. \A n \in T : n \in Nat /\ m \in Nat /\ ~(n < m)
  BY <1>2, <1>3
<1> QED BY <1>4

LEMMA NatSetInduction ==
  ASSUME NEW S, 0 \in S, \A n \in Nat : n \in S => n + 1 \in S
  PROVE  \A n \in Nat : n \in S
<1> DEFINE T == Nat \ S
<1> SUFFICES ASSUME T # {} PROVE FALSE
  OBVIOUS
<1>1. PICK m \in T : \A n \in T : m <= n
  BY LeastNumber
<1>2. m \in Nat /\ m # 0
  BY <1>1
<1>3. m - 1 \in Nat /\ m - 1 < m
  BY <1>2
<1>4. m - 1 \in S
  BY <1>1, <1>3
<1>5. (m - 1) + 1 \in S
  BY <1>3, <1>4
<1> QED BY <1>1, <1>2, <1>5

LEMMA SmallestSet ==
  ASSUME NEW F, F # {}, \A X \in F : IsFiniteSet(X)
  PROVE  \E X \in F : \A Y \in F : Y \subseteq X => Y = X
<1> DEFINE T == {Cardinality(X) : X \in F}
<1>1. T \in SUBSET Nat /\ T # {}
  BY FS_CardinalityType
<1>2. PICK m \in T : \A n \in T : m <= n
  BY <1>1, LeastNumber
<1>3. PICK X \in F : m = Cardinality(X)
  BY <1>2
<1>4. ASSUME NEW Y \in F, Y \subseteq X PROVE Y = X
  <2>1. Cardinality(Y) <= Cardinality(X) /\ (Cardinality(X) = Cardinality(Y) => X = Y)
    BY <1>4, FS_Subset
  <2>2. Cardinality(X) <= Cardinality(Y)
    BY <1>2, <1>3
  <2>3. Cardinality(X) \in Nat /\ Cardinality(Y) \in Nat
    BY FS_CardinalityType
  <2> QED BY <2>1, <2>2, <2>3
<1> QED BY <1>4

LEMMA MinIsLeast ==
  ASSUME NEW S \in SUBSET Nat, S # {}
  PROVE  Min(S) \in S /\ \A y \in S : Min(S) <= y
BY LeastNumber DEF Min

LEMMA MaxIsGreatest ==
  ASSUME NEW n \in Nat, NEW S \in SUBSET (0 .. n), S # {}
  PROVE  Max(S) \in S /\ \A y \in S : Max(S) >= y
<1> DEFINE U == {k \in Nat : \A y \in S : y <= k}
<1>1. U \in SUBSET Nat /\ n \in U
  OBVIOUS
<1>2. PICK m \in U : \A k \in U : m <= k
  BY <1>1, LeastNumber
<1>3. m \in S
  <2> SUFFICES ASSUME m \notin S PROVE FALSE
    OBVIOUS
  <2>1. \A y \in S : y \in Nat /\ y < m
    BY <1>2
  <2>2. m \in Nat /\ m > 0
    <3>1. PICK y \in S : TRUE
      OBVIOUS
    <3>2. y \in Nat /\ y < m /\ m \in Nat
      BY <2>1
    <3> QED BY <3>2
  <2>3. m - 1 \in Nat /\ (\A y \in S : y <= m - 1) /\ m - 1 < m
    BY <2>1, <2>2
  <2>4. m - 1 \in U
    BY <2>3
  <2> QED BY <1>2, <2>3, <2>4
<1>4. \E x \in S : \A y \in S : x >= y
  BY <1>2, <1>3
<1> QED BY <1>4 DEF Max

LEMMA SetToSeqListsIt ==
  ASSUME NEW S, IsFiniteSet(S)
  PROVE  SetToSeq(S) \in Seq(S) /\ ToSet(SetToSeq(S)) = S
<1> DEFINE n == Cardinality(S)
<1>1. n \in Nat /\ ExistsBijection(1 .. n, S)
  BY FS_CardinalityType
<1>2. PICK f \in [1 .. n -> S] : IsInjective(f) /\ \A y \in S : \E i \in 1 .. n : f[i] = y
  BY <1>1 DEF ExistsBijection, Bijection, Injection, Surjection, IsInjective
<1>3. SetToSeq(S) \in [1 .. n -> S] /\ IsInjective(SetToSeq(S))
  BY <1>2 DEF SetToSeq
<1> DEFINE g == SetToSeq(S)
<1>4. g \in Seq(S)
  BY <1>1, <1>3
<1>5. g \in Injection(1 .. n, S)
  BY <1>3 DEF Injection, IsInjective
<1>6. Cardinality(1 .. n) = Cardinality(S) /\ IsFiniteSet(1 .. n)
  BY <1>1, FS_Interval
<1> HIDE DEF n, g
<1>7. g \in Surjection(1 .. n, S)
  BY <1>5, <1>6, FS_Injection
<1>8. ToSet(g) = S
  BY <1>7, <1>3 DEF Surjection, ToSet, g
<1> QED BY <1>4, <1>8 DEF g
------------------------------------------------------------------------------
(* Sequences.  FlattenSeq lists the elements of the sequences of a sequence,*)
(* each one at a position of its own.                                       *)
Listing(flat, seqs, n, at) ==
  /\ at \in [1 .. Len(flat) -> Nat \X Nat]
  /\ \A j \in 1 .. Len(flat) :
       /\ at[j][1] \in 1 .. n /\ at[j][2] \in 1 .. Len(seqs[at[j][1]])
       /\ flat[j] = seqs[at[j][1]][at[j][2]]
  /\ \A j, l \in 1 .. Len(flat) : at[j] = at[l] => j = l
  /\ \A i \in 1 .. n : \A k \in 1 .. Len(seqs[i]) :
       \E j \in 1 .. Len(flat) : at[j] = <<i, k>>

LEMMA ListingGrows ==
  ASSUME NEW S, NEW flat \in Seq(S), NEW seqs \in Seq(Seq(S)), NEW n \in Nat,
         n + 1 \in 1 .. Len(seqs), NEW at, Listing(flat, seqs, n, at)
  PROVE  \E a : Listing(flat \o seqs[n + 1], seqs, n + 1, a)
<1> DEFINE s == seqs[n + 1]
           m == Len(flat)
           all == flat \o s
           a == [j \in 1 .. Len(all) |-> IF j <= m THEN at[j] ELSE <<n + 1, j - m>>]
<1>1. s \in Seq(S) /\ m \in Nat /\ Len(s) \in Nat
  OBVIOUS
<1>2. /\ Len(all) = m + Len(s)
      /\ \A j \in 1 .. m : all[j] = flat[j]
      /\ \A j \in 1 .. m + Len(s) : j > m => all[j] = s[j - m]
  BY <1>1, ConcatProperties
<1>3. \A j \in 1 .. m : /\ j \in 1 .. Len(all) /\ a[j] = at[j] /\ at[j] \in Nat \X Nat
                        /\ at[j][1] \in 1 .. n /\ at[j][1] # n + 1
                        /\ at[j][2] \in 1 .. Len(seqs[at[j][1]])
                        /\ flat[j] = seqs[at[j][1]][at[j][2]]
  <2>1. \A j \in 1 .. m : /\ at[j] \in Nat \X Nat /\ at[j][1] \in 1 .. n
                          /\ at[j][2] \in 1 .. Len(seqs[at[j][1]])
                          /\ flat[j] = seqs[at[j][1]][at[j][2]]
    BY DEF Listing
  <2>2. \A j \in 1 .. m : j \in 1 .. Len(all) /\ j <= m
    BY <1>1, <1>2
  <2>3. \A x \in 1 .. n : x # n + 1
    OBVIOUS
  <2>4. \A j \in 1 .. m : a[j] = at[j]
    BY <2>2
  <2> HIDE DEF a, all, s
  <2> QED BY <2>1, <2>2, <2>3, <2>4
<1>4. \A j \in 1 .. Len(all) : j > m => /\ a[j] = <<n + 1, j - m>> /\ j - m \in 1 .. Len(s)
                                        /\ a[j][1] = n + 1 /\ a[j][2] = j - m
                                        /\ a[j] \in Nat \X Nat
  <2>1. ASSUME NEW j \in 1 .. Len(all), j > m
        PROVE  /\ a[j] = <<n + 1, j - m>> /\ j - m \in 1 .. Len(s)
               /\ a[j][1] = n + 1 /\ a[j][2] = j - m
               /\ a[j] \in Nat \X Nat
    <3>1. j \in 1 .. m + Len(s)
      BY <1>2, <2>1
    <3>2. ~(j <= m) /\ j - m \in 1 .. Len(s) /\ j - m \in Nat /\ n + 1 \in Nat
      BY <1>1, <2>1, <3>1
    <3>3. a[j] = <<n + 1, j - m>>
      BY <2>1, <3>2
    <3> HIDE DEF a, all, s, m
    <3> QED BY <3>2, <3>3
  <2> HIDE DEF a, all, s, m
  <2> QED BY <2>1
<1>5. \A j \in 1 .. Len(all) : j \in 1 .. m \/ j > m
  BY <1>1, <1>2
<1>6. a \in [1 .. Len(all) -> Nat \X Nat]
  <2>1. \A j \in 1 .. Len(all) : a[j] \in Nat \X Nat
    BY <1>3, <1>4, <1>5
  <2> QED BY <2>1
<1> HIDE DEF a, all
<1>7. ASSUME NEW j \in 1 .. Len(all)
      PROVE  /\ a[j][1] \in 1 .. n + 1 /\ a[j][2] \in 1 .. Len(seqs[a[j][1]])
             /\ all[j] = seqs[a[j][1]][a[j][2]]
  <2>1. CASE j \in 1 .. m
    <3>1. /\ a[j] = at[j] /\ at[j][1] \in 1 .. n /\ at[j][2] \in 1 .. Len(seqs[at[j][1]])
          /\ all[j] = seqs[at[j][1]][at[j][2]]
      BY <2>1, <1>2, <1>3
    <3>2. 1 .. n \subseteq 1 .. n + 1
      OBVIOUS
    <3> QED BY <3>1, <3>2
  <2>2. CASE j > m
    <3>1. a[j][1] = n + 1 /\ a[j][2] = j - m /\ j - m \in 1 .. Len(s)
      BY <2>2, <1>4
    <3>2. all[j] = s[j - m]
      BY <2>2, <1>2
    <3>3. a[j][1] \in 1 .. n + 1
      BY <3>1
    <3> QED BY <3>1, <3>2, <3>3
  <2> QED BY <1>5, <2>1, <2>2
<1>8. ASSUME NEW j \in 1 .. Len(all), NEW l \in 1 .. Len(all), a[j] = a[l] PROVE j = l
  <2>1. CASE j \in 1 .. m /\ l \in 1 .. m
    <3>1. at[j] = at[l]
      BY <2>1, <1>3, <1>8
    <3> QED BY <2>1, <3>1 DEF Listing
  <2>2. CASE j \in 1 .. m /\ l > m
    <3>1. a[j][1] # n + 1 /\ a[l][1] = n + 1
      BY <2>2, <1>3, <1>4
    <3> QED BY <3>1, <1>8
  <2>3. CASE j > m /\ l \in 1 .. m
    <3>1. a[j][1] = n + 1 /\ a[l][1] # n + 1
      BY <2>3, <1>3, <1>4
    <3> QED BY <3>1, <1>8
  <2>4. CASE j > m /\ l > m
    <3>1. j - m = l - m
      BY <2>4, <1>4, <1>8
    <3> QED BY <3>1, <1>1, <1>2
  <2> QED BY <1>5, <2>1, <2>2, <2>3, <2>4
<1>9. ASSUME NEW i \in 1 .. n + 1, NEW k \in 1 .. Len(seqs[i])
      PROVE  \E j \in 1 .. Len(all) : a[j] = <<i, k>>
  <2>1. CASE i \in 1 .. n
    <3>1. PICK j \in 1 .. m : at[j] = <<i, k>>
      BY <2>1 DEF Listing
    <3> QED BY <3>1, <1>3
  <2>2. CASE i = n + 1
    <3>1. k + m \in 1 .. Len(all) /\ k + m > m /\ (k + m) - m = k
      BY <2>2, <1>1, <1>2
    <3>2. a[k + m] = <<n + 1, (k + m) - m>>
      BY <3>1, <1>4
    <3> QED BY <2>2, <3>1, <3>2
  <2>3. i \in 1 .. n \/ i = n + 1
    OBVIOUS
  <2> QED BY <2>1, <2>2, <2>3
<1>10. Listing(all, seqs, n + 1, a)
  BY <1>6, <1>7, <1>8, <1>9 DEF Listing
<1> QED BY <1>10 DEF all

LEMMA FlattenSeqLists ==
  ASSUME NEW S, NEW seqs \in Seq(Seq(S))
  PROVE  /\ FlattenSeq(seqs) \in Seq(S)
         /\ \E at : Listing(FlattenSeq(seqs), seqs, Len(seqs), at)
<1> DEFINE F(f, n) == f = [i \in 1 .. n |-> IF i = 1 THEN seqs[i] ELSE f[i - 1] \o seqs[i]]
           N == Len(seqs)
           Ns == {n \in Nat : \E f : F(f, n)}
<1>1. 0 \in Ns
  <2>1. F([i \in 1 .. 0 |-> seqs[i]], 0)
    OBVIOUS
  <2> HIDE DEF F
  <2> QED BY <2>1
<1>2. ASSUME NEW n \in Nat, n \in Ns PROVE n + 1 \in Ns
  <2>1. PICK f : F(f, n)
    BY <1>2
  <2> DEFINE g == [i \in 1 .. n + 1 |-> IF i = 1 THEN seqs[i] ELSE f[i - 1] \o seqs[i]]
  <2>2. \A i \in 1 .. n : i \in 1 .. n + 1 /\ g[i] = f[i]
    <3>1. \A i \in 1 .. n : f[i] = IF i = 1 THEN seqs[i] ELSE f[i - 1] \o seqs[i]
      BY <2>1
    <3>2. \A i \in 1 .. n : i \in 1 .. n + 1
      OBVIOUS
    <3> QED BY <3>1, <3>2
  <2>3. \A i \in 1 .. n + 1 : i # 1 => i - 1 \in 1 .. n
    OBVIOUS
  <2>4. F(g, n + 1)
    BY <2>2, <2>3
  <2> HIDE DEF F, g
  <2> QED BY <2>4
<1>3. N \in Nat /\ N \in Ns
  <2> HIDE DEF Ns
  <2>1. \A n \in Nat : n \in Ns
    BY <1>1, <1>2, NatSetInduction
  <2> QED BY <2>1
<1> DEFINE fl == CHOOSE f : F(f, N)
<1>4. F(fl, N)
  <2> HIDE DEF F
  <2> QED BY <1>3
<1>5. FlattenSeq(seqs) = IF N = 0 THEN seqs ELSE fl[N]
  BY DEF FlattenSeq
<1> HIDE DEF fl
<1>6. N # 0 => fl[1] = seqs[1]
  BY <1>3, <1>4
<1>7. \A i \in 1 .. N : i # 1 => fl[i] = fl[i - 1] \o seqs[i]
  BY <1>3, <1>4
<1> HIDE DEF F
<1> DEFINE Good(i) == fl[i] \in Seq(S) /\ \E at : Listing(fl[i], seqs, i, at)
           Is == {i \in Nat : i + 1 \in 1 .. N => Good(i + 1)}
<1>8. 0 \in Is
  <2> SUFFICES ASSUME 1 \in 1 .. N PROVE Good(1)
    OBVIOUS
  <2>1. fl[1] = seqs[1] /\ seqs[1] \in Seq(S) /\ <<>> \in Seq(S) /\ Len(<<>>) = 0
    BY <1>6
  <2>2. Listing(<<>>, seqs, 0, [j \in 1 .. 0 |-> <<0, 0>>])
    BY <2>1 DEF Listing
  <2>3. <<>> \o seqs[0 + 1] = seqs[1]
    BY <2>1, ConcatEmptySeq
  <2>4. \E at : Listing(<<>> \o seqs[0 + 1], seqs, 0 + 1, at)
    <3>1. 0 \in Nat /\ 0 + 1 \in 1 .. Len(seqs)
      OBVIOUS
    <3> QED BY <2>1, <2>2, <3>1, ListingGrows
  <2> QED BY <2>1, <2>3, <2>4
<1>9. ASSUME NEW i \in Nat, i \in Is PROVE i + 1 \in Is
  <2> SUFFICES ASSUME i + 2 \in 1 .. N PROVE Good(i + 2)
    OBVIOUS
  <2>1. i + 1 \in 1 .. N /\ i + 1 \in Nat /\ (i + 1) + 1 = i + 2
    BY <1>3
  <2>2. Good(i + 1)
    BY <1>9, <2>1
  <2>3. fl[i + 2] = fl[i + 1] \o seqs[(i + 1) + 1]
    <3>1. i + 2 \in 1 .. N /\ i + 2 # 1 /\ (i + 2) - 1 = i + 1
      BY <1>3
    <3> QED BY <3>1, <1>7, <2>1
  <2>4. seqs[(i + 1) + 1] \in Seq(S)
    BY <2>1
  <2>5. fl[i + 2] \in Seq(S)
    BY <2>2, <2>3, <2>4, ConcatProperties
  <2>6. PICK at : Listing(fl[i + 1], seqs, i + 1, at)
    BY <2>2
  <2> DEFINE k == i + 1
  <2>7. \E a : Listing(fl[i + 1] \o seqs[k + 1], seqs, k + 1, a)
    <3>1. k \in Nat /\ k + 1 \in 1 .. Len(seqs) /\ fl[i + 1] \in Seq(S)
      BY <2>1, <2>2
    <3>2. Listing(fl[i + 1], seqs, k, at)
      BY <2>6
    <3> HIDE DEF k
    <3> QED BY <3>1, <3>2, ListingGrows
  <2> QED BY <2>1, <2>3, <2>5, <2>7
<1>10. \A i \in Nat : i \in Is
  <2> HIDE DEF Is
  <2> QED BY <1>8, <1>9, NatSetInduction
<1>11. CASE N = 0
  <2>1. FlattenSeq(seqs) = seqs /\ seqs = <<>> /\ seqs \in Seq(S)
    BY <1>5, <1>11
  <2>2. Listing(seqs, seqs, N, [j \in 1 .. 0 |-> <<0, 0>>])
    BY <2>1, <1>11 DEF Listing
  <2> QED BY <2>1, <2>2
<1>12. CASE N # 0
  <2>1. N - 1 \in Nat /\ (N - 1) + 1 = N /\ N \in 1 .. N
    BY <1>12, <1>3
  <2>2. Good(N)
    BY <2>1, <1>10
  <2> QED BY <2>2, <1>5, <1>12
<1> QED BY <1>11, <1>12
LEMMA ToSetAppend ==
  ASSUME NEW S, NEW s \in Seq(S), NEW e \in S
  PROVE  Append(s, e) \in Seq(S) /\ ToSet(Append(s, e)) = ToSet(s) \cup {e}
<1>1. /\ Append(s, e) \in Seq(S) /\ Len(Append(s, e)) = Len(s) + 1 /\ Len(s) \in Nat
      /\ DOMAIN s = 1 .. Len(s) /\ DOMAIN Append(s, e) = 1 .. Len(s) + 1
      /\ \A i \in 1 .. Len(s) : Append(s, e)[i] = s[i]
      /\ Append(s, e)[Len(s) + 1] = e
  OBVIOUS
<1>2. \A i \in 1 .. Len(s) + 1 : i \in 1 .. Len(s) \/ i = Len(s) + 1
  BY <1>1
<1>3. Len(s) + 1 \in 1 .. Len(s) + 1 /\ \A i \in 1 .. Len(s) : i \in 1 .. Len(s) + 1
  BY <1>1
<1> QED BY <1>1, <1>2, <1>3 DEF ToSet

LEMMA ToSetConcat ==
  ASSUME NEW S, NEW s \in Seq(S), NEW u \in Seq(S)
  PROVE  s \o u \in Seq(S) /\ ToSet(s \o u) = ToSet(s) \cup ToSet(u)
<1>1. s \o u \in Seq(S) /\ Range(s \o u) = Range(s) \cup Range(u)
  BY RangeConcatenation, ConcatProperties
<1> QED BY <1>1 DEF ToSet, Range

(* WithInputs adds the tasks the inputs come from, and nothing else.        *)
LEMMA WithInputsAdds ==
  ASSUME NEW t \in Task
  PROVE  /\ WithInputs(t) = [t EXCEPT !.depends_on = WithInputs(t).depends_on]
         /\ WithInputs(t).depends_on \in Seq(Ids)
         /\ ToSet(WithInputs(t).depends_on)
              = ToSet(t.depends_on) \cup ({n.from : n \in ToSet(t.inputs)} \ {t.id})
<1> DEFINE D == DOMAIN t.inputs
           Data(deps, input) == IF input.from = t.id \/ input.from \in ToSet(deps) THEN deps
                                ELSE Append(deps, input.from)
           Step(f, s) == IF s = {} THEN t.depends_on
                         ELSE Data(f[s \ {Max(s)}], t.inputs[Max(s)])
           Below(n) == SUBSET (1 .. n)
           F(f, n) == f = [s \in Below(n) |-> Step(f, s)]
           N == Len(t.inputs)
           Ns == {n \in Nat : \E f : F(f, n)}
<1> HIDE DEF Data
<1>a. /\ t.inputs \in Seq([from : Ids, output : Outputs]) /\ N \in Nat /\ D = 1 .. N
      /\ t.depends_on \in Seq(Ids)
  BY DEF Task
<1>1. 0 \in Ns
  <2>1. Below(0) = {{}}
    OBVIOUS
  <2>2. F([s \in Below(0) |-> t.depends_on], 0)
    BY <2>1
  <2> HIDE DEF F
  <2> QED BY <2>2
<1>2. ASSUME NEW n \in Nat, n \in Ns PROVE n + 1 \in Ns
  <2>1. PICK f : F(f, n)
    BY <1>2
  <2> DEFINE g == [s \in Below(n + 1) |-> IF s \in Below(n) THEN f[s] ELSE Step(f, s)]
  <2>2. \A s \in Below(n) : s \in Below(n + 1) /\ g[s] = f[s]
    OBVIOUS
  <2>3. \A s \in Below(n + 1) : s # {} => s \ {Max(s)} \in Below(n)
    <3> SUFFICES ASSUME NEW s \in Below(n + 1), s # {}, NEW x \in s, x # Max(s)
                 PROVE  x \in 1 .. n
      OBVIOUS
    <3>1. n + 1 \in Nat /\ s \in SUBSET (0 .. n + 1)
      OBVIOUS
    <3>2. Max(s) \in s /\ \A y \in s : Max(s) >= y
      BY <3>1, MaxIsGreatest
    <3>3. Max(s) \in 1 .. n + 1 /\ x \in 1 .. n + 1 /\ x <= Max(s) /\ x # Max(s)
      BY <3>2
    <3> QED BY <3>3
  <2>4. \A s \in Below(n) : f[s] = Step(f, s)
    BY <2>1
  <2>5. \A s \in Below(n + 1) : Step(g, s) = Step(f, s)
    BY <2>2, <2>3
  <2>6. F(g, n + 1)
    <3>1. g = [s \in Below(n + 1) |-> g[s]]
      OBVIOUS
    <3>2. \A s \in Below(n + 1) : g[s] = Step(g, s)
      BY <2>4, <2>5
    <3> HIDE DEF g, Step
    <3> QED BY <3>1, <3>2
  <2> HIDE DEF F, g
  <2> QED BY <2>6
<1>3. N \in Ns
  <2> HIDE DEF Ns
  <2>1. \A n \in Nat : n \in Ns
    BY <1>1, <1>2, NatSetInduction
  <2> QED BY <2>1, <1>a
<1> DEFINE iter == CHOOSE f : F(f, N)
<1>4. F(iter, N)
  <2> HIDE DEF F
  <2> QED BY <1>3
<1>5. WithInputs(t) = [t EXCEPT !.depends_on = iter[D]]
  BY <1>a DEF WithInputs, FoldLeft, MapThenFoldSet, Data
<1> DEFINE R(k) == iter[1 .. k]
<1>6. \A s \in Below(N) : iter[s] = Step(iter, s)
  BY <1>4
<1> HIDE DEF iter, F
<1>7. R(0) = t.depends_on
  <2>1. 1 .. 0 = {} /\ {} \in Below(N)
    OBVIOUS
  <2> QED BY <2>1, <1>6
<1>8. ASSUME NEW k \in Nat, k + 1 \in 1 .. N PROVE R(k + 1) = Data(R(k), t.inputs[k + 1])
  <2> DEFINE s == 1 .. k + 1
  <2>1. s \in Below(N) /\ k + 1 \in Nat /\ s \in SUBSET (0 .. k + 1) /\ k + 1 \in s
    <3>1. \A j \in s : j \in 1 .. N /\ j \in 0 .. k + 1
      BY <1>8, <1>a
    <3>2. k + 1 \in s /\ k + 1 \in Nat
      OBVIOUS
    <3> QED BY <3>1, <3>2
  <2>2. Max(s) \in s /\ Max(s) >= k + 1
    <3> HIDE DEF s
    <3> QED BY <2>1, MaxIsGreatest
  <2>3. Max(s) = k + 1 /\ s # {} /\ s \ {k + 1} = 1 .. k
    BY <2>2
  <2> QED BY <2>1, <2>3, <1>6
<1> HIDE DEF R
<1> DEFINE Froms(k) == {t.inputs[j].from : j \in 1 .. k}
           Good(k) == /\ R(k) \in Seq(Ids)
                      /\ ToSet(R(k)) = ToSet(t.depends_on) \cup (Froms(k) \ {t.id})
           Ks == {k \in Nat : k <= N => Good(k)}
<1>9. 0 \in Ks
  BY <1>7, <1>a
<1>10. ASSUME NEW k \in Nat, k \in Ks PROVE k + 1 \in Ks
  <2> SUFFICES ASSUME k + 1 <= N PROVE Good(k + 1)
    OBVIOUS
  <2>1. k + 1 \in 1 .. N /\ Good(k)
    BY <1>a, <1>10
  <2>2. t.inputs[k + 1] \in [from : Ids, output : Outputs]
    <3> HIDE DEF N
    <3>1. k + 1 \in 1 .. N /\ 1 .. N = DOMAIN t.inputs
      BY <1>a, <2>1
    <3> QED BY <3>1, <1>a, ElementOfSeq DEF N
  <2> DEFINE new == t.inputs[k + 1].from
  <2>3. Froms(k + 1) = Froms(k) \cup {new}
    <3>1. \A j \in 1 .. k + 1 : j \in 1 .. k \/ j = k + 1
      OBVIOUS
    <3>2. k + 1 \in 1 .. k + 1 /\ \A j \in 1 .. k : j \in 1 .. k + 1
      OBVIOUS
    <3> QED BY <3>1, <3>2
  <2>4. R(k + 1) = IF new = t.id \/ new \in ToSet(R(k)) THEN R(k) ELSE Append(R(k), new)
    BY <1>8, <2>1 DEF Data
  <2>5. new \in Ids
    BY <2>2
  <2> HIDE DEF new, Froms
  <2>6. CASE new = t.id \/ new \in ToSet(R(k))
    BY <2>1, <2>3, <2>4, <2>6
  <2>7. CASE ~(new = t.id \/ new \in ToSet(R(k)))
    <3>1. R(k + 1) = Append(R(k), new)
      BY <2>4, <2>7
    <3>2. R(k + 1) \in Seq(Ids) /\ ToSet(R(k + 1)) = ToSet(R(k)) \cup {new}
      <4>1. R(k) \in Seq(Ids)
        BY <2>1
      <4>2. /\ Append(R(k), new) \in Seq(Ids)
            /\ ToSet(Append(R(k), new)) = ToSet(R(k)) \cup {new}
        BY <4>1, <2>5, ToSetAppend
      <4> QED BY <3>1, <4>2, Zenon
    <3> QED BY <2>1, <2>3, <2>7, <3>2
  <2> QED BY <2>6, <2>7
<1>11. Good(N)
  <2> HIDE DEF Good
  <2>1. N \in Ks
    <3> HIDE DEF Ks
    <3>1. \A k \in Nat : k \in Ks
      BY <1>9, <1>10, NatSetInduction
    <3> QED BY <3>1, <1>a
  <2> QED BY <2>1, <1>a
<1>12. Froms(N) = {n.from : n \in ToSet(t.inputs)}
  BY <1>a DEF ToSet
<1>13. WithInputs(t).depends_on = R(N)
  BY <1>5, <1>a DEF R, Task
<1> QED BY <1>5, <1>a, <1>11, <1>12, <1>13 DEF R

------------------------------------------------------------------------------
(* Plans as graphs.                                                         *)
UniqueIds(ts)  == \A i, j \in DOMAIN ts : ts[i].id = ts[j].id => i = j
ClosedPlan(ts) ==
  /\ ts \in Seq(Task) /\ UniqueIds(ts)
  /\ \A i \in DOMAIN ts : ToSet(ts[i].depends_on) \subseteq IdsOf(ts) \ {ts[i].id}

(* There is an order: some task of any set waits for none of the set.       *)
GroundedIn(ts, W) == \A S \in SUBSET W : S # {} => \E s \in S : DependsOn(ts, s) \cap S = {}
Grounded(ts)      == GroundedIn(ts, IdsOf(ts))

LEMMA DependsOnOne ==
  ASSUME NEW ts, UniqueIds(ts), NEW i \in DOMAIN ts
  PROVE  DependsOn(ts, ts[i].id) = ToSet(ts[i].depends_on)
<1>1. {t \in Tasks1(ts) : t.id = ts[i].id} = {ts[i]}
  BY DEF UniqueIds, Tasks1
<1> QED BY <1>1 DEF DependsOn

LEMMA DependsOnIds ==
  ASSUME NEW ts, ClosedPlan(ts), NEW id
  PROVE  DependsOn(ts, id) \subseteq IdsOf(ts) \ {id}
<1> SUFFICES ASSUME NEW d \in DependsOn(ts, id) PROVE d \in IdsOf(ts) \ {id}
  OBVIOUS
<1>1. PICK t \in Tasks1(ts) : t.id = id /\ d \in ToSet(t.depends_on)
  BY DEF DependsOn
<1>2. PICK i \in DOMAIN ts : t = ts[i]
  BY <1>1 DEF Tasks1
<1> QED BY <1>1, <1>2 DEF ClosedPlan

(* A set that holds what a task depends on and what its elements depend on. *)
BehindIn(ts, id, S) ==
  DependsOn(ts, id) \subseteq S /\ \A s \in S : DependsOn(ts, s) \subseteq S

LEMMA BeforeIsLeast ==
  ASSUME NEW ts, ClosedPlan(ts), NEW id
  PROVE  /\ Before(ts, id) \subseteq IdsOf(ts)
         /\ BehindIn(ts, id, Before(ts, id))
         /\ \A S \in SUBSET IdsOf(ts) : BehindIn(ts, id, S) => Before(ts, id) \subseteq S
<1>1. \A b : b \in Before(ts, id) <=>
               b \in IdsOf(ts) /\ \A S \in SUBSET IdsOf(ts) : BehindIn(ts, id, S) => b \in S
  BY DEF Before, BehindIn
<1>2. \A d \in DependsOn(ts, id) : d \in Before(ts, id)
  BY <1>1, DependsOnIds DEF BehindIn
<1>3. ASSUME NEW b \in Before(ts, id), NEW d \in DependsOn(ts, b) PROVE d \in Before(ts, id)
  BY <1>1, DependsOnIds DEF BehindIn
<1> QED BY <1>1, <1>2, <1>3 DEF BehindIn

(* What comes before a task is what it depends on and what comes before     *)
(* that.                                                                    *)
LEMMA BeforeUnfolds ==
  ASSUME NEW ts, ClosedPlan(ts), NEW id
  PROVE  Before(ts, id)
           = DependsOn(ts, id) \cup UNION {Before(ts, d) : d \in DependsOn(ts, id)}
<1> DEFINE B(x) == Before(ts, x)
           D(x) == DependsOn(ts, x)
           S == D(id) \cup UNION {B(d) : d \in D(id)}
<1>1. \A x : /\ B(x) \subseteq IdsOf(ts) /\ D(x) \subseteq B(x)
             /\ \A b \in B(x) : D(b) \subseteq B(x)
  BY BeforeIsLeast DEF BehindIn
<1>2. \A x : \A T \in SUBSET IdsOf(ts) : BehindIn(ts, x, T) => B(x) \subseteq T
  BY BeforeIsLeast
<1>3. \A x : D(x) \subseteq IdsOf(ts)
  BY DependsOnIds
<1>4. S \in SUBSET IdsOf(ts)
  BY <1>1, <1>3
<1>5. BehindIn(ts, id, S)
  BY <1>1 DEF BehindIn
<1>6. B(id) \subseteq S
  BY <1>2, <1>4, <1>5
<1>7. \A d \in D(id) : BehindIn(ts, d, B(id))
  BY <1>1 DEF BehindIn
<1>8. \A d \in D(id) : B(d) \subseteq B(id)
  BY <1>1, <1>2, <1>7
<1> QED BY <1>1, <1>6, <1>8

LEMMA IdsAreFinite ==
  ASSUME NEW S, NEW ts \in Seq(S)
  PROVE  IsFiniteSet(IdsOf(ts))
<1>1. Len(ts) \in Nat /\ DOMAIN ts = 1 .. Len(ts)
  OBVIOUS
<1>2. IsFiniteSet(DOMAIN ts)
  BY <1>1, FS_Interval
<1>3. [i \in DOMAIN ts |-> ts[i].id] \in Surjection(DOMAIN ts, IdsOf(ts))
  BY DEF Surjection, IdsOf
<1> QED BY <1>2, <1>3, FS_Surjection

(* The graph has no loop exactly if there is an order.                      *)
LEMMA GroundedIsLoopFree ==
  ASSUME NEW ts, ClosedPlan(ts)
  PROVE  Grounded(ts) <=> ~Loops(ts)
<1> DEFINE B(x) == Before(ts, x)
           D(x) == DependsOn(ts, x)
<1>1. \A x : D(x) \subseteq IdsOf(ts) /\ B(x) \subseteq IdsOf(ts)
  BY DependsOnIds, BeforeIsLeast
<1>2. \A x : B(x) = D(x) \cup UNION {B(d) : d \in D(x)}
  BY BeforeUnfolds
<1>3. ASSUME Grounded(ts), NEW id \in IdsOf(ts), id \in B(id) PROVE FALSE
  <2> DEFINE S == {c \in IdsOf(ts) : id \in B(c)}
  <2>1. PICK s \in S : D(s) \cap S = {}
    BY <1>3 DEF Grounded, GroundedIn
  <2>2. id \in D(s) \/ \E d \in D(s) : id \in B(d)
    BY <1>2
  <2> QED BY <2>1, <2>2, <1>1, <1>3
<1>4. ASSUME ~Loops(ts), NEW S \in SUBSET IdsOf(ts), S # {}, \A s \in S : D(s) \cap S # {}
      PROVE  FALSE
  <2> DEFINE F == {B(s) : s \in S}
  <2>1. \A X \in F : IsFiniteSet(X)
    BY <1>1, IdsAreFinite, FS_Subset DEF ClosedPlan
  <2>2. PICK X \in F : \A Y \in F : Y \subseteq X => Y = X
    <3>1. F # {}
      BY <1>4
    <3> HIDE DEF F
    <3> QED BY <2>1, <3>1, SmallestSet
  <2>3. PICK s \in S : X = B(s)
    BY <2>2
  <2>4. PICK d \in D(s) : d \in S
    BY <1>4
  <2>5. d \in B(s) /\ B(d) \subseteq B(s)
    BY <1>2, <2>4
  <2>6. B(d) = B(s)
    BY <2>2, <2>3, <2>4, <2>5
  <2> QED BY <2>4, <2>5, <2>6, <1>4 DEF Loops
<1> QED BY <1>3, <1>4 DEF Loops, Grounded, GroundedIn

------------------------------------------------------------------------------
(* The search.  Its stack is a path of the graph through tasks that are not *)
(* finished; a dependency of a task on it is still to be looked at, or      *)
(* finished, or the next on the stack (or in X, for the one being called).  *)
Walk(ts, st, fo) ==
  /\ DOMAIN fo \subseteq IdsOf(ts)
  /\ \A k \in 1 .. Len(st) : /\ st[k].id \in IdsOf(ts) \ DOMAIN fo
                             /\ ToSet(st[k].rest) \subseteq DependsOn(ts, st[k].id)
  /\ \A k, l \in 1 .. Len(st) : st[k].id = st[l].id => k = l
  /\ \A k, l \in 1 .. Len(st) : l = k + 1 => st[l].id \in DependsOn(ts, st[k].id)

Next1(st, k, X) == IF k = Len(st) THEN X ELSE {st[k + 1].id}
Complete(ts, st, fo, X) ==
  /\ \A id \in DOMAIN fo : DependsOn(ts, id) \subseteq DOMAIN fo
  /\ \A k \in 1 .. Len(st) :
       DependsOn(ts, st[k].id) \subseteq ToSet(st[k].rest) \cup DOMAIN fo \cup Next1(st, k, X)

(* What is gathered: for a finished task all that comes before it.          *)
Gathered(ts, st, fo) ==
  /\ \A id \in DOMAIN fo : fo[id] = Before(ts, id)
  /\ \A k \in 1 .. Len(st) :
       /\ st[k].set \subseteq Before(ts, st[k].id)
       /\ \A d \in DependsOn(ts, st[k].id) \ ToSet(st[k].rest) :
            d \in st[k].set /\ (d \in DOMAIN fo => fo[d] \subseteq st[k].set)

(* Its three moves: to look at a dependency, to call, to return.            *)
Looks(st, st2, dep, S) ==
  /\ Len(st) # 0 /\ Len(st2) = Len(st)
  /\ \A k \in 1 .. Len(st) : k # Len(st) => st2[k] = st[k]
  /\ st2[Len(st)].id = st[Len(st)].id
  /\ ToSet(st[Len(st)].rest) = ToSet(st2[Len(st)].rest) \cup {dep}
  /\ st2[Len(st)].set = st[Len(st)].set \cup S

Calls(ts, st, st2, id) ==
  /\ Len(st2) = Len(st) + 1
  /\ \A k \in 1 .. Len(st) : st2[k] = st[k]
  /\ st2[Len(st) + 1].id = id /\ st2[Len(st) + 1].set = {}
  /\ ToSet(st2[Len(st) + 1].rest) = DependsOn(ts, id)

Returns(st, st2, fo, fo2) ==
  /\ Len(st) # 0 /\ Len(st2) = Len(st) - 1
  /\ ToSet(st[Len(st)].rest) = {}
  /\ \A k \in 1 .. Len(st) - 1 :
       /\ st2[k].id = st[k].id /\ st2[k].rest = st[k].rest
       /\ st2[k].set = IF k = Len(st) - 1 THEN st[k].set \cup st[Len(st)].set ELSE st[k].set
  /\ DOMAIN fo2 = DOMAIN fo \cup {st[Len(st)].id}
  /\ \A id \in DOMAIN fo2 : fo2[id] = IF id = st[Len(st)].id THEN st[Len(st)].set ELSE fo[id]

LEMMA LooksOn ==
  ASSUME NEW ts, NEW st, NEW st2, NEW fo, NEW dep, NEW S, Len(st) \in Nat,
         Walk(ts, st, fo), Looks(st, st2, dep, S)
  PROVE  /\ Walk(ts, st2, fo)
         /\ Complete(ts, st, fo, {}) => Complete(ts, st2, fo, {dep} \ DOMAIN fo)
         /\ Gathered(ts, st, fo) /\ dep \in S /\ S \subseteq Before(ts, st[Len(st)].id)
            /\ (dep \in DOMAIN fo => fo[dep] \subseteq S)
            => Gathered(ts, st2, fo)
<1> DEFINE n == Len(st)
<1>1. /\ n \in 1 .. n /\ Len(st2) = n
      /\ \A k \in 1 .. n : st2[k].id = st[k].id
      /\ \A k \in 1 .. n : ToSet(st2[k].rest) \subseteq ToSet(st[k].rest)
      /\ \A k \in 1 .. n : k # n => ToSet(st2[k].rest) = ToSet(st[k].rest) /\ st2[k].set = st[k].set
      /\ ToSet(st[n].rest) = ToSet(st2[n].rest) \cup {dep}
      /\ st2[n].set = st[n].set \cup S
  BY DEF Looks
<1>2. Walk(ts, st2, fo)
  <2>1. \A k \in 1 .. n : st[k].id \in IdsOf(ts) \ DOMAIN fo
                          /\ ToSet(st[k].rest) \subseteq DependsOn(ts, st[k].id)
    BY DEF Walk
  <2>2. \A k \in 1 .. n : st2[k].id \in IdsOf(ts) \ DOMAIN fo
                          /\ ToSet(st2[k].rest) \subseteq DependsOn(ts, st2[k].id)
    BY <1>1, <2>1
  <2> QED BY <1>1, <2>2 DEF Walk
<1>3. ASSUME Complete(ts, st, fo, {}) PROVE Complete(ts, st2, fo, {dep} \ DOMAIN fo)
  <2>1. \A k \in 1 .. n : k # n => k + 1 \in 1 .. n
    OBVIOUS
  <2>2. \A k \in 1 .. n : k # n => Next1(st2, k, {dep} \ DOMAIN fo) = Next1(st, k, {})
    BY <1>1, <2>1 DEF Next1
  <2>3. Next1(st, n, {}) = {} /\ Next1(st2, n, {dep} \ DOMAIN fo) = {dep} \ DOMAIN fo
    BY <1>1 DEF Next1
  <2>4. \A k \in 1 .. n : DependsOn(ts, st[k].id)
                            \subseteq ToSet(st[k].rest) \cup DOMAIN fo \cup Next1(st, k, {})
    BY <1>3 DEF Complete
  <2>5. \A k \in 1 .. n : k # n => DependsOn(ts, st2[k].id)
              \subseteq ToSet(st2[k].rest) \cup DOMAIN fo \cup Next1(st2, k, {dep} \ DOMAIN fo)
    BY <1>1, <2>2, <2>4
  <2>6. DependsOn(ts, st2[n].id)
              \subseteq ToSet(st2[n].rest) \cup DOMAIN fo \cup Next1(st2, n, {dep} \ DOMAIN fo)
    BY <1>1, <2>3, <2>4
  <2> QED BY <1>1, <1>3, <2>5, <2>6 DEF Complete
<1>4. ASSUME Gathered(ts, st, fo), dep \in S, S \subseteq Before(ts, st[n].id),
             dep \in DOMAIN fo => fo[dep] \subseteq S
      PROVE  Gathered(ts, st2, fo)
  <2>1. \A k \in 1 .. n :
          /\ st[k].set \subseteq Before(ts, st[k].id)
          /\ \A d \in DependsOn(ts, st[k].id) \ ToSet(st[k].rest) :
               d \in st[k].set /\ (d \in DOMAIN fo => fo[d] \subseteq st[k].set)
    BY <1>4 DEF Gathered
  <2>2. \A k \in 1 .. n : k # n =>
          /\ st2[k].set \subseteq Before(ts, st2[k].id)
          /\ \A d \in DependsOn(ts, st2[k].id) \ ToSet(st2[k].rest) :
               d \in st2[k].set /\ (d \in DOMAIN fo => fo[d] \subseteq st2[k].set)
    BY <1>1, <2>1
  <2>3. /\ st2[n].set \subseteq Before(ts, st2[n].id)
        /\ \A d \in DependsOn(ts, st2[n].id) \ ToSet(st2[n].rest) :
             d \in st2[n].set /\ (d \in DOMAIN fo => fo[d] \subseteq st2[n].set)
    BY <1>1, <1>4, <2>1
  <2> QED BY <1>1, <1>4, <2>2, <2>3 DEF Gathered
<1> QED BY <1>2, <1>3, <1>4

LEMMA CallsOn ==
  ASSUME NEW ts, NEW st, NEW st2, NEW fo, NEW id \in IdsOf(ts) \ DOMAIN fo, Len(st) \in Nat,
         Walk(ts, st, fo), Calls(ts, st, st2, id),
         \A k \in 1 .. Len(st) : st[k].id # id,
         Len(st) # 0 => id \in DependsOn(ts, st[Len(st)].id)
  PROVE  /\ Walk(ts, st2, fo)
         /\ Complete(ts, st, fo, {id}) => Complete(ts, st2, fo, {})
         /\ Gathered(ts, st, fo) => Gathered(ts, st2, fo)
<1> DEFINE n == Len(st)
<1>1. /\ Len(st2) = n + 1 /\ \A k \in 1 .. n : k \in 1 .. n + 1 /\ k # n + 1 /\ st2[k] = st[k]
      /\ \A k \in 1 .. n + 1 : k \in 1 .. n \/ k = n + 1
      /\ st2[n + 1].id = id /\ st2[n + 1].set = {}
      /\ ToSet(st2[n + 1].rest) = DependsOn(ts, id)
      /\ n + 1 \in 1 .. n + 1
  BY DEF Calls
<1>2. Walk(ts, st2, fo)
  <2>1. \A k, l \in 1 .. n + 1 : st2[k].id = st2[l].id => k = l
    BY <1>1 DEF Walk
  <2>2. ASSUME NEW k \in 1 .. n + 1, NEW l \in 1 .. n + 1, l = k + 1
        PROVE  st2[l].id \in DependsOn(ts, st2[k].id)
    <3>1. CASE l = n + 1
      <4>1. k = n /\ n # 0 /\ st2[k] = st[k]
        BY <3>1, <2>2, <1>1
      <4> QED BY <3>1, <4>1, <1>1
    <3>2. CASE l # n + 1
      <4>1. l \in 1 .. n /\ k \in 1 .. n
        BY <3>2, <2>2, <1>1
      <4> QED BY <4>1, <2>2, <1>1 DEF Walk
    <3> QED BY <3>1, <3>2
  <2>3. \A k \in 1 .. n + 1 : /\ st2[k].id \in IdsOf(ts) \ DOMAIN fo
                              /\ ToSet(st2[k].rest) \subseteq DependsOn(ts, st2[k].id)
    BY <1>1 DEF Walk
  <2> QED BY <1>1, <2>1, <2>2, <2>3 DEF Walk
<1>3. ASSUME Complete(ts, st, fo, {id}) PROVE Complete(ts, st2, fo, {})
  <2>1. \A k \in 1 .. n : Next1(st2, k, {}) = Next1(st, k, {id})
    <3> SUFFICES ASSUME NEW k \in 1 .. n PROVE Next1(st2, k, {}) = Next1(st, k, {id})
      OBVIOUS
    <3>1. k # n => k + 1 \in 1 .. n
      OBVIOUS
    <3> QED BY <1>1, <3>1 DEF Next1
  <2>2. \A k \in 1 .. n : DependsOn(ts, st2[k].id)
              \subseteq ToSet(st2[k].rest) \cup DOMAIN fo \cup Next1(st2, k, {})
    BY <1>1, <1>3, <2>1 DEF Complete
  <2>3. DependsOn(ts, st2[n + 1].id)
              \subseteq ToSet(st2[n + 1].rest) \cup DOMAIN fo \cup Next1(st2, n + 1, {})
    BY <1>1
  <2> QED BY <1>1, <1>3, <2>2, <2>3 DEF Complete
<1>4. ASSUME Gathered(ts, st, fo) PROVE Gathered(ts, st2, fo)
  <2>1. \A k \in 1 .. n :
          /\ st2[k].set \subseteq Before(ts, st2[k].id)
          /\ \A d \in DependsOn(ts, st2[k].id) \ ToSet(st2[k].rest) :
               d \in st2[k].set /\ (d \in DOMAIN fo => fo[d] \subseteq st2[k].set)
    BY <1>1, <1>4 DEF Gathered
  <2> QED BY <1>1, <1>4, <2>1 DEF Gathered
<1> QED BY <1>2, <1>3, <1>4

LEMMA ReturnsOn ==
  ASSUME NEW ts, ClosedPlan(ts), NEW st, NEW st2, NEW fo, NEW fo2, Len(st) \in Nat,
         Walk(ts, st, fo), Returns(st, st2, fo, fo2)
  PROVE  /\ Walk(ts, st2, fo2)
         /\ Complete(ts, st, fo, {}) => Complete(ts, st2, fo2, {})
         /\ Complete(ts, st, fo, {}) /\ Gathered(ts, st, fo) => Gathered(ts, st2, fo2)
         /\ Complete(ts, st, fo, {}) /\ GroundedIn(ts, DOMAIN fo) => GroundedIn(ts, DOMAIN fo2)
<1> DEFINE n == Len(st)
           m == n - 1
           top == st[n]
<1>1. /\ n \in 1 .. n /\ m \in Nat /\ Len(st2) = m /\ n = m + 1
      /\ \A k \in 1 .. m : k \in 1 .. n /\ k # n /\ k + 1 \in 1 .. n
      /\ ToSet(top.rest) = {}
      /\ \A k \in 1 .. m : st2[k].id = st[k].id /\ st2[k].rest = st[k].rest
      /\ \A k \in 1 .. m : st2[k].set = IF k = m THEN st[k].set \cup top.set ELSE st[k].set
      /\ DOMAIN fo2 = DOMAIN fo \cup {top.id}
      /\ \A id \in DOMAIN fo2 : fo2[id] = IF id = top.id THEN top.set ELSE fo[id]
  <2>1. Len(st) # 0
    BY DEF Returns
  <2>2. /\ n \in 1 .. n /\ m \in Nat /\ n = m + 1
        /\ \A k \in 1 .. m : k \in 1 .. n /\ k # n /\ k + 1 \in 1 .. n
    BY <2>1
  <2> QED BY <2>2 DEF Returns
<1>2. /\ top.id \in IdsOf(ts) \ DOMAIN fo
      /\ \A k \in 1 .. m : st[k].id # top.id
      /\ m # 0 => top.id \in DependsOn(ts, st[m].id)
  <2>1. m # 0 => m \in 1 .. n
    BY <1>1
  <2>2. top.id \in IdsOf(ts) \ DOMAIN fo
    BY <1>1 DEF Walk
  <2>3. \A k \in 1 .. m : st[k].id # top.id
    BY <1>1 DEF Walk
  <2>4. m # 0 => top.id \in DependsOn(ts, st[m].id)
    BY <1>1, <2>1 DEF Walk
  <2> QED BY <2>2, <2>3, <2>4
<1> HIDE DEF top
<1>3. Walk(ts, st2, fo2)
  <2>1. \A k \in 1 .. m : /\ st[k].id \in IdsOf(ts) \ DOMAIN fo
                          /\ ToSet(st[k].rest) \subseteq DependsOn(ts, st[k].id)
    BY <1>1 DEF Walk
  <2>2. \A k \in 1 .. m : /\ st2[k].id \in IdsOf(ts) \ DOMAIN fo2
                          /\ ToSet(st2[k].rest) \subseteq DependsOn(ts, st2[k].id)
    BY <1>1, <1>2, <2>1
  <2>3. DOMAIN fo2 \subseteq IdsOf(ts)
    BY <1>1, <1>2 DEF Walk
  <2>4. \A k, l \in 1 .. m : /\ st2[k].id = st2[l].id => k = l
                             /\ l = k + 1 => st2[l].id \in DependsOn(ts, st2[k].id)
    BY <1>1 DEF Walk
  <2> QED BY <1>1, <2>2, <2>3, <2>4 DEF Walk
<1>4. ASSUME Complete(ts, st, fo, {})
      PROVE  /\ DependsOn(ts, top.id) \subseteq DOMAIN fo
             /\ Complete(ts, st2, fo2, {})
             /\ \A k \in 1 .. m : top.id \in DependsOn(ts, st[k].id) \ ToSet(st[k].rest) => k = m
  <2>1. \A k \in 1 .. n : DependsOn(ts, st[k].id)
                            \subseteq ToSet(st[k].rest) \cup DOMAIN fo \cup Next1(st, k, {})
    BY <1>4 DEF Complete
  <2>2. Next1(st, n, {}) = {}
    BY DEF Next1
  <2>3. DependsOn(ts, top.id) \subseteq DOMAIN fo
    BY <1>1, <2>1, <2>2 DEF top
  <2>4. \A k \in 1 .. m : Next1(st, k, {}) = {st[k + 1].id}
    BY <1>1 DEF Next1
  <2>5. ASSUME NEW k \in 1 .. m, k # m
        PROVE  /\ k + 1 \in 1 .. m /\ Next1(st2, k, {}) = {st[k + 1].id}
               /\ st[k + 1].id # top.id
    <3>1. k + 1 \in 1 .. m
      BY <1>1, <2>5
    <3>2. Next1(st2, k, {}) = {st2[k + 1].id}
      BY <1>1, <2>5, <3>1 DEF Next1
    <3> QED BY <1>1, <1>2, <3>1, <3>2
  <2>6. ASSUME NEW k \in 1 .. m
        PROVE  DependsOn(ts, st2[k].id)
                 \subseteq ToSet(st2[k].rest) \cup DOMAIN fo2 \cup Next1(st2, k, {})
    <3>1. DependsOn(ts, st[k].id) \subseteq ToSet(st[k].rest) \cup DOMAIN fo \cup {st[k + 1].id}
      BY <1>1, <2>1, <2>4
    <3>2. CASE k = m
      <4>1. st[k + 1].id = top.id
        BY <3>2, <1>1 DEF top
      <4> QED BY <3>1, <4>1, <1>1
    <3>3. CASE k # m
      BY <3>1, <3>3, <1>1, <2>5
    <3> QED BY <3>2, <3>3
  <2>7. \A id \in DOMAIN fo2 : DependsOn(ts, id) \subseteq DOMAIN fo2
    BY <1>1, <1>4, <2>3 DEF Complete
  <2>8. ASSUME NEW k \in 1 .. m, top.id \in DependsOn(ts, st[k].id) \ ToSet(st[k].rest), k # m
        PROVE  FALSE
    <3>1. DependsOn(ts, st[k].id) \subseteq ToSet(st[k].rest) \cup DOMAIN fo \cup {st[k + 1].id}
      BY <1>1, <2>1, <2>4
    <3> QED BY <3>1, <2>5, <2>8, <1>2
  <2> QED BY <1>1, <2>3, <2>6, <2>7, <2>8 DEF Complete
<1>5. ASSUME Complete(ts, st, fo, {}), Gathered(ts, st, fo) PROVE Gathered(ts, st2, fo2)
  <2>1. \A k \in 1 .. n :
          /\ st[k].set \subseteq Before(ts, st[k].id)
          /\ \A d \in DependsOn(ts, st[k].id) \ ToSet(st[k].rest) :
               d \in st[k].set /\ (d \in DOMAIN fo => fo[d] \subseteq st[k].set)
    BY <1>5 DEF Gathered
  <2>2. \A id \in DOMAIN fo : fo[id] = Before(ts, id)
    BY <1>5 DEF Gathered
  <2>3. top.set = Before(ts, top.id)
    <3>1. top.set \subseteq Before(ts, top.id)
      BY <1>1, <2>1 DEF top
    <3>2. \A d \in DependsOn(ts, top.id) : d \in top.set /\ Before(ts, d) \subseteq top.set
      BY <1>1, <1>4, <1>5, <2>1, <2>2 DEF top
    <3>3. Before(ts, top.id) \subseteq top.set
      BY <3>2, BeforeUnfolds
    <3> QED BY <3>1, <3>3
  <2>4. \A id \in DOMAIN fo2 : fo2[id] = Before(ts, id)
    BY <1>1, <2>2, <2>3
  <2>5. ASSUME NEW k \in 1 .. m
        PROVE  st2[k].set \subseteq Before(ts, st2[k].id)
    <3>1. st[k].set \subseteq Before(ts, st[k].id)
      BY <1>1, <2>1
    <3>2. CASE k = m
      <4>1. top.id \in DependsOn(ts, st[k].id)
        <5>1. m # 0
          BY <3>2, <1>1
        <5> QED BY <3>2, <5>1, <1>2
      <4>2. top.set \subseteq Before(ts, st[k].id)
        BY <4>1, <2>3, BeforeUnfolds
      <4> QED BY <3>1, <3>2, <4>2, <1>1
    <3>3. CASE k # m
      BY <3>1, <3>3, <1>1
    <3> QED BY <3>2, <3>3
  <2>6. ASSUME NEW k \in 1 .. m, NEW d \in DependsOn(ts, st2[k].id) \ ToSet(st2[k].rest)
        PROVE  d \in st2[k].set /\ (d \in DOMAIN fo2 => fo2[d] \subseteq st2[k].set)
    <3>1. d \in DependsOn(ts, st[k].id) \ ToSet(st[k].rest) /\ st[k].set \subseteq st2[k].set
      BY <1>1
    <3>2. d \in st[k].set /\ (d \in DOMAIN fo => fo[d] \subseteq st[k].set)
      BY <3>1, <1>1, <2>1
    <3>3. CASE d = top.id
      <4>1. k = m
        BY <3>1, <3>3, <1>4, <1>5
      <4>2. st2[k].set = st[k].set \cup top.set /\ fo2[top.id] = top.set
        BY <4>1, <1>1
      <4> QED BY <3>2, <3>3, <4>2
    <3>4. CASE d # top.id
      BY <3>1, <3>2, <3>4, <1>1
    <3> QED BY <3>3, <3>4
  <2> QED BY <1>1, <2>4, <2>5, <2>6 DEF Gathered
<1>6. ASSUME Complete(ts, st, fo, {}), GroundedIn(ts, DOMAIN fo),
             NEW S \in SUBSET DOMAIN fo2, S # {}
      PROVE  \E s \in S : DependsOn(ts, s) \cap S = {}
  <2>1. DependsOn(ts, top.id) \subseteq DOMAIN fo
    BY <1>4, <1>6
  <2>2. CASE S \cap DOMAIN fo = {}
    <3>1. S = {top.id}
      BY <2>2, <1>1, <1>6
    <3> QED BY <3>1, <2>1, <1>2
  <2>3. CASE S \cap DOMAIN fo # {}
    <3>1. PICK s \in S \cap DOMAIN fo : DependsOn(ts, s) \cap (S \cap DOMAIN fo) = {}
      BY <2>3, <1>6 DEF GroundedIn
    <3>2. DependsOn(ts, s) \subseteq DOMAIN fo
      BY <1>6 DEF Complete
    <3> QED BY <3>1, <3>2
  <2> QED BY <2>2, <2>3
<1> QED BY <1>3, <1>4, <1>5, <1>6 DEF GroundedIn

(* A task of the stack that the last one depends on closes a loop.          *)
LEMMA WalkBack ==
  ASSUME NEW ts, NEW st, NEW fo, Len(st) \in Nat, Walk(ts, st, fo), NEW k \in 1 .. Len(st),
         st[k].id \in DependsOn(ts, st[Len(st)].id)
  PROVE  ~Grounded(ts)
<1> DEFINE n == Len(st)
           C == {st[j].id : j \in k .. n}
<1>1. C \in SUBSET IdsOf(ts) /\ st[k].id \in C
  BY DEF Walk
<1>2. ASSUME NEW j \in k .. n PROVE DependsOn(ts, st[j].id) \cap C # {}
  <2>1. CASE j = n
    BY <2>1, <1>1
  <2>2. CASE j # n
    <3>1. j \in 1 .. n /\ j + 1 \in 1 .. n /\ j + 1 \in k .. n
      BY <2>2
    <3>2. st[j + 1].id \in DependsOn(ts, st[j].id)
      BY <3>1 DEF Walk
    <3> QED BY <3>1, <3>2
  <2> QED BY <2>1, <2>2
<1>3. \A s \in C : DependsOn(ts, s) \cap C # {}
  BY <1>2
<1> HIDE DEF C
<1> QED BY <1>1, <1>3 DEF Grounded, GroundedIn

------------------------------------------------------------------------------
(* The expansion.                                                           *)
LEMMA SeqOfFunction ==
  ASSUME NEW S, NEW n \in Nat, NEW f \in [1 .. n -> S]
  PROVE  f \in Seq(S) /\ Len(f) = n /\ DOMAIN f = 1 .. n
<1>1. f \in Seq(S) /\ DOMAIN f = 1 .. n
  OBVIOUS
<1>2. Len(f) \in Nat /\ 1 .. Len(f) = 1 .. n
  BY <1>1
<1>3. Len(f) = n
  <2>1. ASSUME Len(f) < n PROVE FALSE
    <3>1. n \in 1 .. n /\ n \notin 1 .. Len(f)
      BY <2>1, <1>2
    <3> QED BY <3>1, <1>2
  <2>2. ASSUME n < Len(f) PROVE FALSE
    <3>1. Len(f) \in 1 .. Len(f) /\ Len(f) \notin 1 .. n
      BY <2>2, <1>2
    <3> QED BY <3>1, <1>2
  <2> QED BY <1>2, <2>1, <2>2
<1> QED BY <1>1, <1>3

LEMMA CopyIdsAre ==
  ASSUME NEW t \in Task
  PROVE  /\ CopyIds(t) \in Seq(Ids) /\ Len(CopyIds(t)) = Len(t.each) /\ Len(t.each) \in Nat
         /\ t.each \in Seq(Projects)
         /\ \A k \in 1 .. Len(t.each) : CopyIds(t)[k] = Append(t.id, t.each[k])
<1>1. t.id \in Ids /\ t.each \in Seq(Projects) /\ DOMAIN t.each = 1 .. Len(t.each)
      /\ Len(t.each) \in Nat
  BY DEF Task
<1>2. \A k \in 1 .. Len(t.each) : Append(t.id, t.each[k]) \in Ids
  <2> SUFFICES ASSUME NEW k \in 1 .. Len(t.each) PROVE Append(t.id, t.each[k]) \in Ids
    OBVIOUS
  <2>1. t.each[k] \in Names \cup Projects
    BY <1>1
  <2> QED BY <1>1, <2>1, AppendProperties DEF Ids
<1>3. CopyIds(t) \in [1 .. Len(t.each) -> Ids]
  BY <1>1, <1>2 DEF CopyIds
<1>4. \A k \in 1 .. Len(t.each) : CopyIds(t)[k] = Append(t.id, t.each[k])
  BY <1>1 DEF CopyIds
<1> QED BY <1>1, <1>3, <1>4, SeqOfFunction

LEMMA ExpansionIs ==
  ASSUME NEW ts \in Seq(Task), NEW id, Expandable(ts, id)
  PROVE  \E m \in Templates(ts) :
           /\ ts[m].id = id /\ Expansion(ts, id) = CopyIds(ts[m])
           /\ \A j \in Templates(ts) : ts[j].id = id => j <= m
<1> DEFINE J == {j \in Templates(ts) : ts[j].id = id}
<1>1. Len(ts) \in Nat /\ J \in SUBSET (0 .. Len(ts)) /\ J # {}
  BY DEF Expandable, Templates
<1> DEFINE m == Max(J)
<1>2. m \in J /\ \A j \in J : m >= j
  <2> HIDE DEF J
  <2> QED BY <1>1, MaxIsGreatest
<1>3. Expansion(ts, id) = CopyIds(ts[m])
  BY DEF Expansion
<1>4. \A j \in J : j \in Nat
  BY <1>1
<1> HIDE DEF m
<1> QED BY <1>2, <1>3, <1>4

LEMMA ToSetFlatten ==
  ASSUME NEW S, NEW seqs \in Seq(Seq(S))
  PROVE  ToSet(FlattenSeq(seqs)) = UNION {ToSet(seqs[i]) : i \in DOMAIN seqs}
<1> DEFINE flat == FlattenSeq(seqs)
<1>1. PICK at : Listing(flat, seqs, Len(seqs), at)
  BY FlattenSeqLists
<1>2. flat \in Seq(S) /\ DOMAIN flat = 1 .. Len(flat) /\ DOMAIN seqs = 1 .. Len(seqs)
  BY FlattenSeqLists
<1> HIDE DEF flat
<1>3. ASSUME NEW j \in DOMAIN flat PROVE \E i \in DOMAIN seqs : flat[j] \in ToSet(seqs[i])
  <2>1. /\ at[j][1] \in DOMAIN seqs /\ at[j][2] \in 1 .. Len(seqs[at[j][1]])
        /\ flat[j] = seqs[at[j][1]][at[j][2]]
    BY <1>1, <1>2 DEF Listing
  <2>2. DOMAIN seqs[at[j][1]] = 1 .. Len(seqs[at[j][1]])
    BY <2>1
  <2> QED BY <2>1, <2>2 DEF ToSet
<1>4. ASSUME NEW i \in DOMAIN seqs, NEW x \in ToSet(seqs[i]) PROVE x \in ToSet(flat)
  <2>1. DOMAIN seqs[i] = 1 .. Len(seqs[i])
    OBVIOUS
  <2>2. PICK k \in 1 .. Len(seqs[i]) : x = seqs[i][k]
    BY <2>1 DEF ToSet
  <2>3. PICK j \in 1 .. Len(flat) : at[j] = <<i, k>>
    BY <1>1, <1>2, <2>2 DEF Listing
  <2>4. flat[j] = x
    BY <1>1, <2>2, <2>3 DEF Listing
  <2> QED BY <1>2, <2>4 DEF ToSet
<1>5. ASSUME NEW x \in ToSet(flat) PROVE \E i \in DOMAIN seqs : x \in ToSet(seqs[i])
  BY <1>3 DEF ToSet
<1>6. ToSet(flat) = UNION {ToSet(seqs[i]) : i \in DOMAIN seqs}
  BY <1>4, <1>5
<1> QED BY <1>6 DEF flat

LEMMA RewrittenIs ==
  ASSUME NEW ts \in Seq(Task), NEW deps \in Seq(Ids)
  PROVE  /\ Rewritten(ts, deps) \in Seq(Ids)
         /\ ToSet(Rewritten(ts, deps))
              = UNION {IF Expandable(ts, d) THEN ToSet(Expansion(ts, d)) ELSE {d} : d \in ToSet(deps)}
<1> DEFINE Part(d) == IF Expandable(ts, d) THEN Expansion(ts, d) ELSE <<d>>
           parts == [k \in DOMAIN deps |-> Part(deps[k])]
<1>1. ASSUME NEW d \in Ids
      PROVE  /\ Part(d) \in Seq(Ids)
             /\ ToSet(Part(d)) = IF Expandable(ts, d) THEN ToSet(Expansion(ts, d)) ELSE {d}
  <2>1. CASE Expandable(ts, d)
    <3>1. PICK m \in Templates(ts) : Expansion(ts, d) = CopyIds(ts[m])
      BY <2>1, ExpansionIs
    <3>2. ts[m] \in Task
      BY DEF Templates
    <3> QED BY <2>1, <3>1, <3>2, CopyIdsAre
  <2>2. CASE ~Expandable(ts, d)
    <3>1. <<d>> \in Seq(Ids) /\ ToSet(<<d>>) = {d}
      BY DEF ToSet
    <3> QED BY <2>2, <3>1
  <2> QED BY <2>1, <2>2
<1>2. Len(deps) \in Nat /\ DOMAIN deps = 1 .. Len(deps) /\ \A k \in DOMAIN deps : deps[k] \in Ids
  OBVIOUS
<1>3. parts \in Seq(Seq(Ids)) /\ DOMAIN parts = DOMAIN deps
  <2> HIDE DEF Part
  <2>1. parts \in [1 .. Len(deps) -> Seq(Ids)]
    BY <1>1, <1>2
  <2> QED BY <1>2, <2>1
<1>4. Rewritten(ts, deps) = FlattenSeq(parts)
  BY DEF Rewritten
<1>5. \A k \in DOMAIN deps : parts[k] = Part(deps[k])
  OBVIOUS
<1> HIDE DEF parts, Part
<1>6. /\ FlattenSeq(parts) \in Seq(Ids)
      /\ ToSet(FlattenSeq(parts)) = UNION {ToSet(parts[i]) : i \in DOMAIN parts}
  BY <1>3, FlattenSeqLists, ToSetFlatten
<1>7. UNION {ToSet(parts[i]) : i \in DOMAIN parts}
        = UNION {IF Expandable(ts, d) THEN ToSet(Expansion(ts, d)) ELSE {d} : d \in ToSet(deps)}
  <2> DEFINE Q(d) == IF Expandable(ts, d) THEN ToSet(Expansion(ts, d)) ELSE {d}
  <2>1. \A k \in DOMAIN deps : ToSet(parts[k]) = Q(deps[k])
    BY <1>1, <1>2, <1>5
  <2> HIDE DEF Q
  <2>2. UNION {ToSet(parts[i]) : i \in DOMAIN parts} = UNION {Q(d) : d \in ToSet(deps)}
    <3>1. \A i \in DOMAIN deps : deps[i] \in ToSet(deps)
      BY DEF ToSet
    <3>2. \A d \in ToSet(deps) : \E i \in DOMAIN deps : d = deps[i]
      BY DEF ToSet
    <3> QED BY <1>3, <2>1, <3>1, <3>2
  <2> QED BY <2>2 DEF Q
<1> QED BY <1>4, <1>6, <1>7

(* The copies of a task, one by one.                                        *)
LEMMA CopiesAre ==
  ASSUME NEW ts \in Seq(Task), NEW t \in Task
  PROVE  /\ Copies(ts, t) \in Seq(Task)
         /\ ~Expandable(ts, t.id) =>
              /\ Len(Copies(ts, t)) = 1
              /\ Copies(ts, t)[1].id = t.id /\ Copies(ts, t)[1].project = t.project
              /\ Copies(ts, t)[1].each = t.each
         /\ Expandable(ts, t.id) =>
              /\ Len(Copies(ts, t)) \in Nat
              /\ \A k \in Nat : k \in 1 .. Len(Copies(ts, t)) <=>
                   k \in 1 .. Len(t.each) /\ k \in 1 .. Len(Expansion(ts, t.id))
              /\ \A k \in 1 .. Len(Copies(ts, t)) :
                   /\ Copies(ts, t)[k].id = Expansion(ts, t.id)[k]
                   /\ Copies(ts, t)[k].project = t.each[k] /\ Copies(ts, t)[k].each = <<>>
         /\ \A k \in 1 .. Len(Copies(ts, t)) :
              /\ Copies(ts, t)[k].depends_on = Rewritten(ts, t.depends_on)
              /\ Copies(ts, t)[k].inputs = t.inputs /\ Copies(ts, t)[k].outputs = t.outputs
<1> DEFINE copy == [t EXCEPT !.depends_on = Rewritten(ts, t.depends_on)]
           ids == Expansion(ts, t.id)
<1>1. Rewritten(ts, t.depends_on) \in Seq(Ids)
  BY RewrittenIs DEF Task
<1>2. copy \in Task
  BY <1>1 DEF Task
<1>3. CASE ~Expandable(ts, t.id)
  <2>1. Copies(ts, t) = <<copy>>
    BY <1>3 DEF Copies
  <2>2. <<copy>> \in Seq(Task) /\ Len(<<copy>>) = 1 /\ <<copy>>[1] = copy
    BY <1>2
  <2>3. /\ copy.id = t.id /\ copy.project = t.project /\ copy.each = t.each
        /\ copy.depends_on = Rewritten(ts, t.depends_on)
        /\ copy.inputs = t.inputs /\ copy.outputs = t.outputs
    BY DEF Task
  <2> HIDE DEF copy
  <2>4. \A k \in 1 .. 1 : <<copy>>[k] = copy
    OBVIOUS
  <2> QED BY <2>1, <2>2, <2>3, <2>4, <1>3
<1>4. CASE Expandable(ts, t.id)
  <2>1. PICK m \in Templates(ts) : ids = CopyIds(ts[m])
    BY <1>4, ExpansionIs
  <2>2. ids \in Seq(Ids) /\ Len(ids) \in Nat /\ \A k \in 1 .. Len(ids) : ids[k] \in Ids
    <3>1. ts[m] \in Task
      BY DEF Templates
    <3>2. ids \in Seq(Ids)
      BY <2>1, <3>1, CopyIdsAre
    <3> HIDE DEF ids
    <3> QED BY <3>2
  <2>3. t.each \in Seq(Projects) /\ Len(t.each) \in Nat
        /\ \A k \in 1 .. Len(t.each) : t.each[k] \in Projects
    BY DEF Task
  <2> DEFINE M == {Len(t.each), Len(ids)}
             n == Min(M)
  <2>4. n \in M /\ \A y \in M : n <= y
    <3>1. M \in SUBSET Nat /\ M # {}
      BY <2>2, <2>3
    <3> HIDE DEF M
    <3> QED BY <3>1, MinIsLeast
  <2>5. n \in Nat /\ \A k \in Nat : k \in 1 .. n <=> k \in 1 .. Len(t.each) /\ k \in 1 .. Len(ids)
    <3>1. (n = Len(t.each) \/ n = Len(ids)) /\ n <= Len(t.each) /\ n <= Len(ids)
      BY <2>4
    <3> HIDE DEF n, M, ids
    <3> QED BY <2>2, <2>3, <3>1
  <2> DEFINE r(k) == [copy EXCEPT !.id = ids[k], !.project = t.each[k], !.each = <<>>]
             f == [k \in 1 .. n |-> r(k)]
  <2>6. Copies(ts, t) = f
    BY <1>4 DEF Copies
  <2> HIDE DEF n
  <2>7. ASSUME NEW k \in 1 .. n
        PROVE  /\ f[k].id = ids[k] /\ f[k].project = t.each[k] /\ f[k].each = <<>>
               /\ f[k].depends_on = Rewritten(ts, t.depends_on)
               /\ f[k].inputs = t.inputs /\ f[k].outputs = t.outputs
               /\ f[k] \in Task
    <3>1. ids[k] \in Ids /\ t.each[k] \in Projects /\ <<>> \in Seq(Projects)
      BY <2>2, <2>3, <2>5
    <3>2. f[k] = r(k)
      OBVIOUS
    <3>3. copy.depends_on = Rewritten(ts, t.depends_on) /\ copy.inputs = t.inputs
          /\ copy.outputs = t.outputs
      BY DEF Task
    <3> HIDE DEF f, ids, copy
    <3>4. r(k).id = ids[k] /\ r(k).project = t.each[k] /\ r(k).each = <<>>
          /\ r(k).depends_on = copy.depends_on /\ r(k).inputs = copy.inputs
          /\ r(k).outputs = copy.outputs /\ r(k) \in Task
      BY <1>2, <3>1 DEF Task
    <3> QED BY <3>2, <3>3, <3>4
  <2>8. f \in [1 .. n -> Task]
    BY <2>7
  <2> HIDE DEF f
  <2>9. f \in Seq(Task) /\ Len(f) = n
    BY <2>5, <2>8, SeqOfFunction
  <2> QED BY <2>5, <2>6, <2>7, <2>9, <1>4
<1> QED BY <1>3, <1>4

(* The whole: each task of the expanded plan is one copy, with its inputs,  *)
(* and each copy is one task.                                               *)
CopyAt(ts, p) == Copies(ts, ts[p[1]])[p[2]]
IsExpansion(es, ts, at) ==
  /\ at \in [1 .. Len(es) -> Nat \X Nat]
  /\ \A j \in 1 .. Len(es) :
       /\ at[j][1] \in 1 .. Len(ts) /\ at[j][2] \in 1 .. Len(Copies(ts, ts[at[j][1]]))
       /\ es[j] = WithInputs(CopyAt(ts, at[j]))
  /\ \A j, l \in 1 .. Len(es) : at[j] = at[l] => j = l
  /\ \A i \in 1 .. Len(ts) : \A k \in 1 .. Len(Copies(ts, ts[i])) :
       \E j \in 1 .. Len(es) : at[j] = <<i, k>>

LEMMA ExpandedIs ==
  ASSUME NEW ts \in Seq(Task)
  PROVE  Expanded(ts) \in Seq(Task) /\ \E at : IsExpansion(Expanded(ts), ts, at)
<1> DEFINE parts == [i \in DOMAIN ts |-> Copies(ts, ts[i])]
           all == FlattenSeq(parts)
           es == [i \in DOMAIN all |-> WithInputs(all[i])]
<1>1. Len(ts) \in Nat /\ DOMAIN ts = 1 .. Len(ts) /\ \A i \in DOMAIN ts : ts[i] \in Task
  OBVIOUS
<1>2. Expanded(ts) = es
  BY DEF Expanded
<1>3. parts \in [1 .. Len(ts) -> Seq(Task)]
  BY <1>1, CopiesAre
<1>4. parts \in Seq(Seq(Task)) /\ Len(parts) = Len(ts)
  <2> HIDE DEF parts
  <2> QED BY <1>1, <1>3, SeqOfFunction
<1>5. \A i \in 1 .. Len(ts) : parts[i] = Copies(ts, ts[i])
  BY <1>1
<1> HIDE DEF parts
<1>6. PICK at : Listing(all, parts, Len(ts), at)
  BY <1>4, FlattenSeqLists
<1>7. all \in Seq(Task) /\ DOMAIN all = 1 .. Len(all) /\ Len(all) \in Nat
  BY <1>4, FlattenSeqLists
<1> HIDE DEF all
<1>8. \A j \in 1 .. Len(all) : WithInputs(all[j]) \in Task
  <2> SUFFICES ASSUME NEW j \in 1 .. Len(all) PROVE WithInputs(all[j]) \in Task
    OBVIOUS
  <2>1. all[j] \in Task
    BY <1>7
  <2> QED BY <2>1, WithInputsAdds DEF Task
<1>9. es \in [1 .. Len(all) -> Task]
  BY <1>7, <1>8
<1>10. \A j \in 1 .. Len(all) : es[j] = WithInputs(all[j])
  BY <1>7
<1> HIDE DEF es
<1>11. es \in Seq(Task) /\ Len(es) = Len(all)
  BY <1>7, <1>9, SeqOfFunction
<1>12. IsExpansion(es, ts, at)
  <2>1. \A j \in 1 .. Len(all) :
          /\ at[j][1] \in 1 .. Len(ts) /\ at[j][2] \in 1 .. Len(parts[at[j][1]])
          /\ all[j] = parts[at[j][1]][at[j][2]]
    BY <1>6 DEF Listing
  <2>2. \A j \in 1 .. Len(all) :
          /\ at[j][1] \in 1 .. Len(ts) /\ at[j][2] \in 1 .. Len(Copies(ts, ts[at[j][1]]))
          /\ es[j] = WithInputs(CopyAt(ts, at[j]))
    BY <1>5, <1>10, <2>1 DEF CopyAt
  <2>3. /\ at \in [1 .. Len(all) -> Nat \X Nat]
        /\ \A j, l \in 1 .. Len(all) : at[j] = at[l] => j = l
    BY <1>6 DEF Listing
  <2>4. \A i \in 1 .. Len(ts) : \A k \in 1 .. Len(Copies(ts, ts[i])) :
          \E j \in 1 .. Len(all) : at[j] = <<i, k>>
    BY <1>5, <1>6 DEF Listing
  <2> QED BY <1>11, <2>2, <2>3, <2>4 DEF IsExpansion
<1> QED BY <1>2, <1>11, <1>12

------------------------------------------------------------------------------
(* The state.                                                               *)
PlanClosed == pc \notin {"read", "check", "invalid"} => ClosedPlan(tasks)
AtRest     == pc \notin Searches \cup {"invalid"} => stack = <<>>
NothingFound == pc \in {"read", "check", "loaded"} => found = <<>>

(* Where the search is, and what holds of it: for the cycle search always,  *)
(* for the ancestors if the graph has no loop.                              *)
OnItsWay ==
  /\ pc \in Searches => Walk(tasks, stack, found)
  /\ pc = "cycle" => Complete(tasks, stack, found, {}) /\ GroundedIn(tasks, DOMAIN found)
  /\ pc \in {"wire", "analyze"} /\ Grounded(tasks) =>
       Complete(tasks, stack, found, {}) /\ Gathered(tasks, stack, found)

SearchInv == PlanTypeOK /\ PlanClosed /\ AtRest /\ NothingFound /\ OnItsWay

LEMMA ByIdIs ==
  ASSUME ClosedPlan(tasks), NEW id \in IdsOf(tasks)
  PROVE  /\ ById(id) \in Task /\ ById(id).id = id
         /\ ToSet(ById(id).depends_on) = DependsOn(tasks, id)
         /\ Call(id) \in Frame /\ Call(id).id = id /\ Call(id).set = {}
         /\ ToSet(Call(id).rest) = DependsOn(tasks, id)
<1> DEFINE i == CHOOSE i \in DOMAIN tasks : tasks[i].id = id
<1>1. i \in DOMAIN tasks /\ tasks[i].id = id
  BY DEF IdsOf
<1>2. ById(id) = tasks[i]
  BY DEF ById
<1> HIDE DEF i
<1>3. tasks[i] \in Task /\ UniqueIds(tasks)
  BY <1>1 DEF ClosedPlan
<1>4. ToSet(tasks[i].depends_on) = DependsOn(tasks, tasks[i].id)
  BY <1>1, <1>3, DependsOnOne
<1>5. id \in Ids /\ tasks[i].depends_on \in Seq(Ids)
  BY <1>1, <1>3 DEF Task
<1> QED BY <1>1, <1>2, <1>3, <1>4, <1>5 DEF Call, Frame

LEMMA ToSetTail ==
  ASSUME NEW S, NEW s \in Seq(S), s # <<>>
  PROVE  /\ Head(s) \in S /\ Tail(s) \in Seq(S)
         /\ ToSet(s) = ToSet(Tail(s)) \cup {Head(s)}
<1>1. /\ Head(s) \in S /\ Tail(s) \in Seq(S) /\ Len(Tail(s)) = Len(s) - 1 /\ Len(s) \in Nat
      /\ Len(s) # 0 /\ Head(s) = s[1]
      /\ \A i \in 1 .. Len(Tail(s)) : Tail(s)[i] = s[i + 1]
  BY HeadTailProperties, EmptySeq
<1>2. DOMAIN s = 1 .. Len(s) /\ DOMAIN Tail(s) = 1 .. Len(s) - 1
  BY <1>1
<1>3. \A i \in 1 .. Len(s) : i = 1 \/ i - 1 \in 1 .. Len(s) - 1
  BY <1>1
<1>4. \A i \in 1 .. Len(s) - 1 : i + 1 \in 1 .. Len(s)
  BY <1>1
<1>5. \A i \in 1 .. Len(s) : (i - 1) + 1 = i
  BY <1>1
<1>6. ASSUME NEW i \in 1 .. Len(s) PROVE s[i] \in ToSet(Tail(s)) \cup {Head(s)}
  <2>1. CASE i = 1
    BY <2>1, <1>1
  <2>2. CASE i # 1
    <3>1. i - 1 \in DOMAIN Tail(s) /\ Tail(s)[i - 1] = s[i]
      BY <2>2, <1>1, <1>2, <1>3, <1>5
    <3> QED BY <3>1 DEF ToSet
  <2> QED BY <2>1, <2>2
<1>7. \A i \in 1 .. Len(s) - 1 : Tail(s)[i] \in ToSet(s)
  BY <1>1, <1>2, <1>4 DEF ToSet
<1>8. Head(s) \in ToSet(s)
  <2>1. 1 \in 1 .. Len(s)
    BY <1>1
  <2> QED BY <2>1, <1>1, <1>2 DEF ToSet
<1>9. \A x \in ToSet(s) : x \in ToSet(Tail(s)) \cup {Head(s)}
  BY <1>2, <1>6 DEF ToSet
<1>10. \A x \in ToSet(Tail(s)) : x \in ToSet(s)
  BY <1>2, <1>7 DEF ToSet
<1> QED BY <1>1, <1>8, <1>9, <1>10

LEMMA VisitMoves ==
  ASSUME PlanTypeOK, ClosedPlan(tasks), Visit
  PROVE  /\ Len(stack) = 0 /\ stack' \in Seq(Frame)
         /\ \E id \in IdsOf(tasks) \ DOMAIN found : Calls(tasks, stack, stack', id)
<1>1. StillToVisit \in SUBSET Nat /\ StillToVisit # {} /\ stack = <<>>
  BY DEF Visit, StillToVisit, ClosedPlan
<1>2. Min(StillToVisit) \in StillToVisit
  BY <1>1, MinIsLeast
<1> DEFINE id == tasks[Min(StillToVisit)].id
<1>3. id \in IdsOf(tasks) \ DOMAIN found
  BY <1>2 DEF StillToVisit, IdsOf
<1>4. stack' = <<Call(id)>>
  BY DEF Visit
<1> HIDE DEF id
<1>5. /\ Call(id) \in Frame /\ Call(id).id = id /\ Call(id).set = {}
      /\ ToSet(Call(id).rest) = DependsOn(tasks, id)
  BY <1>3, ByIdIs
<1>6. stack' \in Seq(Frame) /\ Len(stack') = 1 /\ Len(stack) = 0 /\ stack'[1] = Call(id)
  BY <1>1, <1>4, <1>5
<1>7. Calls(tasks, stack, stack', id)
  BY <1>5, <1>6 DEF Calls
<1> QED BY <1>3, <1>6, <1>7

(* Depend looks at one dependency, and calls it if nobody has or is; unless *)
(* it closes a loop.                                                        *)
LEMMA DependMoves ==
  ASSUME PlanTypeOK, ClosedPlan(tasks), Walk(tasks, stack, found), Depend
  PROVE  \E dep \in IdsOf(tasks) :
           /\ Len(stack) # 0 /\ dep \in DependsOn(tasks, stack[Len(stack)].id)
           /\ \/ /\ pc' = "invalid" /\ pc = "cycle" /\ stack' = stack
                 /\ dep \in Visiting
              \/ /\ pc' = pc
                 /\ pc = "cycle" => dep \notin Visiting \/ dep \in DOMAIN found
                 /\ \E mid \in Seq(Frame) :
                      /\ Looks(stack, mid, dep,
                               Gather({dep} \cup IF dep \in DOMAIN found THEN found[dep] ELSE {}))
                      /\ \/ dep \in DOMAIN found \cup Visiting /\ stack' = mid
                         \/ /\ dep \notin DOMAIN found \cup Visiting
                            /\ Calls(tasks, mid, stack', dep) /\ stack' \in Seq(Frame)
<1> DEFINE n == Len(stack)
           dep == Head(Top.rest)
           S == Gather({dep} \cup IF dep \in DOMAIN found THEN found[dep] ELSE {})
           next == [Top EXCEPT !.rest = Tail(@), !.set = @ \cup S]
           mid == [stack EXCEPT ![n] = next]
<1>1. stack \in Seq(Frame) /\ n \in Nat /\ n # 0 /\ n \in 1 .. n /\ Top.rest # <<>>
      /\ Top = stack[n]
  BY EmptySeq DEF Depend, PlanTypeOK, Top
<1>2. Top \in Frame /\ Top.rest \in Seq(Ids)
  <2>1. Top \in Frame
    BY <1>1, ElementOfSeq
  <2> QED BY <2>1 DEF Frame
<1>3. /\ dep \in Ids /\ Tail(Top.rest) \in Seq(Ids)
      /\ ToSet(Top.rest) = ToSet(Tail(Top.rest)) \cup {dep}
  BY <1>1, <1>2, ToSetTail
<1>4. dep \in DependsOn(tasks, Top.id) /\ dep \in IdsOf(tasks)
  <2>1. ToSet(Top.rest) \subseteq DependsOn(tasks, Top.id)
    BY <1>1 DEF Walk
  <2> QED BY <2>1, <1>3, DependsOnIds
<1>5. S \in SUBSET Ids
  BY <1>3 DEF Gather, PlanTypeOK
<1>6. next \in Frame /\ next.id = Top.id /\ next.rest = Tail(Top.rest)
      /\ next.set = Top.set \cup S
  <2> HIDE DEF S, dep
  <2> QED BY <1>2, <1>3, <1>5 DEF Frame
<1>7. mid \in Seq(Frame) /\ Len(mid) = n /\ mid[n] = next
      /\ \A k \in 1 .. n : k # n => mid[k] = stack[k]
  <2> HIDE DEF next
  <2> QED BY <1>1, <1>6, ExceptSeq
<1>8. Looks(stack, mid, dep, S)
  <2> HIDE DEF mid, next, S, dep
  <2> QED BY <1>1, <1>3, <1>6, <1>7 DEF Looks
<1>9. \/ /\ pc' = "invalid" /\ pc = "cycle" /\ stack' = stack /\ dep \in Visiting
      \/ /\ pc' = pc /\ (pc = "cycle" => dep \notin Visiting \/ dep \in DOMAIN found)
         /\ dep \in DOMAIN found \cup Visiting /\ stack' = mid
      \/ /\ pc' = pc /\ dep \notin DOMAIN found \cup Visiting
         /\ stack' = Append(mid, Call(dep))
  BY DEF Depend, LoopAt, OnTop, Gather
<1>10. ASSUME stack' = Append(mid, Call(dep))
       PROVE  Calls(tasks, mid, stack', dep) /\ stack' \in Seq(Frame)
  <2>1. /\ Call(dep) \in Frame /\ Call(dep).id = dep /\ Call(dep).set = {}
        /\ ToSet(Call(dep).rest) = DependsOn(tasks, dep)
    BY <1>4, ByIdIs
  <2> HIDE DEF mid, dep
  <2>2. /\ stack' \in Seq(Frame) /\ Len(stack') = Len(mid) + 1
        /\ \A k \in 1 .. Len(mid) : stack'[k] = mid[k]
        /\ stack'[Len(mid) + 1] = Call(dep)
    BY <1>7, <1>10, <2>1, AppendProperties
  <2> QED BY <2>1, <2>2 DEF Calls
<1> HIDE DEF mid, next, dep, S
<1>11. S = Gather({dep} \cup IF dep \in DOMAIN found THEN found[dep] ELSE {})
  BY DEF S
<1> QED BY <1>1, <1>4, <1>7, <1>8, <1>9, <1>10, <1>11

LEMMA ReturnMoves ==
  ASSUME PlanTypeOK, Return
  PROVE  /\ Returns(stack, stack', found, found') /\ stack' \in Seq(Frame)
         /\ DOMAIN found' \subseteq Ids /\ \A id \in DOMAIN found' : found'[id] \in SUBSET Ids
<1> DEFINE n == Len(stack)
           m == n - 1
           callers == SubSeq(stack, 1, m)
<1>1. stack \in Seq(Frame) /\ n \in Nat /\ n # 0 /\ n \in 1 .. n /\ Top = stack[n]
      /\ Top.rest = <<>>
  BY EmptySeq DEF Return, PlanTypeOK, Top
<1>2. Top \in Frame /\ Top.id \in Ids /\ Top.set \in SUBSET Ids /\ ToSet(Top.rest) = {}
  <2>1. Top \in Frame
    BY <1>1, ElementOfSeq
  <2>2. ToSet(Top.rest) = {}
    BY <1>1 DEF ToSet
  <2> QED BY <2>1, <2>2 DEF Frame
<1>3. /\ callers \in Seq(Frame) /\ Len(callers) = m /\ m \in Nat
      /\ \A k \in 1 .. m : callers[k] = stack[k] /\ k \in 1 .. n /\ callers[k] \in Frame
  <2>1. m \in Nat /\ m \in Int /\ \A k \in 1 .. m : k \in 1 .. n /\ stack[k] \in Frame
    BY <1>1
  <2>2. /\ callers \in Seq(Frame) /\ Len(callers) = IF 1 <= m THEN m - 1 + 1 ELSE 0
        /\ \A k \in 1 .. m - 1 + 1 : callers[k] = stack[1 + k - 1]
    BY <2>1, SubSeqProperties
  <2>3. m - 1 + 1 = m /\ \A k \in 1 .. m : 1 + k - 1 = k
    BY <2>1
  <2> HIDE DEF callers, m
  <2>4. \A k \in 1 .. m : callers[k] = stack[k]
    BY <2>2, <2>3
  <2> QED BY <2>1, <2>2, <2>3, <2>4
<1> HIDE DEF callers
<1>4. stack' = IF callers = <<>> THEN <<>>
               ELSE [callers EXCEPT ![Len(callers)].set = @ \cup Top.set]
  BY DEF Return, callers
<1>5. /\ stack' \in Seq(Frame) /\ Len(stack') = m
      /\ \A k \in 1 .. m : /\ stack'[k].id = stack[k].id /\ stack'[k].rest = stack[k].rest
                           /\ stack'[k].set = IF k = m THEN stack[k].set \cup Top.set
                                              ELSE stack[k].set
  <2>1. CASE m = 0
    BY <2>1, <1>3, <1>4
  <2>2. CASE m # 0
    <3>1. callers # <<>> /\ m \in 1 .. m
      BY <2>2, <1>3
    <3> DEFINE last == [callers[m] EXCEPT !.set = @ \cup Top.set]
    <3>2. last \in Frame /\ last.id = callers[m].id /\ last.rest = callers[m].rest
          /\ last.set = callers[m].set \cup Top.set
      BY <1>2, <1>3, <3>1 DEF Frame
    <3>3. stack' = [callers EXCEPT ![m] = last]
      BY <1>3, <1>4, <3>1
    <3> HIDE DEF last
    <3>4. stack' \in Seq(Frame) /\ Len(stack') = m
          /\ \A k \in 1 .. m : stack'[k] = IF k = m THEN last ELSE callers[k]
      BY <1>3, <3>1, <3>2, <3>3, ExceptSeq
    <3> QED BY <1>3, <3>2, <3>4
  <2> QED BY <2>1, <2>2
<1>6. /\ DOMAIN found' = DOMAIN found \cup {Top.id}
      /\ \A id \in DOMAIN found' : found'[id] = IF id = Top.id THEN Top.set ELSE found[id]
  BY DEF Return
<1>7. Returns(stack, stack', found, found')
  BY <1>1, <1>2, <1>5, <1>6 DEF Returns
<1> QED BY <1>2, <1>5, <1>6, <1>7 DEF PlanTypeOK

LEMMA TasksAreTasks ==
  ASSUME NEW ts \in Seq(Task)
  PROVE  /\ Tasks1(ts) \subseteq Task /\ IdsOf(ts) \subseteq Ids
         /\ IdsOf(ts) = {t.id : t \in Tasks1(ts)}
<1>1. \A i \in DOMAIN ts : ts[i] \in Task
  OBVIOUS
<1>2. \A t \in Task : t.id \in Ids
  BY DEF Task
<1>3. \A i \in DOMAIN ts : ts[i].id \in Ids
  BY <1>1, <1>2
<1> QED BY <1>1, <1>3 DEF Tasks1, IdsOf

LEMMA EmptySearch ==
  ASSUME NEW ts
  PROVE  /\ Walk(ts, <<>>, <<>>) /\ Complete(ts, <<>>, <<>>, {}) /\ Gathered(ts, <<>>, <<>>)
         /\ GroundedIn(ts, DOMAIN <<>>)
<1>1. DOMAIN <<>> = {} /\ Len(<<>>) = 0 /\ 1 .. 0 = {}
  OBVIOUS
<1> QED BY <1>1 DEF Walk, Complete, Gathered, GroundedIn

(* One action at a time.                                                    *)
LEMMA ExpandTyped ==
  ASSUME SearchInv, Expand
  PROVE  SearchInv'
<1>1. PlanTypeOK'
  <2>1. source.tasks \in Seq(Task)
    BY DEF SearchInv, PlanTypeOK, File
  <2>2. tasks' \in Seq(Task)
    BY <2>1, ExpandedIs DEF Expand
  <2> QED BY <2>2 DEF SearchInv, PlanTypeOK, Expand, Stages
<1>2. stack = <<>> /\ found = <<>>
  BY DEF Expand, SearchInv, AtRest, NothingFound, Searches
<1> QED BY <1>1, <1>2 DEF Expand, SearchInv, PlanClosed, AtRest, NothingFound, OnItsWay, Searches

LEMMA ValidateTyped ==
  ASSUME SearchInv, Validate
  PROVE  SearchInv'
<1>1. PlanTypeOK'
  BY DEF SearchInv, PlanTypeOK, Validate, Stages, Searches, Ended
<1>2. stack = <<>> /\ found = <<>>
  BY DEF Validate, SearchInv, AtRest, NothingFound, Searches
<1>3. Valid => ClosedPlan(tasks)
  BY DEF Valid, ClosedPlan, UniqueIds, SearchInv, PlanTypeOK
<1>4. pc' = "cycle" => ClosedPlan(tasks')
  BY <1>3 DEF Validate
<1>5. stack' = <<>> /\ found' = <<>> /\ pc' \in {"cycle", "invalid"}
  BY <1>2 DEF Validate
<1>6. OnItsWay'
  BY <1>5, EmptySearch DEF OnItsWay, Searches
<1> QED BY <1>1, <1>4, <1>5, <1>6 DEF SearchInv, PlanClosed, AtRest, NothingFound

LEMMA VisitTyped ==
  ASSUME SearchInv, Visit
  PROVE  SearchInv'
<1>1. /\ pc \in Searches /\ pc' = pc /\ tasks' = tasks /\ found' = found
      /\ UNCHANGED <<source, loaded, warned>>
  BY DEF Visit
<1>2. ClosedPlan(tasks)
  BY <1>1 DEF SearchInv, PlanClosed, Searches
<1>3. Len(stack) = 0 /\ stack' \in Seq(Frame)
  BY <1>2, VisitMoves DEF SearchInv
<1>4. PICK id \in IdsOf(tasks) \ DOMAIN found : Calls(tasks, stack, stack', id)
  BY <1>2, VisitMoves DEF SearchInv
<1>5. Walk(tasks, stack, found)
  BY <1>1 DEF SearchInv, OnItsWay
<1>6. /\ Walk(tasks, stack', found)
      /\ Complete(tasks, stack, found, {id}) => Complete(tasks, stack', found, {})
      /\ Gathered(tasks, stack, found) => Gathered(tasks, stack', found)
  <2>1. Len(stack) \in Nat /\ \A k \in 1 .. Len(stack) : stack[k].id # id
    BY <1>3
  <2>2. Len(stack) # 0 => id \in DependsOn(tasks, stack[Len(stack)].id)
    BY <1>3
  <2> QED BY <1>4, <1>5, <2>1, <2>2, CallsOn
<1>7. Complete(tasks, stack, found, {}) => Complete(tasks, stack, found, {id})
  BY <1>3 DEF Complete
<1>8. PlanTypeOK'
  BY <1>1, <1>3 DEF SearchInv, PlanTypeOK
<1>9. OnItsWay'
  BY <1>1, <1>6, <1>7 DEF SearchInv, OnItsWay
<1> QED BY <1>1, <1>8, <1>9 DEF SearchInv, PlanClosed, AtRest, NothingFound

LEMMA ReturnTyped ==
  ASSUME SearchInv, Return
  PROVE  SearchInv'
<1>1. /\ pc \in Searches /\ pc' = pc /\ tasks' = tasks
      /\ UNCHANGED <<source, loaded, warned>>
  BY DEF Return
<1>2. ClosedPlan(tasks) /\ PlanTypeOK /\ Walk(tasks, stack, found) /\ Len(stack) \in Nat
  BY <1>1 DEF SearchInv, PlanClosed, Searches, OnItsWay, PlanTypeOK
<1>3. /\ Returns(stack, stack', found, found') /\ stack' \in Seq(Frame)
      /\ DOMAIN found' \subseteq Ids /\ \A id \in DOMAIN found' : found'[id] \in SUBSET Ids
  BY <1>2, ReturnMoves
<1>4. /\ Walk(tasks, stack', found')
      /\ Complete(tasks, stack, found, {}) => Complete(tasks, stack', found', {})
      /\ Complete(tasks, stack, found, {}) /\ Gathered(tasks, stack, found)
           => Gathered(tasks, stack', found')
      /\ Complete(tasks, stack, found, {}) /\ GroundedIn(tasks, DOMAIN found)
           => GroundedIn(tasks, DOMAIN found')
  BY <1>2, <1>3, ReturnsOn
<1>5. PlanTypeOK'
  BY <1>1, <1>3 DEF SearchInv, PlanTypeOK
<1>6. OnItsWay'
  BY <1>1, <1>4 DEF SearchInv, OnItsWay
<1>7. pc' \notin {"read", "check", "loaded"}
  BY <1>1 DEF Searches
<1> QED BY <1>1, <1>5, <1>6, <1>7 DEF SearchInv, PlanClosed, AtRest, NothingFound

LEMMA DependTyped ==
  ASSUME SearchInv, Depend
  PROVE  SearchInv'
<1> DEFINE Reach(d) == {d} \cup IF d \in DOMAIN found THEN found[d] ELSE {}
           Known    == pc = "cycle" \/ Grounded(tasks)
<1>1. /\ pc \in Searches /\ tasks' = tasks /\ found' = found
      /\ UNCHANGED <<source, loaded, warned>>
  BY DEF Depend
<1>2. ClosedPlan(tasks) /\ PlanTypeOK /\ Walk(tasks, stack, found) /\ Len(stack) \in Nat
      /\ DOMAIN stack = 1 .. Len(stack)
  BY <1>1 DEF SearchInv, PlanClosed, Searches, OnItsWay, PlanTypeOK
<1>3. PICK dep \in IdsOf(tasks) :
        /\ Len(stack) # 0 /\ dep \in DependsOn(tasks, stack[Len(stack)].id)
        /\ \/ /\ pc' = "invalid" /\ pc = "cycle" /\ stack' = stack
              /\ dep \in Visiting
           \/ /\ pc' = pc
              /\ pc = "cycle" => dep \notin Visiting \/ dep \in DOMAIN found
              /\ \E mid \in Seq(Frame) :
                   /\ Looks(stack, mid, dep, Gather(Reach(dep)))
                   /\ \/ dep \in DOMAIN found \cup Visiting /\ stack' = mid
                      \/ /\ dep \notin DOMAIN found \cup Visiting
                         /\ Calls(tasks, mid, stack', dep) /\ stack' \in Seq(Frame)
  BY <1>2, DependMoves
<1> HIDE DEF Reach
<1>4. CASE pc' = "invalid" /\ stack' = stack
  <2>1. PlanTypeOK'
    BY <1>1, <1>4 DEF SearchInv, PlanTypeOK, Stages, Ended
  <2> QED BY <1>1, <1>4, <2>1 DEF SearchInv, PlanClosed, AtRest, NothingFound, OnItsWay, Searches
<1>5. ASSUME pc' = pc, pc = "cycle" => dep \notin Visiting \/ dep \in DOMAIN found,
             NEW mid \in Seq(Frame), Looks(stack, mid, dep, Gather(Reach(dep))),
             \/ dep \in DOMAIN found \cup Visiting /\ stack' = mid
             \/ /\ dep \notin DOMAIN found \cup Visiting
                /\ Calls(tasks, mid, stack', dep) /\ stack' \in Seq(Frame)
      PROVE  SearchInv'
  <2> DEFINE S == Gather(Reach(dep))
             n == Len(stack)
  <2>1. Known => dep \notin Visiting
    <3>1. ASSUME NEW k \in 1 .. n, stack[k].id = dep, dep \in DOMAIN found PROVE FALSE
      BY <1>2, <3>1 DEF Walk
    <3>2. ASSUME NEW k \in 1 .. n, stack[k].id = dep PROVE ~Grounded(tasks)
      BY <1>2, <1>3, <3>2, WalkBack
    <3> QED BY <1>2, <1>5, <3>1, <3>2 DEF Visiting
  <2>2. /\ Walk(tasks, mid, found)
        /\ Complete(tasks, stack, found, {}) => Complete(tasks, mid, found, {dep} \ DOMAIN found)
        /\ Gathered(tasks, stack, found) /\ dep \in S /\ S \subseteq Before(tasks, stack[n].id)
           /\ (dep \in DOMAIN found => found[dep] \subseteq S)
           => Gathered(tasks, mid, found)
    <3> HIDE DEF S
    <3>1. Looks(stack, mid, dep, S)
      BY <1>5 DEF S
    <3> QED BY <1>2, <3>1, LooksOn
  <2>3. ASSUME pc # "cycle", Gathered(tasks, stack, found) PROVE Gathered(tasks, mid, found)
    <3>1. S = Reach(dep)
      BY <2>3 DEF Gather
    <3>2. dep \in DOMAIN found => found[dep] = Before(tasks, dep)
      BY <2>3 DEF Gathered
    <3>3. {dep} \cup Before(tasks, dep) \subseteq Before(tasks, stack[n].id)
      BY <1>2, <1>3, BeforeUnfolds
    <3> QED BY <2>2, <2>3, <3>1, <3>2, <3>3 DEF Reach
  <2>4. /\ stack' \in Seq(Frame) /\ Walk(tasks, stack', found)
        /\ Known /\ Complete(tasks, stack, found, {}) => Complete(tasks, stack', found, {})
        /\ Gathered(tasks, mid, found) => Gathered(tasks, stack', found)
    <3>1. CASE dep \in DOMAIN found \cup Visiting /\ stack' = mid
      <4>1. Known => {dep} \ DOMAIN found = {}
        BY <2>1, <3>1
      <4> QED BY <2>2, <3>1, <4>1
    <3>2. CASE /\ dep \notin DOMAIN found \cup Visiting
               /\ Calls(tasks, mid, stack', dep) /\ stack' \in Seq(Frame)
      <4>1. Len(mid) = n /\ n \in 1 .. n /\ \A k \in 1 .. n : mid[k].id = stack[k].id
        <5>1. /\ Len(mid) = n /\ mid[n].id = stack[n].id
              /\ \A k \in 1 .. n : k # n => mid[k] = stack[k]
          BY <1>5 DEF Looks
        <5>2. n \in 1 .. n
          BY <1>2, <1>3
        <5> QED BY <5>1, <5>2
      <4>2. \A k \in 1 .. Len(mid) : mid[k].id # dep
        BY <1>2, <3>2, <4>1 DEF Visiting
      <4>3. dep \in DependsOn(tasks, mid[Len(mid)].id)
        BY <1>3, <4>1
      <4>4. {dep} \ DOMAIN found = {dep} /\ dep \in IdsOf(tasks) \ DOMAIN found /\ Len(mid) \in Nat
        BY <1>2, <3>2, <4>1
      <4>5. /\ Walk(tasks, stack', found)
            /\ Complete(tasks, mid, found, {dep}) => Complete(tasks, stack', found, {})
            /\ Gathered(tasks, mid, found) => Gathered(tasks, stack', found)
        BY <2>2, <3>2, <4>2, <4>3, <4>4, CallsOn
      <4> QED BY <2>2, <3>2, <4>4, <4>5
    <3> QED BY <1>5, <3>1, <3>2
  <2>5. PlanTypeOK'
    BY <1>1, <1>5, <2>4 DEF SearchInv, PlanTypeOK
  <2>6. OnItsWay'
    <3>1. pc = "cycle" => Complete(tasks, stack', found, {}) /\ GroundedIn(tasks, DOMAIN found)
      BY <2>4 DEF SearchInv, OnItsWay
    <3>2. pc \in {"wire", "analyze"} /\ Grounded(tasks) =>
            Complete(tasks, stack', found, {}) /\ Gathered(tasks, stack', found)
      BY <2>3, <2>4 DEF SearchInv, OnItsWay
    <3> QED BY <1>1, <1>5, <2>4, <3>1, <3>2 DEF OnItsWay
  <2> QED BY <1>1, <1>5, <2>5, <2>6 DEF SearchInv, PlanClosed, AtRest, NothingFound, Searches
<1> QED BY <1>3, <1>4, <1>5

(* The search refuses only what has a loop.                                 *)
LEMMA RefusedLoops ==
  ASSUME SearchInv, Depend, pc' # pc
  PROVE  pc' = "invalid" /\ pc = "cycle" /\ ~Grounded(tasks)
<1>1. ClosedPlan(tasks) /\ PlanTypeOK /\ Walk(tasks, stack, found) /\ Len(stack) \in Nat
      /\ DOMAIN stack = 1 .. Len(stack)
  BY DEF Depend, SearchInv, PlanClosed, Searches, OnItsWay, PlanTypeOK
<1>2. PICK dep \in IdsOf(tasks) :
        /\ dep \in DependsOn(tasks, stack[Len(stack)].id)
        /\ pc' = "invalid" /\ pc = "cycle" /\ dep \in Visiting
  BY <1>1, DependMoves
<1>3. PICK k \in 1 .. Len(stack) : stack[k].id = dep
  BY <1>1, <1>2 DEF Visiting
<1> QED BY <1>1, <1>2, <1>3, WalkBack

LEMMA LoadTyped ==
  ASSUME SearchInv, Load
  PROVE  SearchInv' /\ Grounded(tasks)
<1>1. /\ pc = "cycle" /\ pc' = "loaded" /\ tasks' = tasks /\ loaded' = tasks /\ found' = <<>>
      /\ stack = <<>> /\ stack' = <<>> /\ StillToVisit = {}
      /\ UNCHANGED <<source, warned>>
  BY DEF Load, SearchOver
<1>2. ClosedPlan(tasks)
  BY <1>1 DEF SearchInv, PlanClosed
<1>3. DOMAIN <<>> = {}
  OBVIOUS
<1>4. PlanTypeOK'
  BY <1>1, <1>3 DEF SearchInv, PlanTypeOK, Stages
<1>5. SearchInv'
  BY <1>1, <1>2, <1>4 DEF SearchInv, PlanClosed, AtRest, NothingFound, OnItsWay, Searches
<1>6. IdsOf(tasks) \subseteq DOMAIN found
  BY <1>1 DEF StillToVisit, IdsOf
<1>7. GroundedIn(tasks, DOMAIN found)
  BY <1>1 DEF SearchInv, OnItsWay
<1> QED BY <1>5, <1>6, <1>7 DEF Grounded, GroundedIn

LEMMA AdmitTyped ==
  ASSUME SearchInv, Admit
  PROVE  SearchInv'
<1>1. /\ pc = "loaded" /\ pc' \in {"too_large", "wire", "analyze"}
      /\ UNCHANGED <<source, tasks, loaded, stack, found, warned>>
  BY DEF Admit
<1>2. stack = <<>> /\ found = <<>> /\ ClosedPlan(tasks)
  BY <1>1 DEF SearchInv, PlanClosed, AtRest, NothingFound, Searches
<1>3. PlanTypeOK'
  BY <1>1 DEF SearchInv, PlanTypeOK, Stages, Searches, Ended
<1>4. OnItsWay'
  BY <1>1, <1>2, EmptySearch DEF OnItsWay, Searches
<1> QED BY <1>1, <1>2, <1>3, <1>4 DEF SearchInv, PlanClosed, AtRest, NothingFound

LEMMA CheckContractsTyped ==
  ASSUME SearchInv, CheckContracts
  PROVE  SearchInv'
<1>1. /\ pc = "analyze" /\ pc' = "graph" /\ stack = <<>>
      /\ UNCHANGED <<source, tasks, loaded, stack, found>>
  BY DEF CheckContracts, SearchOver
<1>2. ClosedPlan(tasks)
  BY <1>1 DEF SearchInv, PlanClosed
<1>3. \A t \in Tasks1(tasks) : t.id \in Ids
  BY <1>2, TasksAreTasks DEF ClosedPlan
<1>4. warned' \subseteq Ids
  BY <1>3 DEF CheckContracts, Consumers
<1>5. PlanTypeOK'
  BY <1>1, <1>4 DEF SearchInv, PlanTypeOK, Stages
<1> QED BY <1>1, <1>2, <1>5 DEF SearchInv, PlanClosed, AtRest, NothingFound, OnItsWay, Searches

LEMMA FromPlanTyped ==
  ASSUME SearchInv, FromPlan
  PROVE  SearchInv'
<1>1. /\ pc = "graph" /\ pc' \in {"cyclic", "started"}
      /\ UNCHANGED <<source, tasks, loaded, stack, found, warned>>
  BY DEF FromPlan
<1>2. ClosedPlan(tasks) /\ stack = <<>>
  BY <1>1 DEF SearchInv, PlanClosed, AtRest, Searches
<1>3. PlanTypeOK'
  BY <1>1 DEF SearchInv, PlanTypeOK, Stages, Ended
<1> QED BY <1>1, <1>2, <1>3 DEF SearchInv, PlanClosed, AtRest, NothingFound, OnItsWay, Searches

------------------------------------------------------------------------------
(* The wiring.                                                              *)
LEMMA ProducersAreOthers ==
  ASSUME ClosedPlan(tasks), NEW t \in Tasks1(tasks)
  PROVE  /\ ProducerIds(tasks, t) \subseteq IdsOf(tasks) \ {t.id}
         /\ NewEdges(t) \subseteq ProducerIds(tasks, t)
<1>1. PICK i \in DOMAIN tasks : t = tasks[i]
  BY DEF Tasks1
<1>2. ASSUME NEW p \in ProducerIds(tasks, t) PROVE p \in IdsOf(tasks) \ {t.id}
  <2>1. PICK s \in Tasks1(tasks) : s.id = p /\ s.project \in ProducersFor(t.project)
    BY DEF ProducerIds
  <2>2. PICK j \in DOMAIN tasks : s = tasks[j]
    BY <2>1 DEF Tasks1
  <2>3. s.project # t.project
    BY <2>1 DEF ProducersFor
  <2>4. tasks[j].id = tasks[i].id => i = j
    BY DEF ClosedPlan, UniqueIds
  <2> QED BY <1>1, <2>1, <2>2, <2>3, <2>4 DEF IdsOf
<1>3. NewEdges(t) \subseteq ProducerIds(tasks, t)
  BY DEF NewEdges, Terminals
<1> QED BY <1>2, <1>3

LEMMA WiredIs ==
  ASSUME ClosedPlan(tasks), NEW t \in Tasks1(tasks)
  PROVE  /\ Wired(t) \in Task /\ Wired(t).id = t.id /\ Wired(t).project = t.project
         /\ ToSet(Wired(t).depends_on) = ToSet(t.depends_on) \cup NewEdges(t)
<1> DEFINE new == NewEdges(t) \ ToSet(t.depends_on)
           more == SetToSeq(new)
<1>1. t \in Task
  BY DEF ClosedPlan, Tasks1
<1>2. t.depends_on \in Seq(Ids)
  BY <1>1 DEF Task
<1>3. new \subseteq IdsOf(tasks) /\ IdsOf(tasks) \subseteq Ids
  <2>1. new \subseteq IdsOf(tasks)
    BY ProducersAreOthers
  <2> QED BY <2>1, TasksAreTasks DEF ClosedPlan
<1>4. IsFiniteSet(new)
  BY <1>3, IdsAreFinite, FS_Subset DEF ClosedPlan
<1> HIDE DEF new
<1>5. more \in Seq(new) /\ ToSet(more) = new
  BY <1>4, SetToSeqListsIt
<1> HIDE DEF more
<1>6. more \in Seq(Ids)
  <2>1. new \subseteq Ids
    BY <1>3
  <2> QED BY <1>5, <2>1
<1>7. t.depends_on \o more \in Seq(Ids)
      /\ ToSet(t.depends_on \o more) = ToSet(t.depends_on) \cup new
  BY <1>2, <1>5, <1>6, ToSetConcat
<1>8. Wired(t) = [t EXCEPT !.depends_on = t.depends_on \o more]
  BY DEF Wired, more, new
<1>9. /\ Wired(t) \in Task /\ Wired(t).id = t.id /\ Wired(t).project = t.project
      /\ Wired(t).depends_on = t.depends_on \o more
  BY <1>1, <1>7, <1>8 DEF Task
<1> QED BY <1>7, <1>9 DEF new

(* Wiring changes what tasks wait for and nothing else.                     *)
LEMMA WireMoves ==
  ASSUME ClosedPlan(tasks), Wire
  PROVE  /\ ClosedPlan(tasks') /\ DOMAIN tasks' = DOMAIN tasks
         /\ \A i \in DOMAIN tasks :
              /\ tasks'[i].id = tasks[i].id /\ tasks'[i].project = tasks[i].project
              /\ ToSet(tasks'[i].depends_on)
                   = ToSet(tasks[i].depends_on) \cup NewEdges(tasks[i])
<1>1. tasks \in Seq(Task) /\ DOMAIN tasks = 1 .. Len(tasks) /\ Len(tasks) \in Nat
  BY DEF ClosedPlan
<1>2. \A i \in DOMAIN tasks : tasks[i] \in Tasks1(tasks)
  BY DEF Tasks1
<1>3. \A i \in DOMAIN tasks :
        /\ Wired(tasks[i]) \in Task
        /\ Wired(tasks[i]).id = tasks[i].id /\ Wired(tasks[i]).project = tasks[i].project
        /\ ToSet(Wired(tasks[i]).depends_on) = ToSet(tasks[i].depends_on) \cup NewEdges(tasks[i])
  BY <1>2, WiredIs
<1>4. tasks' = [i \in DOMAIN tasks |-> Wired(tasks[i])]
  BY DEF Wire
<1>5. tasks' \in [1 .. Len(tasks) -> Task]
  BY <1>1, <1>3, <1>4
<1>6. tasks' \in Seq(Task) /\ DOMAIN tasks' = DOMAIN tasks
  BY <1>1, <1>5, SeqOfFunction
<1>7. \A i \in DOMAIN tasks :
        /\ tasks'[i].id = tasks[i].id /\ tasks'[i].project = tasks[i].project
        /\ ToSet(tasks'[i].depends_on) = ToSet(tasks[i].depends_on) \cup NewEdges(tasks[i])
  BY <1>3, <1>4
<1>8. IdsOf(tasks') = IdsOf(tasks)
  BY <1>6, <1>7 DEF IdsOf
<1>9. \A i \in DOMAIN tasks : NewEdges(tasks[i]) \subseteq IdsOf(tasks) \ {tasks[i].id}
  BY <1>2, ProducersAreOthers
<1>10. UniqueIds(tasks')
  BY <1>6, <1>7 DEF ClosedPlan, UniqueIds
<1>11. \A i \in DOMAIN tasks' : ToSet(tasks'[i].depends_on) \subseteq IdsOf(tasks') \ {tasks'[i].id}
  BY <1>6, <1>7, <1>8, <1>9 DEF ClosedPlan
<1> QED BY <1>6, <1>7, <1>10, <1>11 DEF ClosedPlan

LEMMA WireTyped ==
  ASSUME SearchInv, Wire
  PROVE  SearchInv'
<1>1. /\ pc = "wire" /\ pc' = "analyze" /\ stack = <<>> /\ found' = <<>>
      /\ UNCHANGED <<source, loaded, stack, warned>>
  BY DEF Wire, SearchOver
<1>2. ClosedPlan(tasks)
  BY <1>1 DEF SearchInv, PlanClosed
<1>3. ClosedPlan(tasks')
  BY <1>2, WireMoves
<1>4. DOMAIN <<>> = {}
  OBVIOUS
<1>5. PlanTypeOK'
  BY <1>1, <1>3, <1>4 DEF SearchInv, PlanTypeOK, Stages, Searches, ClosedPlan
<1>6. Walk(tasks', <<>>, <<>>) /\ Complete(tasks', <<>>, <<>>, {}) /\ Gathered(tasks', <<>>, <<>>)
  BY EmptySearch
<1>7. OnItsWay'
  BY <1>1, <1>6 DEF OnItsWay, Searches
<1> QED BY <1>1, <1>3, <1>5, <1>7 DEF SearchInv, PlanClosed, AtRest, NothingFound, Searches

LEMMA SearchInvKept ==
  ASSUME SearchInv, [PlanNext]_planVars
  PROVE  SearchInv'
<1>1. CASE UNCHANGED planVars
  BY <1>1 DEF planVars, SearchInv, PlanTypeOK, PlanClosed, AtRest, NothingFound, OnItsWay
<1> QED BY <1>1, ExpandTyped, ValidateTyped, VisitTyped, DependTyped, ReturnTyped, LoadTyped,
           AdmitTyped, WireTyped, CheckContractsTyped, FromPlanTyped DEF PlanNext

LEMMA PlanSearches == PlanSpec => []SearchInv
<1>1. PlanInit => SearchInv
  <2> SUFFICES ASSUME PlanInit PROVE SearchInv
    OBVIOUS
  <2>1. DOMAIN <<>> = {}
    OBVIOUS
  <2>2. PlanTypeOK
    BY <2>1, FilesAssumption DEF PlanInit, PlanTypeOK, Stages
  <2> QED BY <2>2 DEF PlanInit, SearchInv, PlanClosed, AtRest, NothingFound, OnItsWay, Searches
<1>2. SearchInv /\ [PlanNext]_planVars => SearchInv'
  BY SearchInvKept
<1> QED BY <1>1, <1>2, PTL DEF PlanSpec

(* Loading a plan keeps the types of its state, its searches included:      *)
(* detect_dependency_cycle (config/plan.rs) and compute_ancestors           *)
(* (config/analyze.rs).                                                     *)
THEOREM PlanTypesHold == PlanSpec => []PlanTypeOK
<1>1. SearchInv => PlanTypeOK
  BY DEF SearchInv
<1> QED BY <1>1, PlanSearches, PTL

(* What a search has left: tasks it has not finished, of these the ones it  *)
(* has not begun, and dependencies of the one on top it has not looked at.  *)
ToFinish   == IdsOf(tasks) \ DOMAIN found
ToBegin    == IdsOf(tasks) \ (DOMAIN found \cup Visiting)
ToLookAt   == IF stack = <<>> THEN 0 ELSE Len(Top.rest)
SearchLeft == <<Cardinality(ToFinish), Cardinality(ToBegin), ToLookAt>>
Less(a, b) ==
  \/ a[1] < b[1]
  \/ a[1] = b[1] /\ a[2] < b[2]
  \/ a[1] = b[1] /\ a[2] = b[2] /\ a[3] < b[3]

LEMMA LeftIsNumbers ==
  ASSUME SearchInv, pc \in Searches
  PROVE  SearchLeft \in Nat \X Nat \X Nat /\ IsFiniteSet(ToFinish) /\ IsFiniteSet(ToBegin)
<1>1. ClosedPlan(tasks) /\ stack \in Seq(Frame)
  BY DEF SearchInv, PlanClosed, Searches, PlanTypeOK
<1>2. IsFiniteSet(IdsOf(tasks))
  BY <1>1, IdsAreFinite DEF ClosedPlan
<1>3. IsFiniteSet(ToFinish) /\ IsFiniteSet(ToBegin)
  BY <1>2, FS_Subset DEF ToFinish, ToBegin
<1>4. ToLookAt \in Nat
  <2>1. CASE stack # <<>>
    <3>1. Top \in Frame
      BY <1>1, <2>1, EmptySeq, ElementOfSeq DEF Top
    <3> QED BY <2>1, <3>1 DEF ToLookAt, Frame
  <2> QED BY <2>1 DEF ToLookAt
<1>5. Cardinality(ToFinish) \in Nat /\ Cardinality(ToBegin) \in Nat
  BY <1>3, FS_CardinalityType
<1> QED BY <1>3, <1>4, <1>5 DEF SearchLeft

LEMMA FewerAreLess ==
  ASSUME NEW S, IsFiniteSet(S), NEW T \in SUBSET S, T # S
  PROVE  Cardinality(T) < Cardinality(S)
<1>1. Cardinality(T) \in Nat /\ Cardinality(S) \in Nat
  BY FS_Subset, FS_CardinalityType
<1>2. Cardinality(T) <= Cardinality(S) /\ Cardinality(T) # Cardinality(S)
  BY FS_Subset
<1> QED BY <1>1, <1>2

(* A call takes a task off those to begin.                                  *)
LEMMA CallLeavesLess ==
  ASSUME SearchInv, pc \in Searches, UNCHANGED <<tasks, found>>,
         NEW id \in ToBegin, Visiting' = Visiting \cup {id}
  PROVE  Less(SearchLeft', SearchLeft)
<1>1. ToFinish' = ToFinish /\ ToBegin' = ToBegin \ {id}
  BY DEF ToFinish, ToBegin
<1>2. Cardinality(ToBegin') < Cardinality(ToBegin)
  BY <1>1, LeftIsNumbers, FewerAreLess
<1>3. Cardinality(ToFinish)' = Cardinality(ToFinish)
  BY <1>1
<1> QED BY <1>2, <1>3 DEF Less, SearchLeft

LEMMA VisitLeavesLess ==
  ASSUME SearchInv, Visit
  PROVE  Less(SearchLeft', SearchLeft)
<1>1. pc \in Searches /\ UNCHANGED <<tasks, found>> /\ stack = <<>>
  BY DEF Visit
<1>2. ClosedPlan(tasks) /\ PlanTypeOK
  BY <1>1 DEF SearchInv, PlanClosed, Searches
<1>3. PICK id \in IdsOf(tasks) \ DOMAIN found : Calls(tasks, stack, stack', id) /\ stack' \in Seq(Frame)
  BY <1>2, VisitMoves
<1>4. Len(stack) = 0 /\ Len(stack') = 1 /\ DOMAIN stack' = 1 .. 1 /\ stack'[1].id = id
  BY <1>1, <1>3 DEF Calls
<1>5. Visiting = {} /\ Visiting' = {id}
  BY <1>1, <1>4 DEF Visiting
<1> QED BY <1>1, <1>3, <1>5, CallLeavesLess DEF ToBegin

LEMMA ReturnLeavesLess ==
  ASSUME SearchInv, Return
  PROVE  Less(SearchLeft', SearchLeft)
<1>1. pc \in Searches /\ tasks' = tasks /\ stack # <<>> /\ DOMAIN found' = DOMAIN found \cup {Top.id}
  BY DEF Return
<1>2. Top.id \in ToFinish
  <2>1. stack \in Seq(Frame) /\ Walk(tasks, stack, found)
    BY <1>1 DEF SearchInv, PlanTypeOK, OnItsWay
  <2>2. Len(stack) \in 1 .. Len(stack)
    BY <1>1, <2>1, EmptySeq
  <2> QED BY <2>1, <2>2 DEF Walk, Top, ToFinish
<1>3. ToFinish' = ToFinish \ {Top.id}
  BY <1>1 DEF ToFinish
<1>4. Cardinality(ToFinish') < Cardinality(ToFinish)
  BY <1>1, <1>2, <1>3, LeftIsNumbers, FewerAreLess
<1> QED BY <1>4 DEF Less, SearchLeft

LEMMA DependLeavesLess ==
  ASSUME SearchInv, Depend, pc' = pc
  PROVE  Less(SearchLeft', SearchLeft)
<1> DEFINE n == Len(stack)
           dep == Head(Top.rest)
           next == [Top EXCEPT !.rest = Tail(@),
                               !.set = @ \cup Gather({dep} \cup IF dep \in DOMAIN found
                                                                THEN found[dep] ELSE {})]
           mid == [stack EXCEPT ![n] = next]
<1>1. /\ pc \in Searches /\ UNCHANGED <<tasks, found>>
      /\ stack # <<>> /\ Top.rest # <<>>
  BY DEF Depend
<1>2. stack \in Seq(Frame) /\ ClosedPlan(tasks) /\ Walk(tasks, stack, found)
  BY <1>1 DEF SearchInv, PlanClosed, PlanTypeOK, OnItsWay, Searches
<1>3. n \in Nat /\ n \in 1 .. n /\ Top = stack[n] /\ Top \in Frame
  BY <1>1, <1>2, EmptySeq, ElementOfSeq DEF Top
<1>4. Top.rest \in Seq(Ids) /\ Len(Tail(Top.rest)) < Len(Top.rest)
  BY <1>1, <1>3 DEF Frame
<1>5. next.id = Top.id /\ next.rest = Tail(Top.rest)
  BY <1>3 DEF Frame
<1>6. \/ dep \in DOMAIN found \cup Visiting /\ stack' = mid
      \/ dep \notin DOMAIN found \cup Visiting /\ stack' = Append(mid, Call(dep))
  BY DEF Depend, LoopAt, OnTop, Gather, Searches
<1> HIDE DEF next
<1>7. DOMAIN mid = 1 .. n /\ mid[n] = next /\ \A k \in 1 .. n : mid[k].id = stack[k].id
  BY <1>2, <1>3, <1>5
<1> HIDE DEF mid
<1>8. CASE dep \in DOMAIN found \cup Visiting /\ stack' = mid
  <2>1. DOMAIN stack = 1 .. n
    BY <1>2
  <2>2. Visiting' = Visiting
    BY <1>7, <1>8, <2>1 DEF Visiting
  <2>3. ToFinish' = ToFinish /\ ToBegin' = ToBegin
    BY <1>1, <2>2 DEF ToFinish, ToBegin
  <2>4. Len(stack') = n /\ stack' # <<>>
    <3>1. mid = [k \in 1 .. n |-> IF k = n THEN next ELSE stack[k]]
      BY <1>2, <1>3 DEF mid
    <3>2. next \in {next} \cup Frame /\ \A k \in 1 .. n : stack[k] \in Frame
      BY <1>2
    <3>3. mid \in Seq({next} \cup Frame) /\ Len(mid) = n
      BY <1>3, <3>1, <3>2
    <3> QED BY <1>3, <1>8, <3>3
  <2>5. Top' = next
    BY <1>7, <1>8, <2>4 DEF Top
  <2>6. ToLookAt' < ToLookAt
    BY <1>1, <1>4, <1>5, <2>4, <2>5 DEF ToLookAt
  <2>7. Cardinality(ToFinish)' = Cardinality(ToFinish) /\ Cardinality(ToBegin)' = Cardinality(ToBegin)
    BY <2>3
  <2> QED BY <2>6, <2>7 DEF Less, SearchLeft
<1>9. CASE dep \notin DOMAIN found \cup Visiting /\ stack' = Append(mid, Call(dep))
  <2>1. DOMAIN stack = 1 .. n
    BY <1>2
  <2>2. dep \in IdsOf(tasks)
    <3>1. dep \in ToSet(Top.rest)
      BY <1>1, <1>4, ToSetTail
    <3>2. ToSet(Top.rest) \subseteq DependsOn(tasks, Top.id) /\ Top.id \in IdsOf(tasks)
      BY <1>2, <1>3 DEF Walk
    <3> QED BY <1>2, <3>1, <3>2, DependsOnIds
  <2>3. dep \in ToBegin
    BY <1>9, <2>2 DEF ToBegin
  <2>4. Len(mid) = n /\ DOMAIN stack' = 1 .. n + 1 /\ stack'[n + 1] = Call(dep)
        /\ \A k \in 1 .. n : stack'[k] = mid[k]
    <3>1. mid = [k \in 1 .. n |-> IF k = n THEN next ELSE stack[k]]
      BY <1>2, <1>3 DEF mid
    <3>2. \A k \in 1 .. n : stack[k] \in Frame
      BY <1>2
    <3>3. mid \in Seq({next, Call(dep)} \cup Frame) /\ Len(mid) = n
      BY <1>3, <3>1, <3>2
    <3> QED BY <1>3, <1>9, <3>3
  <2>5. Call(dep).id = dep
    BY DEF Call
  <2>6. Visiting' = Visiting \cup {dep}
    <3>1. \A k \in 1 .. n + 1 : k \in 1 .. n \/ k = n + 1
      BY <1>3
    <3>2. n + 1 \in 1 .. n + 1 /\ \A k \in 1 .. n : k \in 1 .. n + 1
      BY <1>3
    <3> HIDE DEF dep, n
    <3> QED BY <1>7, <2>1, <2>4, <2>5, <3>1, <3>2 DEF Visiting
  <2> QED BY <1>1, <2>3, <2>6, CallLeavesLess
<1> QED BY <1>6, <1>8, <1>9

(* Both searches end: each of their steps leaves less to do, in an order    *)
(* that cannot go down for ever, so the walk over a plan with loops does    *)
(* not turn in one (detect_dependency_cycle gives it up, compute_ancestors, *)
(* which meets the loops the wiring closed, passes by).                     *)
THEOREM SearchesEnd ==
  PlanSpec => /\ [](pc \in Searches => SearchLeft \in Nat \X Nat \X Nat)
              /\ [][pc' = pc /\ pc \in Searches => Less(SearchLeft', SearchLeft)]_planVars
<1> DEFINE Number == pc \in Searches => SearchLeft \in Nat \X Nat \X Nat
           Onward == pc' = pc /\ pc \in Searches => Less(SearchLeft', SearchLeft)
<1>1. SearchInv => Number
  BY LeftIsNumbers
<1>2. SearchInv /\ [PlanNext]_planVars => [Onward]_planVars
  <2> SUFFICES ASSUME SearchInv, PlanNext, pc \in Searches, pc' = pc
               PROVE  Less(SearchLeft', SearchLeft)
    BY DEF planVars
  <2>1. Visit \/ Depend \/ Return
    BY DEF PlanNext, Expand, Validate, Load, Admit, Wire, CheckContracts, FromPlan, Searches
  <2> QED BY <2>1, VisitLeavesLess, DependLeavesLess, ReturnLeavesLess
<1> QED BY <1>1, <1>2, PlanSearches, PTL DEF PlanSpec

(* A search that is over, in a plan without loops, has found what comes     *)
(* before each task.                                                        *)
LEMMA SearchFinds ==
  ASSUME SearchInv, pc \in {"wire", "analyze"}, SearchOver, Grounded(tasks)
  PROVE  ClosedPlan(tasks) /\ \A id \in IdsOf(tasks) : found[id] = Before(tasks, id)
<1>1. ClosedPlan(tasks)
  BY DEF SearchInv, PlanClosed
<1>2. IdsOf(tasks) \subseteq DOMAIN found
  BY DEF SearchOver, StillToVisit, IdsOf
<1>3. Gathered(tasks, stack, found)
  BY DEF SearchInv, OnItsWay
<1> QED BY <1>1, <1>2, <1>3 DEF Gathered

(* The ancestors compute_ancestors gives to the wiring and to the check of  *)
(* the contracts are, in a plan without loops, all the tasks that come      *)
(* before one and no others.                                                *)
THEOREM AncestorsAreFound ==
  PlanSpec => [](pc \in {"wire", "analyze"} /\ SearchOver /\ ~Loops(tasks)
                   => \A id \in IdsOf(tasks) : found[id] = Before(tasks, id))
<1>1. PlanSpec => []SearchInv
  BY PlanSearches
<1>2. SearchInv => (pc \in {"wire", "analyze"} /\ SearchOver /\ ~Loops(tasks)
                      => \A id \in IdsOf(tasks) : found[id] = Before(tasks, id))
  <2> SUFFICES ASSUME SearchInv, pc \in {"wire", "analyze"}, SearchOver, ~Loops(tasks)
               PROVE  \A id \in IdsOf(tasks) : found[id] = Before(tasks, id)
    OBVIOUS
  <2>1. ClosedPlan(tasks)
    BY DEF SearchInv, PlanClosed
  <2> QED BY <2>1, GroundedIsLoopFree, SearchFinds
<1> QED BY <1>1, <1>2, PTL

(* detect_dependency_cycle (config/plan.rs) ends on every plan that has a   *)
(* loop by refusing it, and on the others only by letting it through.       *)
THEOREM LoopsAreRefused ==
  PlanSpec => [][pc = "cycle" /\ pc' # pc => (pc' = "invalid" <=> Loops(tasks))]_planVars
<1> DEFINE Decides == pc = "cycle" /\ pc' # pc => (pc' = "invalid" <=> Loops(tasks))
<1>1. SearchInv /\ [PlanNext]_planVars => [Decides]_planVars
  <2> SUFFICES ASSUME SearchInv, PlanNext, pc = "cycle", pc' # pc
               PROVE  pc' = "invalid" <=> Loops(tasks)
    BY DEF planVars
  <2>1. ClosedPlan(tasks)
    BY DEF SearchInv, PlanClosed
  <2>2. CASE Load
    BY <2>1, <2>2, LoadTyped, GroundedIsLoopFree DEF Load
  <2>3. CASE Depend
    BY <2>1, <2>3, RefusedLoops, GroundedIsLoopFree
  <2> QED BY <2>2, <2>3 DEF PlanNext, Expand, Validate, Visit, Return, Admit, Wire,
                            CheckContracts, FromPlan
<1>2. PlanSpec => []SearchInv
  BY PlanSearches
<1> QED BY <1>1, <1>2, PTL DEF PlanSpec

------------------------------------------------------------------------------
(* No silent race.  What a producer is depends only on what is read and on  *)
(* the projects of the tasks.                                               *)
ProducersIn(src, p) ==
  {q \in Projects \ {p} : p # NoProject /\ Match(src.provides[q], src.consumes[p])}
IdsFrom(src, ts, t) == {s.id : s \in {s \in Tasks1(ts) : s.project \in ProducersIn(src, t.project)}}
LastOf(ld, P)       == {p \in P : \A q \in P \ {p} : p \notin Before(ld, q)}

(* What the wiring is for, and what the warnings say.                       *)
AllWired(src, ts, ld) ==
  src.wire => \A t \in Tasks1(ts) :
    IdsFrom(src, ts, t) \cap Before(ld, t.id) = {} =>
      \A p \in LastOf(ld, IdsFrom(src, ts, t)) : p \in Before(ts, t.id) \/ t.id \in Before(ld, p)
AllWarned(src, ts, w) ==
  \A t \in Tasks1(ts) : IdsFrom(src, ts, t) # {} =>
    (t.id \in w <=> IdsFrom(src, ts, t) \cap Before(ts, t.id) = {})

(* A loop that was not there before takes new dependencies of two tasks.    *)
Grows(ts, ld, i)  == ToSet(ts[i].depends_on) # ToSet(ld[i].depends_on)
TakesTwo(ts, ld)  ==
  Grounded(ts) \/ \E i, j \in DOMAIN ts : i # j /\ Grows(ts, ld, i) /\ Grows(ts, ld, j)

Checked == {"graph", "cyclic", "started"}
RaceInv ==
  /\ pc \in {"loaded", "too_large", "wire"} => loaded = tasks /\ Grounded(tasks)
  /\ pc \in {"analyze"} \cup Checked =>
       AllWired(source, tasks, loaded) /\ TakesTwo(tasks, loaded)
  /\ pc \in Checked /\ Grounded(tasks) => AllWarned(source, tasks, warned)
  /\ pc = "started" => Grounded(tasks)
  /\ pc = "cyclic" => ~Grounded(tasks)

LEMMA ProducersAre ==
  ASSUME NEW ts, NEW t
  PROVE  ProducerIds(ts, t) = IdsFrom(source, ts, t)
BY DEF ProducerIds, IdsFrom, ProducersFor, ProducersIn

LEMMA WireWires ==
  ASSUME ClosedPlan(tasks), Wire, \A id \in IdsOf(tasks) : found[id] = Before(tasks, id)
  PROVE  AllWired(source, tasks', tasks)
<1>1. /\ ClosedPlan(tasks') /\ DOMAIN tasks' = DOMAIN tasks
      /\ \A i \in DOMAIN tasks :
           /\ tasks'[i].id = tasks[i].id /\ tasks'[i].project = tasks[i].project
           /\ ToSet(tasks'[i].depends_on)
                = ToSet(tasks[i].depends_on) \cup NewEdges(tasks[i])
  BY WireMoves
<1>2. SUFFICES ASSUME NEW i \in DOMAIN tasks,
                      IdsFrom(source, tasks', tasks'[i]) \cap Before(tasks, tasks'[i].id) = {},
                      NEW p \in LastOf(tasks, IdsFrom(source, tasks', tasks'[i]))
               PROVE  p \in Before(tasks', tasks'[i].id) \/ tasks'[i].id \in Before(tasks, p)
  BY <1>1 DEF AllWired, Tasks1
<1> DEFINE t == tasks[i]
           P == ProducerIds(tasks, t)
<1>3. t.id = tasks'[i].id /\ t \in Tasks1(tasks) /\ t.id \in IdsOf(tasks)
  BY <1>1 DEF Tasks1, IdsOf
<1>4. IdsFrom(source, tasks', tasks'[i]) = P
  <2> DEFINE X == ProducersIn(source, t.project)
  <2>1. X = ProducersIn(source, tasks'[i].project)
    BY <1>1
  <2> HIDE DEF X
  <2>2. \A x : x \in IdsFrom(source, tasks', tasks'[i]) <=>
                 \E j \in DOMAIN tasks : tasks'[j].project \in X /\ x = tasks'[j].id
    BY <1>1, <2>1 DEF IdsFrom, Tasks1
  <2>3. \A x : x \in IdsFrom(source, tasks, t) <=>
                 \E j \in DOMAIN tasks : tasks[j].project \in X /\ x = tasks[j].id
    BY DEF IdsFrom, Tasks1, X
  <2>4. \A x : x \in IdsFrom(source, tasks', tasks'[i]) <=> x \in IdsFrom(source, tasks, t)
    BY <1>1, <2>2, <2>3
  <2> QED BY <2>4, ProducersAre
<1>5. P \subseteq IdsOf(tasks)
  BY <1>3, ProducersAreOthers
<1>6. p \in P /\ \A q \in P \ {p} : p \notin found[q]
  BY <1>2, <1>4, <1>5 DEF LastOf
<1>7. ASSUME t.id \notin Before(tasks, p) PROVE p \in Before(tasks', t.id)
  <2>1. P \cap found[t.id] = {}
    BY <1>2, <1>3, <1>4
  <2>2. p \in NewEdges(t)
    BY <1>5, <1>6, <1>7, <2>1 DEF NewEdges, Terminals
  <2>3. p \in DependsOn(tasks', t.id)
    BY <1>1, <1>3, <2>2, DependsOnOne DEF ClosedPlan
  <2> QED BY <1>1, <2>3, BeforeUnfolds
<1> QED BY <1>3, <1>7

LEMMA WireTakesTwo ==
  ASSUME ClosedPlan(tasks), Wire, \A id \in IdsOf(tasks) : found[id] = Before(tasks, id),
         Grounded(tasks)
  PROVE  TakesTwo(tasks', tasks)
<1>1. /\ ClosedPlan(tasks') /\ DOMAIN tasks' = DOMAIN tasks
      /\ \A i \in DOMAIN tasks :
           /\ tasks'[i].id = tasks[i].id
           /\ ToSet(tasks'[i].depends_on)
                = ToSet(tasks[i].depends_on) \cup NewEdges(tasks[i])
  BY WireMoves
<1>2. IdsOf(tasks') = IdsOf(tasks)
  BY <1>1 DEF IdsOf
<1>3. SUFFICES ASSUME NEW S \in SUBSET IdsOf(tasks),
                      \A s \in S : DependsOn(tasks', s) \cap S # {}, S # {},
                      \A i, j \in DOMAIN tasks :
                        Grows(tasks', tasks, i) /\ Grows(tasks', tasks, j) => i = j
               PROVE  FALSE
  BY <1>1, <1>2 DEF TakesTwo, Grounded, GroundedIn
<1>4. PICK s \in S : DependsOn(tasks, s) \cap S = {}
  BY <1>3 DEF Grounded, GroundedIn
<1>5. PICK i \in DOMAIN tasks : s = tasks[i].id
  BY DEF IdsOf
<1>6. \A j \in DOMAIN tasks : /\ DependsOn(tasks, tasks[j].id) = ToSet(tasks[j].depends_on)
                              /\ DependsOn(tasks', tasks[j].id) = ToSet(tasks'[j].depends_on)
  BY <1>1, DependsOnOne DEF ClosedPlan
<1>7. PICK p \in S : p \in ToSet(tasks'[i].depends_on) /\ p \notin ToSet(tasks[i].depends_on)
  BY <1>3, <1>4, <1>5, <1>6
<1>8. p \in NewEdges(tasks[i]) /\ tasks[i] \in Tasks1(tasks)
  BY <1>1, <1>7 DEF Tasks1
<1>9. p # s /\ s \notin Before(tasks, p)
  <2>1. p \in IdsOf(tasks) \ {s}
    BY <1>5, <1>8, ProducersAreOthers
  <2>2. s \notin found[p]
    BY <1>5, <1>8 DEF NewEdges
  <2> QED BY <2>1, <2>2
<1> DEFINE T == {x \in S : x # s /\ s \notin Before(tasks, x)}
<1>10. T \in SUBSET IdsOf(tasks) /\ T # {}
  BY <1>9
<1>11. PICK x \in T : DependsOn(tasks, x) \cap T = {}
  BY <1>10 DEF Grounded, GroundedIn
<1>12. PICK j \in DOMAIN tasks : x = tasks[j].id
  BY <1>11 DEF IdsOf
<1>13. ToSet(tasks'[j].depends_on) = ToSet(tasks[j].depends_on)
  BY <1>3, <1>5, <1>7, <1>11, <1>12 DEF Grows
<1>14. PICK d \in S : d \in DependsOn(tasks, x)
  BY <1>3, <1>6, <1>11, <1>12, <1>13
<1>15. d # s /\ s \notin Before(tasks, d)
  BY <1>11, <1>14, BeforeUnfolds
<1> QED BY <1>11, <1>14, <1>15

LEMMA CheckWarns ==
  ASSUME ClosedPlan(tasks), CheckContracts, \A id \in IdsOf(tasks) : found[id] = Before(tasks, id)
  PROVE  AllWarned(source, tasks, warned')
<1>1. warned' = {t.id : t \in {t \in Consumers(tasks) :
                                 ProducerIds(tasks, t) \cap found[t.id] = {}}}
  BY DEF CheckContracts
<1>2. \A t \in Tasks1(tasks) : found[t.id] = Before(tasks, t.id)
  BY TasksAreTasks DEF ClosedPlan
<1>3. \A t, s \in Tasks1(tasks) : t.id = s.id => t = s
  BY DEF ClosedPlan, UniqueIds, Tasks1
<1>4. SUFFICES ASSUME NEW t \in Tasks1(tasks), IdsFrom(source, tasks, t) # {}
               PROVE  t.id \in warned' <=>
                        IdsFrom(source, tasks, t) \cap Before(tasks, t.id) = {}
  BY DEF AllWarned
<1>5. IdsFrom(source, tasks, t) = ProducerIds(tasks, t) /\ t \in Consumers(tasks)
  BY <1>4, ProducersAre DEF Consumers
<1>6. \A s \in Consumers(tasks) : s \in Tasks1(tasks)
  BY DEF Consumers
<1> QED BY <1>1, <1>2, <1>3, <1>5, <1>6

LEMMA RaceInvKept ==
  ASSUME SearchInv, RaceInv, [PlanNext]_planVars
  PROVE  RaceInv'
<1>1. CASE UNCHANGED planVars
  BY <1>1 DEF planVars, RaceInv
<1>2. CASE Expand
  BY <1>2 DEF Expand, RaceInv, Checked
<1>3. CASE Validate
  BY <1>3 DEF Validate, RaceInv, Checked
<1>4. CASE Visit
  BY <1>4 DEF Visit, RaceInv, Checked, Searches
<1>5. CASE Depend
  <2>1. pc \in Searches /\ UNCHANGED <<source, tasks, loaded, warned>>
    BY <1>5 DEF Depend
  <2>2. pc' = pc \/ pc' = "invalid"
    BY <1>5 DEF Depend
  <2> QED BY <2>1, <2>2 DEF RaceInv, Checked, Searches
<1>6. CASE Return
  BY <1>6 DEF Return, RaceInv, Checked, Searches
<1>7. CASE Load
  BY <1>7, LoadTyped DEF Load, RaceInv, Checked
<1>8. CASE Admit
  <2>1. /\ pc = "loaded" /\ pc' \in {"too_large", "wire", "analyze"}
        /\ UNCHANGED <<source, tasks, loaded, warned>>
    BY <1>8 DEF Admit
  <2>2. pc' = "analyze" => ~source.wire
    BY <1>8 DEF Admit
  <2> QED BY <2>1, <2>2 DEF RaceInv, Checked, AllWired, TakesTwo
<1>9. CASE Wire
  <2>1. pc = "wire" /\ pc' = "analyze" /\ SearchOver /\ source' = source /\ loaded' = loaded
    BY <1>9 DEF Wire
  <2>2. loaded = tasks /\ Grounded(tasks)
    BY <2>1 DEF RaceInv
  <2>3. ClosedPlan(tasks) /\ \A id \in IdsOf(tasks) : found[id] = Before(tasks, id)
    BY <2>1, <2>2, SearchFinds
  <2>4. AllWired(source, tasks', tasks) /\ TakesTwo(tasks', tasks)
    BY <1>9, <2>2, <2>3, WireWires, WireTakesTwo
  <2> QED BY <2>1, <2>2, <2>4 DEF RaceInv, Checked
<1>10. CASE CheckContracts
  <2>1. pc = "analyze" /\ pc' = "graph" /\ SearchOver /\ UNCHANGED <<source, tasks, loaded>>
    BY <1>10 DEF CheckContracts
  <2>2. Grounded(tasks) => AllWarned(source, tasks, warned')
    BY <1>10, <2>1, SearchFinds, CheckWarns
  <2> QED BY <2>1, <2>2 DEF RaceInv, Checked
<1>11. CASE FromPlan
  <2>1. ClosedPlan(tasks)
    BY <1>11 DEF FromPlan, SearchInv, PlanClosed
  <2>2. /\ pc = "graph" /\ pc' \in {"cyclic", "started"}
        /\ pc' = "started" <=> ~Loops(tasks)
        /\ UNCHANGED <<source, tasks, loaded, warned>>
    BY <1>11 DEF FromPlan
  <2>3. pc' = "started" <=> Grounded(tasks)
    BY <2>1, <2>2, GroundedIsLoopFree
  <2> QED BY <2>2, <2>3 DEF RaceInv, Checked
<1> QED BY <1>1, <1>2, <1>3, <1>4, <1>5, <1>6, <1>7, <1>8, <1>9, <1>10, <1>11 DEF PlanNext

LEMMA PlanRaces == PlanSpec => [](SearchInv /\ RaceInv)
<1>1. PlanInit => RaceInv
  BY DEF PlanInit, RaceInv, Checked
<1>2. SearchInv /\ RaceInv /\ [PlanNext]_planVars => RaceInv'
  BY RaceInvKept
<1> QED BY <1>1, <1>2, PlanSearches, PTL DEF PlanSpec

(* A run that starts lets no consumer of a contract overtake its producers  *)
(* without a warning, and after wire_contract_dependencies it waits for all *)
(* the last ones (config/analyze.rs), whatever the plan.                    *)
THEOREM RacesAreWarned == PlanSpec => []NoSilentRace
<1>1. SearchInv /\ RaceInv => NoSilentRace
  <2> SUFFICES ASSUME SearchInv, RaceInv, pc = "started", NEW t \in Consumers(tasks)
               PROVE  LET P        == ProducerIds(tasks, t)
                          LastOnes == {p \in P : \A q \in P \ {p} : p \notin Before(loaded, q)}
                      IN  /\ t.id \in warned <=> P \cap Before(tasks, t.id) = {}
                          /\ source.wire /\ P \cap Before(loaded, t.id) = {} =>
                               \A p \in LastOnes :
                                 p \in Before(tasks, t.id) \/ t.id \in Before(loaded, p)
    BY DEF NoSilentRace
  <2>1. /\ AllWired(source, tasks, loaded) /\ AllWarned(source, tasks, warned)
    BY DEF RaceInv, Checked
  <2>2. t \in Tasks1(tasks) /\ ProducerIds(tasks, t) = IdsFrom(source, tasks, t)
        /\ IdsFrom(source, tasks, t) # {}
    BY ProducersAre DEF Consumers
  <2> QED BY <2>1, <2>2 DEF AllWired, AllWarned, LastOf
<1> QED BY <1>1, PlanRaces, PTL

(* The wiring closes a loop only where two tasks got dependencies; a plan   *)
(* with one consumer of contracts, or with --no-wire-contracts, that loads  *)
(* is never refused by TaskGraph::from_plan (scheduler/dag.rs).             *)
THEOREM LoopsTakeTwo ==
  PlanSpec => [](pc = "cyclic" =>
                   \E i, j \in DOMAIN tasks :
                     /\ i # j
                     /\ ToSet(tasks[i].depends_on) # ToSet(loaded[i].depends_on)
                     /\ ToSet(tasks[j].depends_on) # ToSet(loaded[j].depends_on))
<1>1. SearchInv /\ RaceInv =>
        (pc = "cyclic" =>
           \E i, j \in DOMAIN tasks :
             /\ i # j
             /\ ToSet(tasks[i].depends_on) # ToSet(loaded[i].depends_on)
             /\ ToSet(tasks[j].depends_on) # ToSet(loaded[j].depends_on))
  BY DEF RaceInv, Checked, TakesTwo, Grows
<1> QED BY <1>1, PlanRaces, PTL

------------------------------------------------------------------------------
(* What is written.  With no id given to two tasks, a template has the      *)
(* copies of its own and every other task one.                              *)
Distinct(ts) == \A i, j \in DOMAIN ts : ts[i].id = ts[j].id => i = j
CopyCount(t) == IF Template(t) THEN Len(t.each) ELSE 1
IdAt(t, k)   == IF Template(t) THEN Append(t.id, t.each[k]) ELSE t.id
HasPlace(t)  == t.project # NoProject \/ t.each # <<>>

LEMMA OwnIdsAre ==
  ASSUME NEW t \in Task
  PROVE  OwnIds(t) = {IdAt(t, k) : k \in 1 .. CopyCount(t)}
<1>1. CASE Template(t)
  <2>1. /\ CopyIds(t) \in Seq(Ids) /\ DOMAIN CopyIds(t) = 1 .. Len(t.each)
        /\ \A k \in 1 .. Len(t.each) : CopyIds(t)[k] = Append(t.id, t.each[k])
    BY CopyIdsAre
  <2> QED BY <1>1, <2>1 DEF OwnIds, ToSet, IdAt, CopyCount
<1>2. CASE ~Template(t)
  BY <1>2 DEF OwnIds, IdAt, CopyCount
<1> QED BY <1>1, <1>2

LEMMA OwnCopies ==
  ASSUME NEW ts \in Seq(Task), Distinct(ts), NEW i \in DOMAIN ts
  PROVE  /\ Expandable(ts, ts[i].id) <=> Template(ts[i])
         /\ Template(ts[i]) => Expansion(ts, ts[i].id) = CopyIds(ts[i])
         /\ \A k \in Nat : k \in 1 .. Len(Copies(ts, ts[i])) <=> k \in 1 .. CopyCount(ts[i])
         /\ \A k \in 1 .. CopyCount(ts[i]) :
              /\ Copies(ts, ts[i])[k] \in Task
              /\ Copies(ts, ts[i])[k].id = IdAt(ts[i], k)
              /\ HasPlace(Copies(ts, ts[i])[k]) <=> HasPlace(ts[i])
              /\ Copies(ts, ts[i])[k].depends_on = Rewritten(ts, ts[i].depends_on)
              /\ Copies(ts, ts[i])[k].inputs = ts[i].inputs
              /\ Copies(ts, ts[i])[k].outputs = ts[i].outputs
<1> DEFINE t == ts[i]
           cs == Copies(ts, t)
<1>1. t \in Task /\ Templates(ts) \subseteq DOMAIN ts
  BY ElementOfSeq DEF Templates
<1>2. Expandable(ts, t.id) <=> Template(t)
  BY <1>1 DEF Expandable, Templates, Distinct
<1>3. Template(t) => Expansion(ts, t.id) = CopyIds(t)
  BY <1>1, <1>2, ExpansionIs DEF Distinct
<1>4. /\ cs \in Seq(Task)
      /\ ~Expandable(ts, t.id) =>
           Len(cs) = 1 /\ cs[1].id = t.id /\ cs[1].project = t.project /\ cs[1].each = t.each
      /\ Expandable(ts, t.id) =>
           /\ Len(cs) \in Nat
           /\ \A k \in Nat : k \in 1 .. Len(cs) <=>
                k \in 1 .. Len(t.each) /\ k \in 1 .. Len(Expansion(ts, t.id))
           /\ \A k \in 1 .. Len(cs) :
                /\ cs[k].id = Expansion(ts, t.id)[k]
                /\ cs[k].project = t.each[k] /\ cs[k].each = <<>>
      /\ \A k \in 1 .. Len(cs) : /\ cs[k].depends_on = Rewritten(ts, t.depends_on)
                                 /\ cs[k].inputs = t.inputs /\ cs[k].outputs = t.outputs
  BY <1>1, CopiesAre
<1>5. /\ Len(CopyIds(t)) = Len(t.each) /\ Len(t.each) \in Nat /\ t.each \in Seq(Projects)
      /\ \A k \in 1 .. Len(t.each) : CopyIds(t)[k] = Append(t.id, t.each[k])
  BY <1>1, CopyIdsAre
<1> HIDE DEF t, cs
<1>6. CopyCount(t) \in Nat /\ \A k \in 1 .. CopyCount(t) : k \in Nat
  BY <1>5 DEF CopyCount
<1>7. \A k \in Nat : k \in 1 .. Len(cs) <=> k \in 1 .. CopyCount(t)
  BY <1>2, <1>3, <1>4, <1>5 DEF CopyCount
<1>8. \A k \in 1 .. CopyCount(t) :
        /\ k \in 1 .. Len(cs) /\ cs[k] \in Task
        /\ cs[k].depends_on = Rewritten(ts, t.depends_on)
        /\ cs[k].inputs = t.inputs /\ cs[k].outputs = t.outputs
  <2>1. \A k \in 1 .. Len(cs) : cs[k] \in Task
    BY <1>4, ElementOfSeq
  <2> QED BY <1>4, <1>6, <1>7, <2>1
<1>9. ASSUME NEW k \in 1 .. CopyCount(t)
      PROVE  cs[k].id = IdAt(t, k) /\ (HasPlace(cs[k]) <=> HasPlace(t))
  <2>1. CASE Template(t)
    <3>1. k \in 1 .. Len(t.each) /\ t.each[k] \in Projects /\ t.each # <<>>
      BY <2>1, <1>5, <1>9 DEF CopyCount, Template
    <3>2. cs[k].id = CopyIds(t)[k] /\ cs[k].project = t.each[k]
      BY <2>1, <1>2, <1>3, <1>4, <1>8, <1>9
    <3>3. HasPlace(cs[k]) /\ HasPlace(t)
      BY <3>1, <3>2, FilesAssumption DEF HasPlace
    <3> QED BY <2>1, <1>5, <3>1, <3>2, <3>3 DEF IdAt
  <2>2. CASE ~Template(t)
    <3>1. k = 1
      BY <2>2, <1>9 DEF CopyCount
    <3> QED BY <2>2, <1>2, <1>4, <3>1 DEF IdAt, HasPlace
  <2> QED BY <2>1, <2>2
<1> QED BY <1>2, <1>3, <1>7, <1>8, <1>9 DEF t, cs

(* One id given to two tasks is given to two copies too.                    *)
LEMMA SameIdTwice ==
  ASSUME Written \in Seq(Task), ~Hidden,
         NEW i \in DOMAIN Written, NEW j \in DOMAIN Written, i # j,
         Written[i].id = Written[j].id
  PROVE  ~UniqueIds(Expanded(Written))
<1> DEFINE ts == Written
           es == Expanded(ts)
           id == ts[i].id
<1>1. ts[i] \in Task /\ ts[j] \in Task /\ DOMAIN ts = 1 .. Len(ts)
  BY ElementOfSeq
<1>2. PICK at : IsExpansion(es, ts, at)
  BY ExpandedIs
<1>3. ASSUME NEW h \in DOMAIN ts, ts[h].id = id, h = i \/ h = j
      PROVE  /\ 1 \in 1 .. Len(Copies(ts, ts[h]))
             /\ Copies(ts, ts[h])[1] \in Task
             /\ Copies(ts, ts[h])[1].id = IF Expandable(ts, id) THEN Expansion(ts, id)[1] ELSE id
  <2>1. ts[h] \in Task /\ Copies(ts, ts[h]) \in Seq(Task)
    BY <1>1, <1>3, CopiesAre
  <2>2. CASE ~Expandable(ts, id)
    BY <2>1, <2>2, <1>3, CopiesAre
  <2>3. CASE Expandable(ts, id)
    <3>1. PICK m \in Templates(ts) : ts[m].id = id /\ Expansion(ts, id) = CopyIds(ts[m])
      BY <2>3, ExpansionIs
    <3>2. m \in DOMAIN ts /\ ts[m] \in Task /\ ts[m].each # <<>>
      BY <3>1, ElementOfSeq DEF Templates, Template
    <3>3. h \in Templates(ts)
      BY <1>3, <3>1 DEF Hidden
    <3>4. ts[h].each # <<>>
      BY <3>3 DEF Templates, Template
    <3>5. /\ Len(ts[h].each) \in Nat /\ ts[h].each \in Seq(Projects)
          /\ Len(ts[m].each) \in Nat /\ ts[m].each \in Seq(Projects)
          /\ Len(Expansion(ts, id)) = Len(ts[m].each)
      BY <2>1, <3>1, <3>2, CopyIdsAre
    <3>6. 1 \in 1 .. Len(ts[h].each) /\ 1 \in 1 .. Len(Expansion(ts, id))
      BY <3>2, <3>4, <3>5, EmptySeq
    <3>7. 1 \in 1 .. Len(Copies(ts, ts[h]))
      BY <2>1, <2>3, <1>3, <3>6, CopiesAre
    <3> QED BY <2>1, <2>3, <1>3, <3>7, CopiesAre, ElementOfSeq
  <2> QED BY <2>2, <2>3
<1>4. ASSUME NEW h \in DOMAIN ts, ts[h].id = id, h = i \/ h = j
      PROVE  \E a \in 1 .. Len(es) :
               /\ at[a] = <<h, 1>>
               /\ es[a].id = IF Expandable(ts, id) THEN Expansion(ts, id)[1] ELSE id
  <2>1. PICK a \in 1 .. Len(es) : at[a] = <<h, 1>>
    BY <1>1, <1>2, <1>3, <1>4 DEF IsExpansion
  <2>2. es[a] = WithInputs(Copies(ts, ts[h])[1])
    BY <1>2, <2>1 DEF IsExpansion, CopyAt
  <2>3. es[a].id = Copies(ts, ts[h])[1].id
    <3> DEFINE c == Copies(ts, ts[h])[1]
    <3>1. c \in Task /\ es[a] = WithInputs(c)
      BY <1>3, <1>4, <2>2
    <3> HIDE DEF c
    <3>2. es[a] = [c EXCEPT !.depends_on = WithInputs(c).depends_on]
      BY <3>1, WithInputsAdds
    <3>3. es[a].id = c.id
      BY <3>1, <3>2 DEF Task
    <3> QED BY <3>3 DEF c
  <2> QED BY <1>3, <1>4, <2>1, <2>3
<1>5. PICK a \in 1 .. Len(es) :
        at[a] = <<i, 1>> /\ es[a].id = IF Expandable(ts, id) THEN Expansion(ts, id)[1] ELSE id
  BY <1>4
<1>6. PICK b \in 1 .. Len(es) :
        at[b] = <<j, 1>> /\ es[b].id = IF Expandable(ts, id) THEN Expansion(ts, id)[1] ELSE id
  BY <1>4
<1>7. a # b /\ es[a].id = es[b].id
  BY <1>5, <1>6
<1>8. DOMAIN es = 1 .. Len(es)
  BY ExpandedIs
<1> HIDE DEF es
<1>9. ~UniqueIds(es)
  BY <1>7, <1>8 DEF UniqueIds
<1> QED BY <1>9 DEF es

LEMMA MeantIs ==
  ASSUME Written \in Seq(Task), Distinct(Written), NEW deps \in Seq(Ids)
  PROVE  ToSet(Rewritten(Written, deps)) = Meant(ToSet(deps))
<1> DEFINE ts == Written
           Copied(d) == IF Expandable(ts, d) THEN ToSet(Expansion(ts, d)) ELSE {d}
           Given(d)  == {i \in DOMAIN ts : ts[i].id = d}
           Spoken(d) == IF Given(d) = {} THEN {d} ELSE UNION {OwnIds(ts[i]) : i \in Given(d)}
<1>1. \A d : Copied(d) = Spoken(d)
  <2> SUFFICES ASSUME NEW d PROVE Copied(d) = Spoken(d)
    OBVIOUS
  <2>1. CASE Given(d) = {}
    <3>1. ~Expandable(ts, d)
      BY <2>1 DEF Expandable, Templates
    <3> QED BY <2>1, <3>1
  <2>2. CASE Given(d) # {}
    <3>1. PICK i \in DOMAIN ts : ts[i].id = d
      BY <2>2
    <3>2. Given(d) = {i}
      BY <3>1 DEF Distinct
    <3>3. /\ Expandable(ts, d) <=> Template(ts[i])
          /\ Template(ts[i]) => Expansion(ts, d) = CopyIds(ts[i])
      BY <3>1, OwnCopies
    <3>4. Copied(d) = OwnIds(ts[i])
      BY <3>1, <3>3 DEF OwnIds
    <3>5. Spoken(d) = OwnIds(ts[i])
      BY <3>2
    <3> QED BY <3>4, <3>5
  <2> QED BY <2>1, <2>2
<1>2. ToSet(Rewritten(ts, deps)) = UNION {Copied(d) : d \in ToSet(deps)}
  BY RewrittenIs
<1>3. Meant(ToSet(deps)) = UNION {Spoken(d) : d \in ToSet(deps)}
  BY DEF Meant
<1> HIDE DEF Copied, Spoken
<1>4. UNION {Copied(d) : d \in ToSet(deps)} = UNION {Spoken(d) : d \in ToSet(deps)}
  BY <1>1
<1> QED BY <1>2, <1>3, <1>4

(* The expanded plan, task by task: at[j] is the written task and the       *)
(* number of the copy.                                                      *)
Tells(es, at) ==
  /\ es \in Seq(Task)
  /\ \A j \in DOMAIN es :
       /\ at[j][1] \in DOMAIN Written /\ at[j][2] \in 1 .. CopyCount(Written[at[j][1]])
       /\ at[j] = <<at[j][1], at[j][2]>>
       /\ es[j].id = IdAt(Written[at[j][1]], at[j][2])
       /\ es[j].id \in OwnIds(Written[at[j][1]])
       /\ es[j].inputs = Written[at[j][1]].inputs /\ es[j].outputs = Written[at[j][1]].outputs
       /\ HasPlace(es[j]) <=> HasPlace(Written[at[j][1]])
       /\ ToSet(es[j].depends_on) = Waits(Written[at[j][1]], es[j].id)
  /\ \A j, l \in DOMAIN es : at[j] = at[l] => j = l
  /\ \A i \in DOMAIN Written : \A k \in 1 .. CopyCount(Written[i]) :
       \E j \in DOMAIN es : at[j] = <<i, k>>

LEMMA ExpandedTells ==
  ASSUME Written \in Seq(Task), Distinct(Written)
  PROVE  \E at : Tells(Expanded(Written), at)
<1> DEFINE ts == Written
           es == Expanded(ts)
<1>1. es \in Seq(Task) /\ DOMAIN es = 1 .. Len(es) /\ DOMAIN ts = 1 .. Len(ts)
  BY ExpandedIs
<1>2. PICK at : IsExpansion(es, ts, at)
  BY ExpandedIs
<1> HIDE DEF es
<1>3. ASSUME NEW j \in DOMAIN es
      PROVE  /\ at[j][1] \in DOMAIN ts /\ at[j][2] \in 1 .. CopyCount(ts[at[j][1]])
             /\ at[j] = <<at[j][1], at[j][2]>>
             /\ es[j].id = IdAt(ts[at[j][1]], at[j][2])
             /\ es[j].id \in OwnIds(ts[at[j][1]])
             /\ es[j].inputs = ts[at[j][1]].inputs /\ es[j].outputs = ts[at[j][1]].outputs
             /\ HasPlace(es[j]) <=> HasPlace(ts[at[j][1]])
             /\ ToSet(es[j].depends_on) = Waits(ts[at[j][1]], es[j].id)
  <2> DEFINE i == at[j][1]
             k == at[j][2]
             t == ts[i]
             c == Copies(ts, t)[k]
  <2>1. /\ at[j] \in Nat \X Nat /\ i \in DOMAIN ts /\ k \in 1 .. Len(Copies(ts, t))
        /\ es[j] = WithInputs(c)
    BY <1>1, <1>2 DEF IsExpansion, CopyAt
  <2>2. at[j] = <<i, k>> /\ k \in Nat
    BY <2>1
  <2> HIDE DEF i, k
  <2>3. t \in Task
    BY <2>1, ElementOfSeq
  <2>4. k \in 1 .. CopyCount(t)
    BY <2>1, <2>2, OwnCopies
  <2>5. /\ c \in Task /\ c.id = IdAt(t, k) /\ (HasPlace(c) <=> HasPlace(t))
        /\ c.depends_on = Rewritten(ts, t.depends_on)
        /\ c.inputs = t.inputs /\ c.outputs = t.outputs
    BY <2>1, <2>4, OwnCopies
  <2> HIDE DEF c
  <2>6. /\ WithInputs(c) = [c EXCEPT !.depends_on = WithInputs(c).depends_on]
        /\ ToSet(WithInputs(c).depends_on)
             = ToSet(c.depends_on) \cup ({n.from : n \in ToSet(c.inputs)} \ {c.id})
    BY <2>5, WithInputsAdds
  <2>7. /\ es[j].id = c.id /\ es[j].project = c.project /\ es[j].each = c.each
        /\ es[j].inputs = c.inputs /\ es[j].outputs = c.outputs
    BY <2>1, <2>5, <2>6 DEF Task
  <2>8. t.depends_on \in Seq(Ids)
    BY <2>3 DEF Task
  <2>9. ToSet(c.depends_on) = Meant(ToSet(t.depends_on))
    BY <2>5, <2>8, MeantIs
  <2>10. ToSet(es[j].depends_on) = Waits(t, es[j].id)
    BY <2>1, <2>5, <2>6, <2>7, <2>9 DEF Waits
  <2>11. es[j].id \in OwnIds(t)
    BY <2>3, <2>4, <2>5, <2>7, OwnIdsAre
  <2>12. HasPlace(es[j]) <=> HasPlace(t)
    BY <2>5, <2>7 DEF HasPlace
  <2> QED BY <2>1, <2>2, <2>4, <2>5, <2>7, <2>10, <2>11, <2>12 DEF i, k
<1>4. \A j, l \in DOMAIN es : at[j] = at[l] => j = l
  BY <1>1, <1>2 DEF IsExpansion
<1>5. ASSUME NEW i \in DOMAIN ts, NEW k \in 1 .. CopyCount(ts[i])
      PROVE  \E j \in DOMAIN es : at[j] = <<i, k>>
  <2>1. k \in Nat
    <3>1. ts[i] \in Task
      BY ElementOfSeq
    <3>2. CopyCount(ts[i]) \in Nat
      BY <3>1, CopyIdsAre DEF CopyCount
    <3> QED BY <3>2
  <2>2. k \in 1 .. Len(Copies(ts, ts[i]))
    BY <2>1, <1>5, OwnCopies
  <2> QED BY <1>1, <1>2, <2>2 DEF IsExpansion
<1>6. Tells(es, at)
  BY <1>1, <1>3, <1>4, <1>5 DEF Tells
<1> QED BY <1>6 DEF es

------------------------------------------------------------------------------
(* What is accepted.                                                        *)
LEMMA StatementIs ==
  ASSUME NEW r
  PROVE  r \in Statement <=>
           \E i \in DOMAIN Written : \E id \in OwnIds(Written[i]) :
             r = [task |-> <<i, id>>, id |-> id, waits |-> Waits(Written[i], id)]
BY DEF Statement

(* A copy for every id a task gives, and a statement for every copy.        *)
LEMMA CopiesAndStatements ==
  ASSUME Written \in Seq(Task), NEW es, NEW at, Tells(es, at)
  PROVE  /\ \A i \in DOMAIN Written : \A id \in OwnIds(Written[i]) :
              \E j \in DOMAIN es : at[j][1] = i /\ es[j].id = id
         /\ \A j \in DOMAIN es : \E s \in Statement :
              s.id = es[j].id /\ s.waits = ToSet(es[j].depends_on)
         /\ \A s \in Statement : \E j \in DOMAIN es :
              s.id = es[j].id /\ s.waits = ToSet(es[j].depends_on)
         /\ {s.id : s \in Statement} = IdsOf(es)
<1>1. ASSUME NEW i \in DOMAIN Written, NEW id \in OwnIds(Written[i])
      PROVE  \E j \in DOMAIN es : at[j][1] = i /\ es[j].id = id
  <2>1. Written[i] \in Task
    BY ElementOfSeq
  <2>2. PICK k \in 1 .. CopyCount(Written[i]) : id = IdAt(Written[i], k)
    BY <2>1, OwnIdsAre
  <2>3. PICK j \in DOMAIN es : at[j] = <<i, k>>
    BY DEF Tells
  <2>4. at[j][1] = i /\ at[j][2] = k
    BY <2>3
  <2> QED BY <2>2, <2>4 DEF Tells
<1>2. ASSUME NEW j \in DOMAIN es
      PROVE  \E s \in Statement : s.id = es[j].id /\ s.waits = ToSet(es[j].depends_on)
  <2> DEFINE i == at[j][1]
             id == es[j].id
             s == [task |-> <<i, id>>, id |-> id, waits |-> Waits(Written[i], id)]
  <2>1. i \in DOMAIN Written /\ id \in OwnIds(Written[i])
        /\ Waits(Written[i], id) = ToSet(es[j].depends_on)
    BY DEF Tells
  <2>2. s \in Statement
    BY <2>1, StatementIs
  <2> QED BY <2>1, <2>2
<1>3. ASSUME NEW s \in Statement
      PROVE  \E j \in DOMAIN es : s.id = es[j].id /\ s.waits = ToSet(es[j].depends_on)
  <2>a. PICK i \in DOMAIN Written : \E id \in OwnIds(Written[i]) :
          s = [task |-> <<i, id>>, id |-> id, waits |-> Waits(Written[i], id)]
    BY StatementIs
  <2>1. PICK id \in OwnIds(Written[i]) :
          s = [task |-> <<i, id>>, id |-> id, waits |-> Waits(Written[i], id)]
    BY <2>a
  <2>2. PICK j \in DOMAIN es : at[j][1] = i /\ es[j].id = id
    BY <1>1
  <2>3. ToSet(es[j].depends_on) = Waits(Written[i], id)
    BY <2>2 DEF Tells
  <2> QED BY <2>1, <2>2, <2>3
<1>4. {s.id : s \in Statement} = IdsOf(es)
  BY <1>2, <1>3 DEF IdsOf
<1> QED BY <1>1, <1>2, <1>3, <1>4

LEMMA CopiesDiffer ==
  ASSUME NEW t \in Task, Template(t) => IsInjective(t.each),
         NEW a \in 1 .. CopyCount(t), NEW b \in 1 .. CopyCount(t), IdAt(t, a) = IdAt(t, b)
  PROVE  a = b
<1>1. CASE ~Template(t)
  <2>1. a \in 1 .. 1 /\ b \in 1 .. 1
    BY <1>1 DEF CopyCount
  <2> QED BY <2>1
<1>2. CASE Template(t)
  <2>1. t.id \in Ids /\ t.each \in Seq(Projects) /\ Len(t.each) \in Nat
    BY DEF Task
  <2>2. a \in DOMAIN t.each /\ b \in DOMAIN t.each
    BY <1>2, <2>1 DEF CopyCount
  <2>3. t.each[a] = t.each[b]
    <3> DEFINE S == Names \cup Projects
    <3>1. Append(t.id, t.each[a]) = Append(t.id, t.each[b])
      BY <1>2 DEF IdAt
    <3>2. t.each[a] \in S /\ t.each[b] \in S /\ t.id \in Seq(S)
      BY <2>1, <2>2 DEF Ids
    <3> HIDE DEF S
    <3>3. /\ Append(t.id, t.each[a])[Len(t.id) + 1] = t.each[a]
          /\ Append(t.id, t.each[b])[Len(t.id) + 1] = t.each[b]
      BY <3>2, AppendProperties
    <3> QED BY <3>1, <3>3
  <2> QED BY <1>2, <2>2, <2>3 DEF IsInjective
<1> QED BY <1>1, <1>2

(* A plan that makes sense is valid and has no loop.                        *)
LEMMA SensibleIsAccepted ==
  ASSUME Written \in Seq(Task), Sensible, tasks = Expanded(Written)
  PROVE  Valid /\ Grounded(tasks)
<1>1. Distinct(Written)
  BY DEF Sensible, Distinct
<1>2. PICK at : Tells(tasks, at)
  BY <1>1, ExpandedTells
<1>3. /\ \A i \in DOMAIN Written : \A id \in OwnIds(Written[i]) :
           \E j \in DOMAIN tasks : at[j][1] = i /\ tasks[j].id = id
      /\ \A j \in DOMAIN tasks : \E s \in Statement :
           s.id = tasks[j].id /\ s.waits = ToSet(tasks[j].depends_on)
      /\ \A s \in Statement : \E j \in DOMAIN tasks :
           s.id = tasks[j].id /\ s.waits = ToSet(tasks[j].depends_on)
      /\ {s.id : s \in Statement} = IdsOf(tasks)
  BY <1>2, CopiesAndStatements
<1>4. UniqueIds(tasks)
  <2> SUFFICES ASSUME NEW j \in DOMAIN tasks, NEW l \in DOMAIN tasks, tasks[j].id = tasks[l].id
               PROVE  j = l
    BY DEF UniqueIds
  <2> DEFINE i == at[j][1]
             t == Written[i]
  <2>1. /\ i \in DOMAIN Written /\ at[l][1] \in DOMAIN Written
        /\ tasks[j].id \in OwnIds(t) /\ tasks[l].id \in OwnIds(Written[at[l][1]])
    BY <1>2 DEF Tells
  <2>2. at[l][1] = i
    BY <2>1 DEF Sensible
  <2>3. at[j][2] = at[l][2]
    <3>1. /\ at[j][2] \in 1 .. CopyCount(t) /\ at[l][2] \in 1 .. CopyCount(t)
          /\ IdAt(t, at[j][2]) = IdAt(t, at[l][2])
      BY <1>2, <2>2 DEF Tells
    <3>2. t \in Task /\ (Template(t) => IsInjective(t.each))
      BY <2>1, ElementOfSeq DEF Sensible
    <3> HIDE DEF t
    <3> QED BY <3>1, <3>2, CopiesDiffer
  <2>4. at[j] = at[l]
    <3>1. at[j] = <<i, at[j][2]>> /\ at[l] = <<at[l][1], at[l][2]>>
      BY <1>2 DEF Tells
    <3> HIDE DEF i
    <3> QED BY <2>2, <2>3, <3>1
  <2> QED BY <1>2, <2>4 DEF Tells
<1>5. ASSUME NEW j \in DOMAIN tasks
      PROVE  /\ ToSet(tasks[j].depends_on) \subseteq IdsOf(tasks) \ {tasks[j].id}
             /\ tasks[j].project # NoProject \/ tasks[j].each # <<>>
  <2>1. PICK s \in Statement : s.id = tasks[j].id /\ s.waits = ToSet(tasks[j].depends_on)
    BY <1>3
  <2>2. s.waits \subseteq IdsOf(tasks)
    BY <1>3 DEF Sensible
  <2>3. s.id \notin s.waits
    <3>1. {s} \in SUBSET Statement /\ {s} # {}
      OBVIOUS
    <3>2. \E r \in {s} : r.waits \cap {q.id : q \in {s}} = {}
      BY <3>1 DEF Sensible
    <3> QED BY <3>2
  <2>4. HasPlace(Written[at[j][1]])
    BY <1>2 DEF Tells, Sensible, HasPlace
  <2>5. HasPlace(tasks[j])
    BY <1>2, <2>4 DEF Tells
  <2> QED BY <2>1, <2>2, <2>3, <2>5 DEF HasPlace
<1>6. ASSUME NEW j \in DOMAIN tasks, NEW n \in ToSet(tasks[j].inputs)
      PROVE  Feeds(n, tasks[j]) /\ n.from \in ToSet(tasks[j].depends_on)
  <2> DEFINE t == Written[at[j][1]]
  <2>1. /\ at[j][1] \in DOMAIN Written /\ n \in ToSet(t.inputs) /\ tasks[j].id \in OwnIds(t)
        /\ ToSet(tasks[j].depends_on) = Waits(t, tasks[j].id)
    BY <1>2 DEF Tells
  <2>2. Makes(n.from, n.output) /\ n.from \notin OwnIds(t)
    BY <2>1 DEF Sensible
  <2>3. PICK i \in DOMAIN Written : n.from \in OwnIds(Written[i]) /\ n.output \in Written[i].outputs
    BY <2>2 DEF Makes
  <2>4. PICK l \in DOMAIN tasks : at[l][1] = i /\ tasks[l].id = n.from
    BY <1>3, <2>3
  <2>5. tasks[l].outputs = Written[i].outputs
    BY <1>2, <2>4 DEF Tells
  <2>6. n.from \in IdsOf(tasks)
    BY <2>4 DEF IdsOf
  <2>7. ById(n.from) = tasks[l]
    BY <1>4, <2>4 DEF ById, UniqueIds
  <2>8. n.from # tasks[j].id /\ n.from \in Waits(t, tasks[j].id)
    BY <2>1, <2>2 DEF Waits
  <2> QED BY <2>1, <2>3, <2>5, <2>6, <2>7, <2>8 DEF Feeds
<1>7. Valid
  BY <1>4, <1>5, <1>6 DEF Valid, UniqueIds
<1>8. Grounded(tasks)
  <2> SUFFICES ASSUME NEW S \in SUBSET IdsOf(tasks), S # {}
               PROVE  \E x \in S : DependsOn(tasks, x) \cap S = {}
    BY DEF Grounded, GroundedIn
  <2> DEFINE R == {r \in Statement : r.id \in S}
  <2>1. {r.id : r \in R} = S
    BY <1>3
  <2>2. R \in SUBSET Statement /\ R # {}
    BY <2>1
  <2> HIDE DEF R
  <2>3. PICK s \in R : s.waits \cap {r.id : r \in R} = {}
    BY <2>2 DEF Sensible
  <2>4. PICK j \in DOMAIN tasks : s.id = tasks[j].id /\ s.waits = ToSet(tasks[j].depends_on)
    BY <1>3, <2>2
  <2>5. DependsOn(tasks, s.id) = s.waits
    BY <1>4, <2>4, DependsOnOne
  <2> QED BY <2>1, <2>3, <2>5
<1> QED BY <1>7, <1>8

(* And what is valid and has no loop made sense.                            *)
LEMMA AcceptedIsSensible ==
  ASSUME Written \in Seq(Task), ~Hidden, tasks = Expanded(Written), Valid, Grounded(tasks)
  PROVE  Sensible /\ \E at : Tells(tasks, at)
<1>1. UniqueIds(tasks)
  BY DEF Valid, UniqueIds
<1>2. Distinct(Written)
  BY <1>1, SameIdTwice DEF Distinct
<1>3. PICK at : Tells(tasks, at)
  BY <1>2, ExpandedTells
<1>4. /\ \A i \in DOMAIN Written : \A id \in OwnIds(Written[i]) :
           \E j \in DOMAIN tasks : at[j][1] = i /\ tasks[j].id = id
      /\ \A j \in DOMAIN tasks : \E s \in Statement :
           s.id = tasks[j].id /\ s.waits = ToSet(tasks[j].depends_on)
      /\ \A s \in Statement : \E j \in DOMAIN tasks :
           s.id = tasks[j].id /\ s.waits = ToSet(tasks[j].depends_on)
      /\ {s.id : s \in Statement} = IdsOf(tasks)
  BY <1>3, CopiesAndStatements
<1>5. ASSUME NEW i \in DOMAIN Written, NEW l \in DOMAIN Written, i # l
      PROVE  Written[i].id # Written[l].id /\ OwnIds(Written[i]) \cap OwnIds(Written[l]) = {}
  <2>1. ASSUME NEW id \in OwnIds(Written[i]) \cap OwnIds(Written[l]) PROVE FALSE
    <3>1. PICK a \in DOMAIN tasks : at[a][1] = i /\ tasks[a].id = id
      BY <1>4, <2>1
    <3>2. PICK b \in DOMAIN tasks : at[b][1] = l /\ tasks[b].id = id
      BY <1>4, <2>1
    <3> QED BY <1>1, <1>5, <3>1, <3>2 DEF UniqueIds
  <2> QED BY <1>2, <1>5, <2>1 DEF Distinct
<1>6. ASSUME NEW i \in DOMAIN Written
      PROVE  /\ CopyCount(Written[i]) \in Nat /\ 1 \in 1 .. CopyCount(Written[i])
             /\ Written[i] \in Task
  <2>1. Written[i] \in Task
    BY ElementOfSeq
  <2>2. Written[i].each \in Seq(Projects)
    BY <2>1 DEF Task
  <2>3. Len(Written[i].each) \in Nat /\ (Written[i].each # <<>> => Len(Written[i].each) # 0)
    BY <2>2, EmptySeq
  <2> QED BY <2>1, <2>3 DEF CopyCount, Template
<1>7. ASSUME NEW i \in DOMAIN Written, Template(Written[i])
      PROVE  IsInjective(Written[i].each)
  <2> DEFINE t == Written[i]
  <2>1. t \in Task /\ CopyCount(t) = Len(t.each)
    BY <1>6, <1>7 DEF CopyCount
  <2>2. DOMAIN t.each = 1 .. CopyCount(t)
    <3>1. t.each \in Seq(Projects)
      BY <2>1 DEF Task
    <3> QED BY <2>1, <3>1
  <2>3. ASSUME NEW a \in DOMAIN t.each, NEW b \in DOMAIN t.each, t.each[a] = t.each[b]
        PROVE  a = b
    <3>1. IdAt(t, a) = IdAt(t, b)
      BY <1>7, <2>3 DEF IdAt
    <3>2. PICK j \in DOMAIN tasks : at[j] = <<i, a>>
      BY <1>3, <2>2 DEF Tells
    <3>3. PICK l \in DOMAIN tasks : at[l] = <<i, b>>
      BY <1>3, <2>2 DEF Tells
    <3>4. at[j][1] = i /\ at[j][2] = a /\ at[l][1] = i /\ at[l][2] = b
      BY <3>2, <3>3
    <3>5. tasks[j].id = IdAt(t, a) /\ tasks[l].id = IdAt(t, b)
      BY <1>3, <3>4 DEF Tells
    <3>6. j = l
      BY <1>1, <3>1, <3>5 DEF UniqueIds
    <3> QED BY <3>4, <3>6
  <2> QED BY <2>3 DEF IsInjective
<1>8. ASSUME NEW i \in DOMAIN Written, NEW n \in ToSet(Written[i].inputs)
      PROVE  Makes(n.from, n.output) /\ n.from \notin OwnIds(Written[i])
  <2>1. ASSUME NEW j \in DOMAIN tasks, at[j][1] = i PROVE Feeds(n, tasks[j])
    BY <1>3, <1>8, <2>1 DEF Tells, Valid
  <2>2. n.from \notin OwnIds(Written[i])
    <3> SUFFICES ASSUME n.from \in OwnIds(Written[i]) PROVE FALSE
      OBVIOUS
    <3>1. PICK j \in DOMAIN tasks : at[j][1] = i /\ tasks[j].id = n.from
      BY <1>4
    <3> QED BY <2>1, <3>1 DEF Feeds
  <2>3. PICK j \in DOMAIN tasks : at[j] = <<i, 1>>
    BY <1>3, <1>6 DEF Tells
  <2>4. at[j][1] = i
    BY <2>3
  <2>5. n.from \in IdsOf(tasks) /\ n.output \in ById(n.from).outputs
    BY <2>1, <2>4 DEF Feeds
  <2>6. PICK l \in DOMAIN tasks : tasks[l].id = n.from
    BY <2>5 DEF IdsOf
  <2>7. ById(n.from) = tasks[l]
    BY <1>1, <2>6 DEF ById, UniqueIds
  <2>8. Makes(n.from, n.output)
    <3>1. /\ at[l][1] \in DOMAIN Written /\ tasks[l].id \in OwnIds(Written[at[l][1]])
          /\ tasks[l].outputs = Written[at[l][1]].outputs
      BY <1>3 DEF Tells
    <3> QED BY <2>5, <2>6, <2>7, <3>1 DEF Makes
  <2> QED BY <2>2, <2>8
<1>9. ASSUME NEW i \in DOMAIN Written PROVE HasPlace(Written[i])
  <2>1. PICK j \in DOMAIN tasks : at[j] = <<i, 1>>
    BY <1>3, <1>6 DEF Tells
  <2>2. at[j][1] = i
    BY <2>1
  <2>3. HasPlace(tasks[j])
    BY DEF Valid, HasPlace
  <2> QED BY <1>3, <2>2, <2>3 DEF Tells
<1>10. ASSUME NEW s \in Statement PROVE s.waits \subseteq {r.id : r \in Statement}
  <2>1. PICK j \in DOMAIN tasks : s.waits = ToSet(tasks[j].depends_on)
    BY <1>4, <1>10
  <2>2. ToSet(tasks[j].depends_on) \subseteq IdsOf(tasks)
    BY DEF Valid
  <2> QED BY <1>4, <2>1, <2>2
<1>11. ASSUME NEW S \in SUBSET Statement, S # {}
       PROVE  \E s \in S : s.waits \cap {r.id : r \in S} = {}
  <2> DEFINE T == {r.id : r \in S}
  <2>1. T \in SUBSET IdsOf(tasks) /\ T # {}
    BY <1>4, <1>11
  <2> HIDE DEF T
  <2>2. PICK x \in T : DependsOn(tasks, x) \cap T = {}
    BY <2>1 DEF Grounded, GroundedIn
  <2>3. PICK s \in S : s.id = x
    BY DEF T
  <2>4. PICK j \in DOMAIN tasks : s.id = tasks[j].id /\ s.waits = ToSet(tasks[j].depends_on)
    BY <1>4
  <2>5. DependsOn(tasks, x) = s.waits
    BY <1>1, <2>3, <2>4, DependsOnOne
  <2> QED BY <2>2, <2>3, <2>5 DEF T
<1> QED BY <1>3, <1>5, <1>7, <1>8, <1>9, <1>10, <1>11 DEF Sensible, HasPlace

(* What is loaded tells what is written.                                    *)
LEMMA LoadedTells ==
  ASSUME Written \in Seq(Task), NEW es, NEW at, Tells(es, at)
  PROVE  {[id |-> t.id, waits |-> ToSet(t.depends_on)] : t \in Tasks1(es)}
           = {[id |-> s.id, waits |-> s.waits] : s \in Statement}
<1>1. /\ \A j \in DOMAIN es : \E s \in Statement :
           s.id = es[j].id /\ s.waits = ToSet(es[j].depends_on)
      /\ \A s \in Statement : \E j \in DOMAIN es :
           s.id = es[j].id /\ s.waits = ToSet(es[j].depends_on)
  BY CopiesAndStatements
<1>2. ASSUME NEW t \in Tasks1(es)
      PROVE  [id |-> t.id, waits |-> ToSet(t.depends_on)]
               \in {[id |-> s.id, waits |-> s.waits] : s \in Statement}
  <2>1. PICK j \in DOMAIN es : t = es[j]
    BY DEF Tasks1
  <2> QED BY <1>1, <2>1
<1>3. ASSUME NEW s \in Statement
      PROVE  [id |-> s.id, waits |-> s.waits]
               \in {[id |-> t.id, waits |-> ToSet(t.depends_on)] : t \in Tasks1(es)}
  <2>1. PICK j \in DOMAIN es : s.id = es[j].id /\ s.waits = ToSet(es[j].depends_on)
    BY <1>1
  <2>2. es[j] \in Tasks1(es)
    BY DEF Tasks1
  <2> QED BY <2>1, <2>2
<1> QED BY <1>2, <1>3

LoadInv ==
  /\ pc \in {"check", "cycle", "invalid", "loaded"} => tasks = Expanded(Written)
  /\ pc = "invalid" => ~(Valid /\ Grounded(tasks))
  /\ pc \in {"cycle", "loaded"} => Valid

LEMMA LoadInvKept ==
  ASSUME SearchInv, LoadInv, [PlanNext]_planVars
  PROVE  LoadInv'
<1>1. UNCHANGED <<source, tasks>> => (Valid' <=> Valid) /\ Written' = Written
  BY DEF Valid, Feeds, ById, Written
<1>2. CASE UNCHANGED planVars
  BY <1>1, <1>2 DEF planVars, LoadInv
<1>3. CASE Expand
  BY <1>3 DEF Expand, LoadInv, Written
<1>4. CASE Validate
  <2>1. /\ pc = "check" /\ UNCHANGED <<source, tasks>>
        /\ pc' = IF Valid THEN "cycle" ELSE "invalid"
    BY <1>4 DEF Validate
  <2> QED BY <1>1, <2>1 DEF LoadInv
<1>5. CASE Visit \/ Return
  BY <1>1, <1>5 DEF Visit, Return, LoadInv
<1>6. CASE Depend
  <2>1. UNCHANGED <<source, tasks>>
    BY <1>6 DEF Depend
  <2>2. CASE pc' = pc
    BY <1>1, <2>1, <2>2 DEF LoadInv
  <2>3. CASE pc' # pc
    BY <1>1, <1>6, <2>1, <2>3, RefusedLoops DEF LoadInv
  <2> QED BY <2>2, <2>3
<1>7. CASE Load
  BY <1>1, <1>7 DEF Load, LoadInv
<1>8. CASE Admit \/ Wire \/ CheckContracts \/ FromPlan
  <2>1. pc' \notin {"check", "cycle", "invalid", "loaded"}
    BY <1>8 DEF Admit, Wire, CheckContracts, FromPlan
  <2> QED BY <2>1 DEF LoadInv
<1> QED BY <1>2, <1>3, <1>4, <1>5, <1>6, <1>7, <1>8 DEF PlanNext

(* Plan::load (config/plan.rs) returns what was written, for every copy of  *)
(* a template, and refuses exactly the plans that do not make sense: those  *)
(* that give an id twice, name what is not there or cannot be carried out   *)
(* in any order.                                                            *)
THEOREM WrittenIsLoaded == PlanSpec => []LoadsWhatIsWritten
<1>1. PlanInit => LoadInv
  BY DEF PlanInit, LoadInv
<1>2. SearchInv /\ LoadInv /\ [PlanNext]_planVars => LoadInv'
  BY LoadInvKept
<1>3. PlanSpec => []LoadInv
  BY <1>1, <1>2, PlanSearches, PTL DEF PlanSpec
<1>4. SearchInv /\ RaceInv /\ LoadInv => LoadsWhatIsWritten
  <2> SUFFICES ASSUME SearchInv, RaceInv, LoadInv, ~Hidden
               PROVE  /\ pc = "invalid" => ~Sensible
                      /\ pc = "loaded" =>
                           /\ Sensible
                           /\ {[id |-> t.id, waits |-> ToSet(t.depends_on)] : t \in Tasks1(loaded)}
                                = {[id |-> s.id, waits |-> s.waits] : s \in Statement}
    BY DEF LoadsWhatIsWritten
  <2>1. Written \in Seq(Task)
    BY DEF SearchInv, PlanTypeOK, File, Written
  <2>2. pc = "invalid" => ~Sensible
    BY <2>1, SensibleIsAccepted DEF LoadInv
  <2>3. ASSUME pc = "loaded"
        PROVE  /\ Sensible
               /\ {[id |-> t.id, waits |-> ToSet(t.depends_on)] : t \in Tasks1(loaded)}
                    = {[id |-> s.id, waits |-> s.waits] : s \in Statement}
    <3>1. tasks = Expanded(Written) /\ Valid /\ loaded = tasks /\ Grounded(tasks)
      BY <2>3 DEF LoadInv, RaceInv
    <3>2. Sensible /\ \E at : Tells(loaded, at)
      BY <2>1, <3>1, AcceptedIsSensible
    <3> QED BY <2>1, <3>2, LoadedTells
  <2> QED BY <2>2, <2>3
<1> QED BY <1>3, <1>4, PlanRaces, PTL
==============================================================================
