--------------------------- MODULE SequenceLemmas ---------------------------
(***************************************************************************)
(* What the proofs need to know of sequences beyond SequenceTheorems: the  *)
(* concatenation of a sequence of sequences, FlattenSeq of SequencesExt.   *)
(* It is defined by a recursive function, so its lemmas are by induction;  *)
(* the induction is over a set of numbers, which is first-order.           *)
(***************************************************************************)
EXTENDS SequencesExt, SequenceTheorems, WellFoundedInduction, TLAPS

\* A set of numbers that is not empty has a least one.
LEMMA LeastNumber ==
  ASSUME NEW T, T \subseteq Nat, T # {}
  PROVE  \E n \in T : \A m \in T : n <= m
<1>1. PICK R : R = {ss \in Nat \X Nat : ss[1] < ss[2]} /\ IsWellFoundedOn(R, Nat)
  BY NatLessThanWellFounded DEF OpToRel
<1>2. PICK n \in T : \A m \in T : ~(<<m, n>> \in R)
  BY <1>1, WFMin
<1>3. \A m \in T : m < n => <<m, n>> \in R
  BY <1>1
<1>4. n \in Nat /\ \A m \in T : m \in Nat /\ ~(m < n)
  BY <1>2, <1>3
<1> QED
  BY <1>4

\* Induction: a set that holds 0 and every successor holds all numbers.
LEMMA AllNumbers ==
  ASSUME NEW T, 0 \in T, \A n \in Nat : n \in T => n + 1 \in T
  PROVE  Nat \subseteq T
<1> SUFFICES ASSUME Nat \ T # {} PROVE FALSE
  OBVIOUS
<1>1. PICK n \in Nat \ T : \A m \in Nat \ T : n <= m
  BY LeastNumber
<1>2. n # 0 /\ n - 1 \in Nat
  BY <1>1
<1>3. n - 1 \in T
  BY <1>1, <1>2
<1> QED
  BY <1>1, <1>2, <1>3

\* f holds the concatenations of the first 1, ..., n of seqs.
Concatenations(f, seqs, n) ==
  /\ f = [i \in 1..n |-> f[i]]
  /\ \A i \in 1..n : f[i] = IF i = 1 THEN seqs[i] ELSE f[i - 1] \o seqs[i]

\* There is such a function, and its values are sequences.
LEMMA ConcatenationsExist ==
  ASSUME NEW S, NEW seqs \in Seq(Seq(S))
  PROVE  \A n \in 0..Len(seqs) :
            \E f \in [1..n -> Seq(S)] : Concatenations(f, seqs, n)
<1> DEFINE T == {n \in Nat : n <= Len(seqs) =>
                    \E f \in [1..n -> Seq(S)] : Concatenations(f, seqs, n)}
<1>1. 0 \in T
  <2>1. \E f \in [1..0 -> Seq(S)] : Concatenations(f, seqs, 0)
    <3> DEFINE g == [i \in 1..0 |-> <<>>]
    <3>1. g \in [1..0 -> Seq(S)] /\ Concatenations(g, seqs, 0)
      BY DEF Concatenations
    <3> QED
      BY <3>1
  <2> QED
    BY <2>1
<1>2. ASSUME NEW n \in Nat, n \in T
      PROVE  n + 1 \in T
  <2>1. SUFFICES ASSUME n + 1 <= Len(seqs)
                 PROVE  \E f \in [1..(n + 1) -> Seq(S)] : Concatenations(f, seqs, n + 1)
    OBVIOUS
  <2>2. PICK f \in [1..n -> Seq(S)] : Concatenations(f, seqs, n)
    BY <1>2, <2>1
  <2>3. seqs[n + 1] \in Seq(S)
    BY <2>1
  <2> DEFINE last == IF n = 0 THEN seqs[1] ELSE f[n] \o seqs[n + 1]
  <2> DEFINE g == [i \in 1..(n + 1) |-> IF i = n + 1 THEN last ELSE f[i]]
  <2>4. last \in Seq(S)
    BY <2>3
  <2>5. g \in [1..(n + 1) -> Seq(S)]
    BY <2>4
  <2>6. \A i \in 1..(n + 1) : g[i] = IF i = 1 THEN seqs[i] ELSE g[i - 1] \o seqs[i]
    <3> SUFFICES ASSUME NEW i \in 1..(n + 1)
                 PROVE  g[i] = IF i = 1 THEN seqs[i] ELSE g[i - 1] \o seqs[i]
      OBVIOUS
    <3>1. CASE i = n + 1
      BY <3>1
    <3>2. CASE i # n + 1
      <4>1. i \in 1..n /\ (i # 1 => i - 1 \in 1..n /\ i - 1 # n + 1)
        BY <3>2
      <4>2. f[i] = IF i = 1 THEN seqs[i] ELSE f[i - 1] \o seqs[i]
        BY <2>2, <4>1 DEF Concatenations
      <4>3. g[i] = f[i] /\ (i # 1 => g[i - 1] = f[i - 1])
        BY <3>2, <4>1
      <4> QED
        BY <4>2, <4>3
    <3> QED
      BY <3>1, <3>2
  <2>7. Concatenations(g, seqs, n + 1)
    BY <2>6 DEF Concatenations
  <2> QED
    BY <2>5, <2>7
<1>3. Nat \subseteq T
  BY <1>1, <1>2, AllNumbers
<1> QED
  BY <1>3

Agree(seqs, other, n) == \A i \in 1..n : other[i] = seqs[i]

\* Two of them agree where both are defined.
LEMMA ConcatenationsUnique ==
  ASSUME NEW seqs, NEW other, NEW n \in Nat, NEW m \in Nat, NEW f, NEW g, n <= m,
         Agree(seqs, other, n),
         Concatenations(f, seqs, n), Concatenations(g, other, m)
  PROVE  \A i \in 1..n : f[i] = g[i]
<1> DEFINE T == {i \in Nat : i \in 1..n => f[i] = g[i]}
<1>1. 0 \in T
  OBVIOUS
<1>2. ASSUME NEW i \in Nat, i \in T
      PROVE  i + 1 \in T
  <2>1. SUFFICES ASSUME i + 1 \in 1..n
                 PROVE  f[i + 1] = g[i + 1]
    OBVIOUS
  <2>2. i + 1 \in 1..m /\ other[i + 1] = seqs[i + 1]
    BY <2>1 DEF Agree
  <2>3. /\ f[i + 1] = IF i + 1 = 1 THEN seqs[i + 1] ELSE f[(i + 1) - 1] \o seqs[i + 1]
        /\ g[i + 1] = IF i + 1 = 1 THEN other[i + 1] ELSE g[(i + 1) - 1] \o other[i + 1]
    BY <2>1, <2>2 DEF Concatenations
  <2>4. i + 1 # 1 => (i + 1) - 1 = i /\ f[i] = g[i]
    BY <1>2, <2>1
  <2> QED
    BY <2>2, <2>3, <2>4
<1>3. Nat \subseteq T
  BY <1>1, <1>2, AllNumbers
<1> QED
  BY <1>3

\* FlattenSeq takes the last value of such a function.
LEMMA FlattenIsLast ==
  ASSUME NEW S, NEW seqs \in Seq(Seq(S)), seqs # <<>>
  PROVE  \E f \in [1..Len(seqs) -> Seq(S)] :
            Concatenations(f, seqs, Len(seqs)) /\ FlattenSeq(seqs) = f[Len(seqs)]
<1>1. Len(seqs) \in Nat /\ Len(seqs) # 0 /\ Len(seqs) \in 0..Len(seqs)
  OBVIOUS
<1>2. PICK f \in [1..Len(seqs) -> Seq(S)] : Concatenations(f, seqs, Len(seqs))
  <2>1. \A n \in 0..Len(seqs) :
           \E f \in [1..n -> Seq(S)] : Concatenations(f, seqs, n)
    BY ConcatenationsExist, Zenon
  <2> QED
    BY <1>1, <2>1, Zenon
<1> DEFINE P(g) == g = [i \in 1..Len(seqs) |->
                          IF i = 1 THEN seqs[i] ELSE g[i - 1] \o seqs[i]]
<1>3. P(f)
  BY <1>2 DEF Concatenations
<1>4. P(CHOOSE g : P(g))
  BY <1>3, Zenon
<1>5. FlattenSeq(seqs) = (CHOOSE g : P(g))[Len(seqs)]
  BY <1>1, Zenon DEF FlattenSeq
<1> HIDE DEF P
<1>6. PICK g : P(g) /\ FlattenSeq(seqs) = g[Len(seqs)]
  BY <1>4, <1>5
<1>7. Concatenations(g, seqs, Len(seqs))
  BY <1>6 DEF Concatenations, P
<1>8. \A i \in 1..Len(seqs) : f[i] = g[i]
  BY <1>1, <1>2, <1>7, ConcatenationsUnique DEF Agree
<1>9. f[Len(seqs)] = FlattenSeq(seqs)
  BY <1>1, <1>6, <1>8
<1> QED
  BY <1>2, <1>9

\* The concatenation of nothing, and of one sequence more.
LEMMA FlattenEmpty == FlattenSeq(<<>>) = <<>>
BY DEF FlattenSeq

LEMMA AppendOne ==
  ASSUME NEW S, NEW s \in Seq(S), NEW e \in S
  PROVE  /\ Append(s, e) \in Seq(S) /\ Append(s, e) # <<>>
         /\ Len(s) \in Nat /\ Len(Append(s, e)) = Len(s) + 1
         /\ Append(s, e)[Len(s) + 1] = e
         /\ \A i \in 1..Len(s) : Append(s, e)[i] = s[i]
  OBVIOUS

LEMMA FlattenAppend ==
  ASSUME NEW S, NEW seqs \in Seq(Seq(S)), NEW s \in Seq(S)
  PROVE  FlattenSeq(Append(seqs, s)) = FlattenSeq(seqs) \o s
<1>a. PICK more : more = Append(seqs, s)
  OBVIOUS
<1>b. PICK count \in Nat : count = Len(seqs)
  OBVIOUS
<1>1. /\ more \in Seq(Seq(S)) /\ more # <<>> /\ Len(more) = count + 1 /\ count \in Nat
      /\ more[count + 1] = s /\ \A i \in 1..count : more[i] = seqs[i]
  BY <1>a, <1>b, AppendOne
<1>2. PICK g \in [1..Len(more) -> Seq(S)] :
           Concatenations(g, more, Len(more)) /\ FlattenSeq(more) = g[Len(more)]
  BY <1>1, FlattenIsLast
<1>3. g[count + 1] = IF count + 1 = 1 THEN s ELSE g[(count + 1) - 1] \o s
  <2>1. Concatenations(g, more, count + 1) /\ count + 1 \in 1..(count + 1)
    BY <1>1, <1>2
  <2> QED
    BY <1>1, <2>1 DEF Concatenations
<1>4. CASE count = 0
  <2>1. seqs = <<>> /\ FlattenSeq(seqs) = <<>>
    BY <1>4, <1>b, FlattenEmpty
  <2> QED
    BY <1>1, <1>2, <1>3, <1>4, <1>a, <2>1
<1>5. CASE count # 0
  <2>1. PICK f \in [1..count -> Seq(S)] : Concatenations(f, seqs, count) /\ FlattenSeq(seqs) = f[count]
    <3>1. seqs # <<>>
      BY <1>5, <1>b
    <3> QED
      BY <3>1, <1>b, FlattenIsLast
  <2>2. \A i \in 1..count : f[i] = g[i]
    <3>1. count \in Nat /\ Agree(seqs, more, count)
      BY <1>1 DEF Agree
    <3>2. Concatenations(g, more, Len(more)) /\ count <= Len(more) /\ Len(more) \in Nat
      BY <1>1, <1>2
    <3>3. Concatenations(f, seqs, count)
      BY <2>1
    <3> QED
      BY <3>1, <3>2, <3>3, ConcatenationsUnique
  <2>3. g[count] = FlattenSeq(seqs) /\ (count + 1) - 1 = count /\ count + 1 # 1
    BY <1>1, <1>5, <2>1, <2>2
  <2>4. FlattenSeq(more) = FlattenSeq(seqs) \o s
    BY <1>1, <1>2, <1>3, <2>3
  <2> QED
    BY <2>4, <1>a
<1> QED
  BY <1>4, <1>5

\* It is a sequence of the same elements.
LEMMA FlattenTyped ==
  ASSUME NEW S, NEW seqs \in Seq(Seq(S))
  PROVE  FlattenSeq(seqs) \in Seq(S)
<1>1. CASE seqs = <<>>
  <2>1. <<>> \in Seq(S)
    OBVIOUS
  <2> QED
    BY <1>1, <2>1, FlattenEmpty
<1>2. CASE seqs # <<>>
  <2>1. PICK f \in [1..Len(seqs) -> Seq(S)] : FlattenSeq(seqs) = f[Len(seqs)]
    BY <1>2, FlattenIsLast
  <2>2. Len(seqs) \in 1..Len(seqs)
    BY <1>2
  <2> QED
    BY <2>1, <2>2
<1> QED
  BY <1>1, <1>2

\* The first n sequences are the first n - 1 and the n-th.
LEMMA FlattenStep ==
  ASSUME NEW S, NEW seqs \in Seq(Seq(S)), NEW n \in 1..Len(seqs)
  PROVE  /\ SubSeq(seqs, 1, n - 1) \in Seq(Seq(S))
         /\ SubSeq(seqs, 1, n) \in Seq(Seq(S))
         /\ FlattenSeq(SubSeq(seqs, 1, n)) = FlattenSeq(SubSeq(seqs, 1, n - 1)) \o seqs[n]
<1>1. SubSeq(seqs, 1, n - 1) \in Seq(Seq(S)) /\ SubSeq(seqs, 1, n) \in Seq(Seq(S))
  OBVIOUS
<1>2. seqs[n] \in Seq(S)
  OBVIOUS
<1>3. SubSeq(seqs, 1, n) = Append(SubSeq(seqs, 1, n - 1), seqs[n])
  OBVIOUS
<1> QED
  BY <1>1, <1>2, <1>3, FlattenAppend

-----------------------------------------------------------------------------
(* Prefixes *)

LEMMA AppendInner ==
  ASSUME NEW S, NEW s \in Seq(S), NEW t \in Seq(S), NEW e \in S
  PROVE  Append(s \o t, e) = s \o Append(t, e)
OBVIOUS

\* Concatenation under a name: the provers do not find instances of facts
\* about nested \o, but they do of facts about Cat.
Cat(r, s) == r \o s

LEMMA CatTyped ==
  ASSUME NEW S, NEW r \in Seq(S), NEW s \in Seq(S)
  PROVE  Cat(r, s) \in Seq(S)
BY DEF Cat

LEMMA AppendCat ==
  ASSUME NEW S, NEW r \in Seq(S), NEW s \in Seq(S), NEW e \in S
  PROVE  Append(Cat(r, s), e) = Cat(r, Append(s, e))
BY DEF Cat

LEMMA AppendToThird ==
  ASSUME NEW S, NEW r \in Seq(S), NEW s \in Seq(S), NEW t \in Seq(S), NEW e \in S
  PROVE  Append(Cat(r, Cat(s, t)), e) = Cat(r, Cat(s, Append(t, e)))
<1>1. PICK u \in Seq(S) : u = Cat(s, t)
  BY CatTyped
<1>2. Append(Cat(r, u), e) = Cat(r, Append(u, e))
  BY AppendCat
<1>3. Append(Cat(s, t), e) = Cat(s, Append(t, e))
  BY AppendCat
<1> QED
  BY <1>1, <1>2, <1>3

LEMMA SubSeqGrows ==
  ASSUME NEW S, NEW s \in Seq(S), NEW p \in 1..Len(s)
  PROVE  /\ s[p] \in S /\ SubSeq(s, 1, p - 1) \in Seq(S)
         /\ SubSeq(s, 1, p) = Append(SubSeq(s, 1, p - 1), s[p])
OBVIOUS

LEMMA PrefixTyped ==
  ASSUME NEW S, NEW s \in Seq(S), NEW t \in Seq(S), IsPrefix(s, t)
  PROVE  Len(s) \in 0..Len(t) /\ s = SubSeq(t, 1, Len(s))
BY DEF IsPrefix

LEMMA PrefixElements ==
  ASSUME NEW S, NEW s \in Seq(S), NEW t \in Seq(S), IsPrefix(s, t), NEW k \in DOMAIN s
  PROVE  k \in DOMAIN t /\ t[k] = s[k]
<1>1. PICK m \in Nat, n \in Nat : m = Len(s) /\ n = Len(t)
  OBVIOUS
<1>2. m <= n
  BY <1>1, PrefixTyped
<1>3. s = SubSeq(t, 1, m)
  BY <1>1, PrefixTyped
<1>4. k \in 1..m
  BY <1>1
<1>5. SubSeq(t, 1, m)[k] = t[k]
  BY <1>1, <1>2, <1>4
<1>6. k \in DOMAIN t
  BY <1>1, <1>2, <1>4
<1> QED
  BY <1>3, <1>5, <1>6

LEMMA PrefixOfConcat ==
  ASSUME NEW S, NEW s \in Seq(S), NEW t \in Seq(S)
  PROVE  IsPrefix(s, s \o t)
BY DEF IsPrefix

LEMMA PrefixTransitive ==
  ASSUME NEW S, NEW s \in Seq(S), NEW t \in Seq(S), NEW u \in Seq(S),
         IsPrefix(s, t), IsPrefix(t, u)
  PROVE  IsPrefix(s, u)
BY DEF IsPrefix

LEMMA PrefixAfter ==
  ASSUME NEW S, NEW s \in Seq(S), NEW t \in Seq(S), NEW u \in Seq(S), IsPrefix(t, u)
  PROVE  IsPrefix(s \o t, s \o u)
BY DEF IsPrefix

LEMMA PrefixSubSeq ==
  ASSUME NEW S, NEW s \in Seq(S), NEW k \in 0..Len(s)
  PROVE  SubSeq(s, 1, k) \in Seq(S) /\ IsPrefix(SubSeq(s, 1, k), s)
BY DEF IsPrefix

\* The concatenation of the first sequences begins that of all of them.
LEMMA FlattenPrefix ==
  ASSUME NEW S, NEW seqs \in Seq(Seq(S)), NEW n \in 0..Len(seqs)
  PROVE  /\ FlattenSeq(SubSeq(seqs, 1, n)) \in Seq(S)
         /\ IsPrefix(FlattenSeq(SubSeq(seqs, 1, n)), FlattenSeq(seqs))
<1> DEFINE F(m) == FlattenSeq(SubSeq(seqs, 1, m))
<1> DEFINE T == {m \in Nat : m \in n..Len(seqs) => IsPrefix(F(n), F(m))}
<1>1. \A m \in 0..Len(seqs) : F(m) \in Seq(S)
  <2> SUFFICES ASSUME NEW m \in 0..Len(seqs) PROVE F(m) \in Seq(S)
    OBVIOUS
  <2>1. SubSeq(seqs, 1, m) \in Seq(Seq(S))
    OBVIOUS
  <2> QED
    BY <2>1, FlattenTyped
<1>2. \A m \in 1..Len(seqs) : F(m) = F(m - 1) \o seqs[m]
  BY FlattenStep
<1>3. F(Len(seqs)) = FlattenSeq(seqs)
  <2>1. SubSeq(seqs, 1, Len(seqs)) = seqs
    OBVIOUS
  <2> QED
    BY <2>1
<1>4. Len(seqs) \in Nat /\ \A m \in 1..Len(seqs) : seqs[m] \in Seq(S)
  OBVIOUS
<1> HIDE DEF F
<1>5. IsPrefix(F(n), F(n))
  BY <1>1, <1>4 DEF IsPrefix
<1>6. 0 \in T
  BY <1>5
<1>7. ASSUME NEW m \in Nat, m \in T
      PROVE  m + 1 \in T
  <2>1. SUFFICES ASSUME m + 1 \in n..Len(seqs), n # m + 1
                 PROVE  IsPrefix(F(n), F(m + 1))
    BY <1>5
  <2>2. m \in n..Len(seqs) /\ m + 1 \in 1..Len(seqs) /\ (m + 1) - 1 = m
    BY <1>4, <2>1
  <2>3. IsPrefix(F(n), F(m))
    BY <1>7, <2>2
  <2>4. F(m + 1) = F(m) \o seqs[m + 1]
    BY <1>2, <2>2
  <2>5. F(n) \in Seq(S) /\ F(m) \in Seq(S) /\ seqs[m + 1] \in Seq(S)
    BY <1>1, <1>4, <2>2
  <2>6. IsPrefix(F(m), F(m + 1)) /\ F(m + 1) \in Seq(S)
    <3>1. PICK t \in Seq(S) : t = seqs[m + 1]
      BY <2>5
    <3>2. PICK s \in Seq(S) : s = F(m)
      BY <2>5
    <3>3. IsPrefix(s, s \o t) /\ s \o t \in Seq(S)
      BY PrefixOfConcat
    <3> QED
      BY <2>4, <3>1, <3>2, <3>3
  <2> QED
    BY <2>3, <2>5, <2>6, PrefixTransitive
<1>8. Nat \subseteq T
  BY <1>6, <1>7, AllNumbers
<1>9. IsPrefix(F(n), F(Len(seqs))) /\ F(n) \in Seq(S)
  BY <1>1, <1>4, <1>8
<1> QED
  BY <1>3, <1>9 DEF F

-----------------------------------------------------------------------------
(* Elements: e is in s when it is s[j] for some j *)

In(e, s) == \E j \in 1..Len(s) : s[j] = e

LEMMA InConcat ==
  ASSUME NEW S, NEW s \in Seq(S), NEW t \in Seq(S), NEW e
  PROVE  In(e, s \o t) <=> In(e, s) \/ In(e, t)
<1>1. ASSUME In(e, s) PROVE In(e, s \o t)
  <2>1. PICK j \in 1..Len(s) : s[j] = e
    BY <1>1 DEF In
  <2>2. j \in 1..Len(s \o t) /\ (s \o t)[j] = e
    BY <2>1
  <2> QED
    BY <2>2 DEF In
<1>2. ASSUME In(e, t) PROVE In(e, s \o t)
  <2>1. PICK j \in 1..Len(t) : t[j] = e
    BY <1>2 DEF In
  <2>2. Len(s) + j \in 1..Len(s \o t) /\ (s \o t)[Len(s) + j] = e
    BY <2>1
  <2> QED
    BY <2>2 DEF In
<1>3. ASSUME In(e, s \o t), ~In(e, s) PROVE In(e, t)
  <2>1. PICK j \in 1..Len(s \o t) : (s \o t)[j] = e
    BY <1>3 DEF In
  <2>2. ~(j \in 1..Len(s))
    BY <1>3, <2>1 DEF In
  <2>3. j - Len(s) \in 1..Len(t) /\ t[j - Len(s)] = e
    BY <2>1, <2>2
  <2> QED
    BY <2>3 DEF In
<1> QED
  BY <1>1, <1>2, <1>3

LEMMA InHeadTail ==
  ASSUME NEW S, NEW s \in Seq(S), s # <<>>, NEW e
  PROVE  /\ Head(s) \in S /\ Tail(s) \in Seq(S)
         /\ In(e, s) <=> e = Head(s) \/ In(e, Tail(s))
<1>1. Head(s) \in S /\ Tail(s) \in Seq(S) /\ Len(s) \in Nat \ {0}
  OBVIOUS
<1>2. ASSUME In(e, s), e # Head(s) PROVE In(e, Tail(s))
  <2>1. PICK j \in 1..Len(s) : s[j] = e
    BY <1>2 DEF In
  <2>2. j # 1
    BY <1>2, <2>1
  <2>3. j - 1 \in 1..Len(Tail(s)) /\ Tail(s)[j - 1] = e
    BY <2>1, <2>2
  <2> QED
    BY <2>3 DEF In
<1>3. ASSUME In(e, Tail(s)) PROVE In(e, s)
  <2>1. PICK j \in 1..Len(Tail(s)) : Tail(s)[j] = e
    BY <1>3 DEF In
  <2>2. j + 1 \in 1..Len(s) /\ s[j + 1] = e
    BY <2>1
  <2> QED
    BY <2>2 DEF In
<1>4. In(Head(s), s)
  <2>1. 1 \in 1..Len(s) /\ s[1] = Head(s)
    OBVIOUS
  <2> QED
    BY <2>1 DEF In
<1> QED
  BY <1>1, <1>2, <1>3, <1>4

\* The elements of the concatenation are those of the sequences.
LEMMA InFlatten ==
  ASSUME NEW S, NEW seqs \in Seq(Seq(S)), NEW e
  PROVE  In(e, FlattenSeq(seqs)) <=> \E n \in 1..Len(seqs) : In(e, seqs[n])
<1> DEFINE F(m) == FlattenSeq(SubSeq(seqs, 1, m))
<1> DEFINE T == {m \in Nat : m \in 0..Len(seqs) =>
                    (In(e, F(m)) <=> \E n \in 1..m : In(e, seqs[n]))}
<1>1. \A m \in 0..Len(seqs) : F(m) \in Seq(S)
  BY FlattenPrefix
<1>2. \A m \in 1..Len(seqs) : F(m) = F(m - 1) \o seqs[m]
  BY FlattenStep
<1>3. F(Len(seqs)) = FlattenSeq(seqs)
  <2>1. SubSeq(seqs, 1, Len(seqs)) = seqs
    OBVIOUS
  <2> QED
    BY <2>1
<1>4. F(0) = <<>>
  <2>1. SubSeq(seqs, 1, 0) = <<>>
    OBVIOUS
  <2> QED
    BY <2>1, FlattenEmpty
<1>5. Len(seqs) \in Nat /\ \A m \in 1..Len(seqs) : seqs[m] \in Seq(S)
  OBVIOUS
<1> HIDE DEF F
<1>6. 0 \in T
  BY <1>4 DEF In
<1>7. ASSUME NEW m \in Nat, m \in T
      PROVE  m + 1 \in T
  <2>1. SUFFICES ASSUME m + 1 \in 0..Len(seqs)
                 PROVE  In(e, F(m + 1)) <=> \E n \in 1..(m + 1) : In(e, seqs[n])
    OBVIOUS
  <2>2. m \in 0..Len(seqs) /\ m + 1 \in 1..Len(seqs) /\ (m + 1) - 1 = m
    BY <1>5, <2>1
  <2>3. In(e, F(m)) <=> \E n \in 1..m : In(e, seqs[n])
    BY <1>7, <2>2
  <2>4. F(m + 1) = F(m) \o seqs[m + 1]
    BY <1>2, <2>2
  <2>5. PICK s \in Seq(S) : s = F(m)
    BY <1>1, <2>2
  <2>6. PICK t \in Seq(S) : t = seqs[m + 1]
    BY <1>5, <2>2
  <2>7. In(e, s \o t) <=> In(e, s) \/ In(e, t)
    BY InConcat
  <2>8. In(e, F(m + 1)) <=> In(e, F(m)) \/ In(e, seqs[m + 1])
    BY <2>4, <2>5, <2>6, <2>7
  <2>9. \A n \in Nat : n \in 1..(m + 1) <=> n \in 1..m \/ n = m + 1
    OBVIOUS
  <2> QED
    BY <2>3, <2>8, <2>9
<1>8. Nat \subseteq T
  BY <1>6, <1>7, AllNumbers
<1>9. In(e, F(Len(seqs))) <=> \E n \in 1..Len(seqs) : In(e, seqs[n])
  BY <1>5, <1>8
<1> QED
  BY <1>3, <1>9

-----------------------------------------------------------------------------
(* Positions *)

\* The n-th sequence, unchanged, begins after some place d of the concatenation.
BlockAt(seqs, n, d) ==
  /\ d \in Nat /\ d + Len(seqs[n]) <= Len(FlattenSeq(seqs))
  /\ \A m \in 1..Len(seqs[n]) : FlattenSeq(seqs)[d + m] = seqs[n][m]

LEMMA ConcatAt ==
  ASSUME NEW S, NEW s \in Seq(S), NEW t \in Seq(S)
  PROVE  /\ s \o t \in Seq(S) /\ Len(s \o t) = Len(s) + Len(t)
         /\ Len(s) \in Nat /\ Len(t) \in Nat
         /\ \A m \in 1..Len(s) : (s \o t)[m] = s[m]
         /\ \A m \in 1..Len(t) : (s \o t)[Len(s) + m] = t[m]
OBVIOUS

LEMMA FlattenBlock ==
  ASSUME NEW S, NEW seqs \in Seq(Seq(S)), NEW n \in 1..Len(seqs)
  PROVE  BlockAt(seqs, n, Len(FlattenSeq(SubSeq(seqs, 1, n - 1))))
<1> DEFINE F(m) == FlattenSeq(SubSeq(seqs, 1, m))
<1>1. Len(seqs) \in Nat /\ seqs[n] \in Seq(S) /\ n \in 0..Len(seqs) /\ n - 1 \in 0..Len(seqs)
  OBVIOUS
<1>2. F(n - 1) \in Seq(S) /\ F(n) \in Seq(S) /\ IsPrefix(F(n), FlattenSeq(seqs))
  BY <1>1, FlattenPrefix
<1>3. F(n) = F(n - 1) \o seqs[n]
  BY FlattenStep
<1>4. FlattenSeq(seqs) \in Seq(S)
  BY FlattenTyped
<1> HIDE DEF F
<1>a. PICK s \in Seq(S) : s = F(n - 1)
  BY <1>2
<1>b. PICK t \in Seq(S) : t = seqs[n]
  BY <1>1
<1>c. PICK f \in Seq(S) : f = FlattenSeq(seqs)
  BY <1>4
<1>5. IsPrefix(s \o t, f)
  BY <1>2, <1>3, <1>a, <1>b, <1>c
<1>6. Len(s \o t) <= Len(f) /\ \A m \in 1..Len(s \o t) : f[m] = (s \o t)[m]
  <2>1. Len(s \o t) \in 0..Len(f) /\ s \o t = SubSeq(f, 1, Len(s \o t))
    BY <1>5, ConcatAt, PrefixTyped
  <2>2. PICK u \in Seq(S) : u = s \o t
    BY ConcatAt
  <2>3. Len(u) \in 0..Len(f) /\ u = SubSeq(f, 1, Len(u))
    BY <2>1, <2>2
  <2>4. \A m \in 1..Len(u) : f[m] = u[m]
    BY <2>3
  <2> QED
    BY <2>2, <2>3, <2>4
<1>7. /\ Len(s) \in Nat /\ Len(t) \in Nat /\ Len(s \o t) = Len(s) + Len(t)
      /\ \A m \in 1..Len(t) : (s \o t)[Len(s) + m] = t[m]
  BY ConcatAt
<1>8. \A m \in 1..Len(t) : f[Len(s) + m] = t[m]
  BY <1>6, <1>7
<1>9. BlockAt(seqs, n, Len(F(n - 1)))
  BY <1>6, <1>7, <1>8, <1>a, <1>b, <1>c DEF BlockAt
<1> QED
  BY <1>9 DEF F

\* Every element of the concatenation lies in one of the sequences.
LEMMA FlattenWhere ==
  ASSUME NEW S, NEW seqs \in Seq(Seq(S)), NEW j \in 1..Len(FlattenSeq(seqs))
  PROVE  \E n \in 1..Len(seqs) : \E d \in Nat :
            BlockAt(seqs, n, d) /\ j - d \in 1..Len(seqs[n])
<1> DEFINE F(m) == FlattenSeq(SubSeq(seqs, 1, m))
<1> DEFINE W(n) == j - Len(F(n - 1)) \in 1..Len(seqs[n])
<1> DEFINE T == {m \in Nat : m \in 0..Len(seqs) /\ j <= Len(F(m)) => \E n \in 1..m : W(n)}
<1>1. Len(seqs) \in Nat /\ (\A m \in 1..Len(seqs) : seqs[m] \in Seq(S)) /\ j \in Nat \ {0}
  OBVIOUS
<1>w. \A m \in 1..Len(seqs) : j - Len(F(m - 1)) \in 1..Len(seqs[m]) => W(m)
  OBVIOUS
<1>2. \A m \in 0..Len(seqs) : F(m) \in Seq(S) /\ Len(F(m)) \in Nat
  BY FlattenPrefix
<1>3. \A m \in 1..Len(seqs) : F(m) = F(m - 1) \o seqs[m]
  BY FlattenStep
<1>4. F(Len(seqs)) = FlattenSeq(seqs)
  <2>1. SubSeq(seqs, 1, Len(seqs)) = seqs
    OBVIOUS
  <2> QED
    BY <2>1
<1>5. F(0) = <<>>
  <2>1. SubSeq(seqs, 1, 0) = <<>>
    OBVIOUS
  <2> QED
    BY <2>1, FlattenEmpty
<1>6. j <= Len(FlattenSeq(seqs))
  <2>1. Len(FlattenSeq(seqs)) \in Nat
    BY FlattenTyped
  <2> QED
    BY <2>1
<1> HIDE DEF F, W
<1>7. 0 \in T
  BY <1>1, <1>5
<1>8. ASSUME NEW m \in Nat, m \in T
      PROVE  m + 1 \in T
  <2>1. SUFFICES ASSUME m + 1 \in 0..Len(seqs), j <= Len(F(m + 1))
                 PROVE  \E n \in 1..(m + 1) : W(n)
    OBVIOUS
  <2>2. m \in 0..Len(seqs) /\ m + 1 \in 1..Len(seqs) /\ (m + 1) - 1 = m
    BY <1>1, <2>1
  <2>3. CASE j <= Len(F(m))
    <3>1. PICK n \in 1..m : W(n)
      BY <1>8, <2>2, <2>3
    <3> QED
      BY <3>1
  <2>4. CASE ~(j <= Len(F(m)))
    <3>1. Len(F(m + 1)) = Len(F(m)) + Len(seqs[m + 1]) /\ Len(seqs[m + 1]) \in Nat
      <4>1. PICK s \in Seq(S) : s = F(m)
        BY <1>2, <2>2
      <4>2. PICK t \in Seq(S) : t = seqs[m + 1]
        BY <1>1, <2>2
      <4>3. Len(s \o t) = Len(s) + Len(t) /\ Len(t) \in Nat
        BY ConcatAt
      <4> QED
        BY <1>3, <2>2, <4>1, <4>2, <4>3
    <3>2. Len(F(m)) \in Nat
      BY <1>2, <2>2
    <3>3. j - Len(F(m)) \in 1..Len(seqs[m + 1])
      BY <1>1, <2>1, <2>4, <3>1, <3>2
    <3>4. W(m + 1)
      BY <1>w, <2>2, <3>3
    <3> QED
      BY <3>4
  <2> QED
    BY <2>3, <2>4
<1>9. Nat \subseteq T
  BY <1>7, <1>8, AllNumbers
<1>10. PICK n \in 1..Len(seqs) : W(n)
  BY <1>1, <1>4, <1>6, <1>9
<1>11. BlockAt(seqs, n, Len(F(n - 1)))
  BY FlattenBlock DEF F
<1> QED
  BY <1>10, <1>11 DEF BlockAt, W

\* Two parts.
LEMMA AppendTwo ==
  ASSUME NEW T, NEW a \in T, NEW b \in T
  PROVE  \E two \in Seq(T) : Len(two) = 2 /\ two[1] = a /\ two[2] = b
<1>1. /\ Append(Append(<<>>, a), b) \in Seq(T)
      /\ Len(Append(Append(<<>>, a), b)) = 2
      /\ Append(Append(<<>>, a), b)[1] = a /\ Append(Append(<<>>, a), b)[2] = b
  OBVIOUS
<1> QED
  BY <1>1

LEMMA FlattenTwo ==
  ASSUME NEW S, NEW two \in Seq(Seq(S)), Len(two) = 2
  PROVE  two[1] \in Seq(S) /\ two[2] \in Seq(S) /\ FlattenSeq(two) = two[1] \o two[2]
<1>1. /\ two[1] \in Seq(S) /\ two[2] \in Seq(S) /\ 1 \in 1..Len(two) /\ 2 \in 1..Len(two)
      /\ 1 - 1 = 0 /\ 2 - 1 = 1
  OBVIOUS
<1>2. SubSeq(two, 1, 2) = two
  OBVIOUS
<1>3. SubSeq(two, 1, 0) = <<>>
  OBVIOUS
<1>4. FlattenSeq(SubSeq(two, 1, 1)) = FlattenSeq(SubSeq(two, 1, 1 - 1)) \o two[1]
  BY <1>1, FlattenStep, Zenon
<1>5. FlattenSeq(SubSeq(two, 1, 2)) = FlattenSeq(SubSeq(two, 1, 2 - 1)) \o two[2]
  BY <1>1, FlattenStep, Zenon
<1>6. FlattenSeq(SubSeq(two, 1, 1)) = <<>> \o two[1]
  BY <1>1, <1>3, <1>4, FlattenEmpty, Zenon
<1>7. <<>> \o two[1] = two[1]
  BY <1>1
<1> QED
  BY <1>1, <1>2, <1>5, <1>6, <1>7, Zenon
=============================================================================
