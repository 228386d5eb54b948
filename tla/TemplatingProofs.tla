--------------------------- MODULE TemplatingProofs ---------------------------
(***************************************************************************)
(* Theorems about Templating, for every environment and template: Format   *)
(* gives the text that substitution leaves as it is, and that is what the  *)
(* template means, told from inside. The way there: replacing the tokens   *)
(* of a text is a product of sets of texts, so replacing in a replaced     *)
(* text is replacing once by the replaced values.                          *)
(***************************************************************************)
EXTENDS Templating, WellFoundedInduction, TLAPS

-----------------------------------------------------------------------------
(* Numbers.                                                                *)

\* Numbers have a least element, and what holds of 0 and of each next number holds
\* of all: induction over a set, without a predicate as a parameter.
LEMMA NatMin ==
  ASSUME NEW T \in SUBSET Nat, T # {}
  PROVE  \E m \in T : \A k \in T : m <= k
<1> DEFINE R == {p \in Nat \X Nat : p[1] < p[2]}
<1>1. IsWellFoundedOn(R, Nat)
  <2>1. IsWellFoundedOn(OpToRel(<, Nat), Nat)
    BY NatLessThanWellFounded
  <2>2. R \cap (Nat \X Nat) \subseteq OpToRel(<, Nat)
    BY DEF OpToRel
  <2> HIDE DEF R
  <2> QED BY <2>1, <2>2, IsWellFoundedOnSubrelation
<1>2. PICK m \in T : \A k \in T : ~ (<<k, m>> \in R)
  <2> HIDE DEF R
  <2> QED BY <1>1, WFMin
<1>3. \A k \in T : ~(k < m)
  BY <1>2
<1>4. \A k \in T : k \in Nat /\ m \in Nat
  OBVIOUS
<1> QED BY <1>3, <1>4

LEMMA Induction ==
  ASSUME NEW S, 0 \in S, \A n \in Nat : n \in S => n + 1 \in S
  PROVE  Nat \subseteq S
<1> SUFFICES ASSUME Nat \ S # {} PROVE FALSE
  OBVIOUS
<1>1. PICK m \in Nat \ S : \A k \in Nat \ S : m <= k
  BY NatMin
<1>2. m # 0 /\ m - 1 \in Nat /\ ~(m <= m - 1)
  BY <1>1
<1>3. m - 1 \in S
  BY <1>1, <1>2
<1> QED BY <1>1, <1>2, <1>3

-----------------------------------------------------------------------------
(* Texts one after the other.                                              *)

\* Whatever may be missing.
AtMostOne(texts) == texts = {} \/ \E t : texts = {t}

LEMMA SplitLast ==
  ASSUME NEW A, NEW t \in Seq(A), NEW n \in Nat, Len(t) = n + 1
  PROVE  \E s \in Seq(A), x \in A : t = Append(s, x) /\ Len(s) = n
<1> DEFINE s == [i \in 1..n |-> t[i]]
<1>1. DOMAIN t = 1..(n + 1) /\ \A i \in 1..(n + 1) : t[i] \in A
  OBVIOUS
<1>2. s \in Seq(A) /\ Len(s) = n /\ t[n + 1] \in A
  <2>1. s \in [1..n -> A]
    BY <1>1
  <2>2. t[n + 1] \in A
    BY <1>1
  <2> HIDE DEF s
  <2> QED BY <2>1, <2>2
<1>3. \A i \in 1..n : s[i] = t[i]
  OBVIOUS
<1> HIDE DEF s
<1>4. Append(s, t[n + 1]) \in Seq(A) /\ Len(Append(s, t[n + 1])) = n + 1
  BY <1>2
<1>5. \A i \in 1..(n + 1) : Append(s, t[n + 1])[i] = t[i]
  <2> TAKE i \in 1..(n + 1)
  <2>1. CASE i \in 1..n
    BY <1>2, <1>3, <2>1
  <2>2. CASE i = n + 1
    BY <1>2, <2>2
  <2>3. i \in 1..n \/ i = n + 1
    OBVIOUS
  <2> QED BY <2>1, <2>2, <2>3
<1>6. t = Append(s, t[n + 1])
  BY <1>4, <1>5
<1> QED BY <1>2, <1>6

\* The texts up to each place, one after the other.
Flattened(seqs, f, m) ==
  f = [i \in 1..m |-> IF i = 1 THEN seqs[i] ELSE f[i - 1] \o seqs[i]]

LEMMA FlattenIs ==
  ASSUME NEW seqs, Len(seqs) # 0
  PROVE  FlattenSeq(seqs) = (CHOOSE f : Flattened(seqs, f, Len(seqs)))[Len(seqs)]
BY DEF FlattenSeq, Flattened

LEMMA FlattenedExists ==
  ASSUME NEW A, NEW seqs \in Seq(Seq(A)), NEW m \in Nat
  PROVE  m <= Len(seqs) => \E f : Flattened(seqs, f, m) /\ f \in [1..m -> Seq(A)]
<1> DEFINE S == {k \in Nat : k <= Len(seqs) => \E f : Flattened(seqs, f, k) /\ f \in [1..k -> Seq(A)]}
<1>1. 0 \in S
  <2>1. Flattened(seqs, [i \in 1..0 |-> <<>>], 0) /\ [i \in 1..0 |-> <<>>] \in [1..0 -> Seq(A)]
    BY DEF Flattened
  <2> QED BY <2>1
<1>2. ASSUME NEW k \in Nat, k \in S PROVE k + 1 \in S
  <2> SUFFICES ASSUME k + 1 <= Len(seqs)
               PROVE  \E g : Flattened(seqs, g, k + 1) /\ g \in [1..(k + 1) -> Seq(A)]
    OBVIOUS
  <2>1. PICK f : Flattened(seqs, f, k) /\ f \in [1..k -> Seq(A)]
    <3>1. k <= Len(seqs)
      OBVIOUS
    <3> QED BY <1>2, <3>1
  <2> HIDE DEF S
  <2>2. seqs[k + 1] \in Seq(A)
    <3>1. k + 1 \in 1..Len(seqs)
      OBVIOUS
    <3> QED BY <3>1
  <2> DEFINE new == IF k + 1 = 1 THEN seqs[k + 1] ELSE f[k] \o seqs[k + 1]
             g == [i \in 1..(k + 1) |-> IF i = k + 1 THEN new ELSE f[i]]
  <2>3. new \in Seq(A)
    <3>1. k # 0 => f[k] \in Seq(A)
      BY <2>1
    <3> QED BY <2>2, <3>1
  <2> HIDE DEF new
  <2>4. g \in [1..(k + 1) -> Seq(A)]
    <3>1. \A i \in 1..(k + 1) : i # k + 1 => i \in 1..k /\ f[i] \in Seq(A)
      BY <2>1
    <3> QED BY <2>3, <3>1
  <2>5. ASSUME NEW i \in 1..(k + 1) PROVE g[i] = IF i = 1 THEN seqs[i] ELSE g[i - 1] \o seqs[i]
    <3>1. f = [j \in 1..k |-> IF j = 1 THEN seqs[j] ELSE f[j - 1] \o seqs[j]]
      BY <2>1 DEF Flattened
    <3>2. CASE i = k + 1
      <4>1. k # 0 => k \in 1..(k + 1) /\ k # k + 1 /\ g[k] = f[k]
        OBVIOUS
      <4>2. g[i] = new /\ i - 1 = k
        BY <3>2
      <4> HIDE DEF g
      <4> QED BY <3>2, <4>1, <4>2 DEF new
    <3>3. CASE i # k + 1
      <4>1. i \in 1..k /\ (i # 1 => i - 1 \in 1..(k + 1) /\ i - 1 # k + 1)
        BY <3>3
      <4>2. g[i] = f[i] /\ (i # 1 => g[i - 1] = f[i - 1])
        BY <3>3, <4>1
      <4> HIDE DEF g
      <4> QED BY <3>1, <4>1, <4>2
    <3> QED BY <3>2, <3>3
  <2>6. g = [i \in 1..(k + 1) |-> g[i]]
    OBVIOUS
  <2> HIDE DEF g
  <2>7. Flattened(seqs, g, k + 1)
    BY <2>5, <2>6 DEF Flattened
  <2> QED BY <2>4, <2>7
<1> HIDE DEF S
<1>3. m \in S
  BY <1>1, <1>2, Induction
<1> QED BY <1>3 DEF S

\* There is one function that goes through the texts, and the last place does not
\* change what is before it.
LEMMA FlattenedAgree ==
  ASSUME NEW seqs, NEW more, NEW n \in Nat, NEW m \in Nat, n <= m,
         \A i \in 1..n : more[i] = seqs[i],
         NEW f, Flattened(seqs, f, n), NEW g, Flattened(more, g, m), NEW i \in 1..n
  PROVE  f[i] = g[i]
<1> DEFINE S == {k \in Nat : k + 1 <= n => f[k + 1] = g[k + 1]}
<1>0. /\ \A k \in 1..n : f[k] = IF k = 1 THEN seqs[k] ELSE f[k - 1] \o seqs[k]
      /\ \A k \in 1..m : g[k] = IF k = 1 THEN more[k] ELSE g[k - 1] \o more[k]
  <2>1. f = [k \in 1..n |-> IF k = 1 THEN seqs[k] ELSE f[k - 1] \o seqs[k]]
    BY DEF Flattened
  <2>2. g = [k \in 1..m |-> IF k = 1 THEN more[k] ELSE g[k - 1] \o more[k]]
    BY DEF Flattened
  <2> QED BY <2>1, <2>2
<1>1. 0 \in S
  BY <1>0
<1>2. ASSUME NEW k \in Nat, k \in S PROVE k + 1 \in S
  <2> SUFFICES ASSUME (k + 1) + 1 <= n PROVE f[(k + 1) + 1] = g[(k + 1) + 1]
    OBVIOUS
  <2>1. f[k + 1] = g[k + 1]
    <3>1. k + 1 <= n
      OBVIOUS
    <3> QED BY <1>2, <3>1
  <2> HIDE DEF S
  <2>2. /\ (k + 1) + 1 \in 1..n /\ (k + 1) + 1 \in 1..m
        /\ (k + 1) + 1 # 1 /\ ((k + 1) + 1) - 1 = k + 1
    OBVIOUS
  <2>3. /\ f[(k + 1) + 1] = f[k + 1] \o seqs[(k + 1) + 1]
        /\ g[(k + 1) + 1] = g[k + 1] \o more[(k + 1) + 1]
    BY <1>0, <2>2
  <2> QED BY <2>1, <2>2, <2>3
<1> HIDE DEF S
<1>3. i - 1 \in S
  BY <1>1, <1>2, Induction
<1> QED BY <1>3 DEF S

LEMMA FlattenLast ==
  ASSUME NEW seqs, NEW n \in Nat \ {0}, Len(seqs) = n, NEW f, Flattened(seqs, f, n)
  PROVE  FlattenSeq(seqs) = f[n]
<1> DEFINE g == CHOOSE h : Flattened(seqs, h, n)
<1>1. FlattenSeq(seqs) = g[n]
  BY FlattenIs
<1>2. Flattened(seqs, g, n)
  OBVIOUS
<1> HIDE DEF g
<1>3. n \in Nat /\ n <= n /\ n \in 1..n /\ \A i \in 1..n : seqs[i] = seqs[i]
  OBVIOUS
<1>4. f[n] = g[n]
  BY <1>2, <1>3, FlattenedAgree
<1> QED BY <1>1, <1>4

Agree(seqs, more, n) == \A i \in 1..n : more[i] = seqs[i]

\* Concatenation as a name, without which lemmas are not found.
Then(s, t) == s \o t

LEMMA FlattenOneMore ==
  ASSUME NEW seqs, NEW more, NEW n \in Nat, n # 0, NEW m, m = n + 1,
         Agree(seqs, more, n),
         NEW f, Flattened(seqs, f, n), NEW g, Flattened(more, g, m)
  PROVE  g[m] = Then(f[n], more[m])
<1>1. m \in Nat /\ n <= m /\ n \in 1..n
  OBVIOUS
<1>2. f[n] = g[n]
  BY <1>1, FlattenedAgree DEF Agree
<1>3. g = [i \in 1..m |-> IF i = 1 THEN more[i] ELSE g[i - 1] \o more[i]]
  BY DEF Flattened
<1>4. m \in 1..m /\ m # 1 /\ m - 1 = n
  OBVIOUS
<1>5. g[m] = g[n] \o more[m]
  BY <1>3, <1>4
<1> QED BY <1>2, <1>5 DEF Then

LEMMA FlattenEmpty == FlattenSeq(<<>>) = <<>>
BY DEF FlattenSeq

\* What is flattened are the texts before and then the last one.
LEMMA FlattenAppend ==
  ASSUME NEW A, NEW seqs \in Seq(Seq(A)), NEW s \in Seq(A)
  PROVE  /\ FlattenSeq(seqs) \in Seq(A)
         /\ FlattenSeq(Append(seqs, s)) = Then(FlattenSeq(seqs), s)
<1>0. PICK n, m, more : n = Len(seqs) /\ more = Append(seqs, s) /\ m = n + 1
  OBVIOUS
<1>1. /\ n \in Nat /\ m \in Nat \ {0} /\ more \in Seq(Seq(A)) /\ Len(more) = m
      /\ more[m] = s /\ \A i \in 1..n : more[i] = seqs[i]
  BY <1>0
<1>2. PICK f : Flattened(seqs, f, n) /\ f \in [1..n -> Seq(A)]
  <2>1. n \in Nat /\ n <= Len(seqs)
    BY <1>0
  <2> QED BY <2>1, FlattenedExists
<1>3. PICK g : Flattened(more, g, m)
  <2>1. m \in Nat /\ m <= Len(more)
    BY <1>1
  <2> QED BY <1>1, <2>1, FlattenedExists
<1>4. FlattenSeq(more) = g[m]
  BY <1>1, <1>3, FlattenLast
<1>5. CASE n = 0
  <2>1. seqs = <<>>
    <3>1. Len(seqs) = 0
      BY <1>0, <1>5
    <3> QED BY <3>1
  <2>2. FlattenSeq(seqs) = <<>>
    BY <2>1, FlattenEmpty
  <2>3. m = 1
    BY <1>0, <1>5
  <2>4. g[m] = s
    <3>1. g = [i \in 1..m |-> IF i = 1 THEN more[i] ELSE g[i - 1] \o more[i]]
      BY <1>3 DEF Flattened
    <3>2. g[1] = more[1]
      BY <2>3, <3>1
    <3> QED BY <1>1, <2>3, <3>2
  <2>5. Then(<<>>, s) = s /\ <<>> \in Seq(A)
    BY DEF Then
  <2> QED BY <1>0, <1>4, <2>2, <2>4, <2>5
<1>6. CASE n # 0
  <2>1. n \in Nat \ {0} /\ Len(seqs) = n /\ n \in 1..n
    BY <1>0, <1>1, <1>6
  <2>2. FlattenSeq(seqs) = f[n]
    BY <1>2, <2>1, FlattenLast
  <2>3. g[m] = Then(f[n], more[m])
    <3>1. n \in Nat
      BY <1>1
    <3>2. m = n + 1
      BY <1>0
    <3>3. Agree(seqs, more, n)
      BY <1>1 DEF Agree
    <3>4. Flattened(seqs, f, n)
      BY <1>2
    <3>5. Flattened(more, g, m)
      BY <1>3
    <3> QED BY <3>1, <3>2, <3>3, <3>4, <3>5, <1>6, FlattenOneMore
  <2>4. f[n] \in Seq(A)
    BY <1>2, <2>1
  <2> QED BY <1>0, <1>1, <1>4, <2>2, <2>3, <2>4
<1> QED BY <1>1, <1>5, <1>6

LEMMA FlattenIsText ==
  ASSUME NEW A, NEW seqs \in Seq(Seq(A))
  PROVE  FlattenSeq(seqs) \in Seq(A)
<1>1. <<>> \in Seq(A)
  OBVIOUS
<1> QED BY <1>1, FlattenAppend

\* What holds of the empty text, and of a text with one more token, holds of all texts.
LEMMA TextInduction ==
  ASSUME NEW T, NEW S, <<>> \in S, \A t \in Seq(T), x \in T : t \in S => Append(t, x) \in S
  PROVE  \A t \in Seq(T) : t \in S
<1> DEFINE N == {n \in Nat : \A t \in Seq(T) : Len(t) = n => t \in S}
<1>1. 0 \in N
  <2>1. ASSUME NEW t \in Seq(T), Len(t) = 0 PROVE t = <<>>
    BY <2>1
  <2> QED BY <2>1
<1>2. ASSUME NEW n \in Nat, n \in N PROVE n + 1 \in N
  <2>1. ASSUME NEW t \in Seq(T), Len(t) = n + 1 PROVE t \in S
    <3>1. PICK s \in Seq(T), x \in T : t = Append(s, x) /\ Len(s) = n
      BY <2>1, SplitLast
    <3>2. s \in S
      BY <1>2, <3>1
    <3> HIDE DEF N
    <3> QED BY <3>1, <3>2
  <2> QED BY <2>1
<1> HIDE DEF N
<1>3. Nat \subseteq N
  BY <1>1, <1>2, Induction
<1>4. ASSUME NEW t \in Seq(T) PROVE t \in S
  <2>1. Len(t) \in N
    BY <1>3
  <2> QED BY <2>1 DEF N
<1> QED BY <1>4

\* One text and then another, for sets of texts.
Product(P, Q) == {Then(s, t) : s \in P, t \in Q}

LEMMA ThenIsText ==
  ASSUME NEW T, NEW s \in Seq(T), NEW t \in Seq(T)
  PROVE  Then(s, t) \in Seq(T)
BY DEF Then

LEMMA ThenAssociative ==
  ASSUME NEW T, NEW s \in Seq(T), NEW t \in Seq(T), NEW u \in Seq(T)
  PROVE  Then(Then(s, t), u) = Then(s, Then(t, u))
BY DEF Then

LEMMA ThenAppend ==
  ASSUME NEW T, NEW s \in Seq(T), NEW t \in Seq(T), NEW x \in T
  PROVE  /\ Then(s, Append(t, x)) = Append(Then(s, t), x)
         /\ Then(s, <<x>>) = Append(s, x)
         /\ Then(s, <<>>) = s
         /\ Then(<<>>, s) = s
BY DEF Then

LEMMA ProductAssociative ==
  ASSUME NEW T, NEW P \in SUBSET Seq(T), NEW Q \in SUBSET Seq(T), NEW R \in SUBSET Seq(T)
  PROVE  Product(Product(P, Q), R) = Product(P, Product(Q, R))
<1>1. \A s \in P, t \in Q, u \in R : Then(Then(s, t), u) = Then(s, Then(t, u))
  BY ThenAssociative
<1> QED BY <1>1 DEF Product

With(s, x) == Append(s, x)

LEMMA AppendIs ==
  ASSUME NEW A, NEW s \in Seq(A), NEW x \in A, NEW n, n = Len(s) + 1, NEW t \in [1..n -> A],
         t[n] = x, \A i \in 1..Len(s) : t[i] = s[i]
  PROVE  t = With(s, x)
<1>1. Append(s, x) \in Seq(A) /\ Len(Append(s, x)) = n
  OBVIOUS
<1>2. t \in Seq(A) /\ Len(t) = n
  OBVIOUS
<1>3. ASSUME NEW i \in 1..n PROVE Append(s, x)[i] = t[i]
  <2>1. CASE i \in 1..Len(s)
    BY <2>1
  <2>2. CASE i = n
    BY <2>2
  <2>3. i \in 1..Len(s) \/ i = n
    OBVIOUS
  <2> QED BY <2>1, <2>2, <2>3
<1> QED BY <1>1, <1>2, <1>3 DEF With

-----------------------------------------------------------------------------
(* Texts whose tokens are replaced.                                        *)

\* The text with each token replaced by its value.
Expanded(value, text) == Joined([i \in DOMAIN text |-> value[text[i]]])

LEMMA ExpandedIs ==
  ASSUME NEW T, NEW value, NEW text \in Seq(T)
  PROVE  Expanded(value, text) =
           IF \E i \in 1..Len(text) : value[text[i]] = {} THEN {}
           ELSE {FlattenSeq([i \in 1..Len(text) |-> CHOOSE t \in value[text[i]] : TRUE])}
<1> DEFINE values == [i \in DOMAIN text |-> value[text[i]]]
<1>1. DOMAIN text = 1..Len(text)
  OBVIOUS
<1>2. DOMAIN values = 1..Len(text) /\ \A i \in 1..Len(text) : values[i] = value[text[i]]
  BY <1>1
<1>3. Expanded(value, text) = Joined(values)
  BY DEF Expanded
<1> HIDE DEF values
<1>4. [i \in DOMAIN values |-> CHOOSE t \in values[i] : TRUE]
        = [i \in 1..Len(text) |-> CHOOSE t \in value[text[i]] : TRUE]
  BY <1>2
<1> QED BY <1>2, <1>3, <1>4 DEF Joined

LEMMA ExpandedAtMostOne ==
  ASSUME NEW value, NEW text
  PROVE  AtMostOne(Expanded(value, text))
BY DEF Expanded, Joined, AtMostOne

\* Texts of a set of tokens, at most one for each.
Values(T) == {value \in [T -> SUBSET Seq(T)] : \A x \in T : AtMostOne(value[x])}

LEMMA ExpandedEmpty ==
  ASSUME NEW value
  PROVE  Expanded(value, <<>>) = {<<>>}
<1>1. DOMAIN <<>> = {}
  OBVIOUS
<1>2. [i \in DOMAIN <<>> |-> value[<<>>[i]]] = <<>>
  BY <1>1
<1>3. Joined(<<>>) = {FlattenSeq(<<>>)}
  <2>1. [i \in DOMAIN <<>> |-> CHOOSE t \in <<>>[i] : TRUE] = <<>>
    BY <1>1
  <2> QED BY <1>1, <2>1 DEF Joined
<1> QED BY <1>2, <1>3, FlattenEmpty DEF Expanded

LEMMA ExpandedAppend ==
  ASSUME NEW T, NEW value \in Values(T), NEW text \in Seq(T), NEW x \in T
  PROVE  /\ Expanded(value, text) \in SUBSET Seq(T)
         /\ Expanded(value, Append(text, x)) = Product(Expanded(value, text), value[x])
<1> DEFINE part(t) == [i \in 1..Len(t) |-> CHOOSE s \in value[t[i]] : TRUE]
           none(t) == \E i \in 1..Len(t) : value[t[i]] = {}
           more == Append(text, x)
<1>1. \A t \in Seq(T) : Expanded(value, t) = IF none(t) THEN {} ELSE {FlattenSeq(part(t))}
  BY ExpandedIs
<1>2. /\ more \in Seq(T) /\ Len(more) = Len(text) + 1 /\ more[Len(text) + 1] = x
      /\ \A i \in 1..Len(text) : more[i] = text[i]
  OBVIOUS
<1>3. \A y \in T : AtMostOne(value[y]) /\ value[y] \in SUBSET Seq(T)
  BY DEF Values
<1>4. \A i \in 1..Len(text) : text[i] \in T
  OBVIOUS
<1>5. ~none(text) => part(text) \in Seq(Seq(T)) /\ Len(part(text)) = Len(text)
  <2> SUFFICES ASSUME ~none(text) PROVE part(text) \in Seq(Seq(T)) /\ Len(part(text)) = Len(text)
    OBVIOUS
  <2>1. \A i \in 1..Len(text) : (CHOOSE s \in value[text[i]] : TRUE) \in Seq(T)
    BY <1>3, <1>4
  <2>2. Len(text) \in Nat
    OBVIOUS
  <2>3. part(text) \in [1..Len(text) -> Seq(T)]
    BY <2>1
  <2> HIDE DEF part
  <2> QED BY <2>2, <2>3
<1>6. none(more) <=> none(text) \/ value[x] = {}
  <2> HIDE DEF more
  <2>1. 1..Len(more) = 1..Len(text) \union {Len(text) + 1}
    BY <1>2
  <2> QED BY <1>2, <2>1
<1>7. CASE none(more)
  <2>1. Expanded(value, text) = {} \/ value[x] = {}
    <3> HIDE DEF none, part
    <3> QED BY <1>1, <1>6, <1>7
  <2>2. Expanded(value, more) = {}
    <3> HIDE DEF none, part, more
    <3> QED BY <1>1, <1>2, <1>7
  <2>3. Product(Expanded(value, text), value[x]) = {}
    BY <2>1 DEF Product
  <2>4. Expanded(value, text) \in SUBSET Seq(T)
    <3>1. ~none(text) => FlattenSeq(part(text)) \in Seq(T)
      <4> HIDE DEF none, part
      <4> QED BY <1>5, FlattenIsText
    <3> HIDE DEF none, part
    <3> QED BY <1>1, <3>1
  <2> QED BY <2>2, <2>3, <2>4
<1>8. CASE ~none(more)
  <2>1. ~none(text) /\ value[x] # {}
    <3> HIDE DEF none, more
    <3> QED BY <1>6, <1>8
  <2>2. PICK s : value[x] = {s}
    BY <1>3, <2>1 DEF AtMostOne
  <2>3. s \in Seq(T)
    BY <1>3, <2>2
  <2>4. part(more) = Append(part(text), s)
    <3>1. (CHOOSE u \in value[x] : TRUE) = s
      BY <2>2
    <3>2. DOMAIN part(more) = 1..(Len(text) + 1)
      BY <1>2
    <3>3. \A i \in 1..Len(text) : part(more)[i] = part(text)[i]
      BY <1>2
    <3>4. part(more)[Len(text) + 1] = s
      BY <1>2, <3>1
    <3>5. part(more) = [i \in 1..(Len(text) + 1) |-> part(more)[i]]
      BY <1>2
    <3>6. part(text) \in Seq(Seq(T)) /\ Len(part(text)) = Len(text)
      <4> HIDE DEF none, part
      <4> QED BY <1>5, <2>1
    <3> DEFINE p == part(text)  q == part(more)
    <3> HIDE DEF part, more
    <3>7. PICK n : n = Len(p) + 1
      OBVIOUS
    <3>8. p \in Seq(Seq(T)) /\ Len(p) = Len(text) /\ \A i \in 1..Len(p) : q[i] = p[i] /\ p[i] \in Seq(T)
      BY <3>3, <3>6
    <3>9. q = [i \in 1..n |-> q[i]] /\ q[n] = s
      BY <3>4, <3>5, <3>7, <3>8
    <3>10. \A i \in 1..n : q[i] \in Seq(T)
      <4> HIDE DEF p, q
      <4>1. \A i \in 1..n : i \in 1..Len(p) \/ i = n
        BY <3>7, <3>8
      <4> QED BY <2>3, <3>8, <3>9, <4>1
    <3> HIDE DEF p, q
    <3>11. q \in [1..n -> Seq(T)]
      BY <3>9, <3>10
    <3>12. q = With(p, s)
      <4>1. PICK A : A = Seq(T)
        OBVIOUS
      <4>2. p \in Seq(A) /\ s \in A /\ q \in [1..n -> A]
        BY <2>3, <3>8, <3>11, <4>1
      <4>3. n = Len(p) + 1 /\ q[n] = s /\ \A i \in 1..Len(p) : q[i] = p[i]
        BY <3>7, <3>8, <3>9
      <4> QED BY <4>2, <4>3, AppendIs
    <3> QED BY <3>12 DEF p, q, With
  <2>5. /\ FlattenSeq(part(text)) \in Seq(T)
        /\ FlattenSeq(Append(part(text), s)) = Then(FlattenSeq(part(text)), s)
    <3>1. part(text) \in Seq(Seq(T))
      <4> HIDE DEF none, part
      <4> QED BY <1>5, <2>1
    <3> HIDE DEF part
    <3> QED BY <2>3, <3>1, FlattenAppend
  <2>6. Expanded(value, text) = {FlattenSeq(part(text))}
    <3> HIDE DEF none, part
    <3> QED BY <1>1, <2>1
  <2>7. Expanded(value, more) = {Then(FlattenSeq(part(text)), s)}
    <3> HIDE DEF none, part, more
    <3> QED BY <1>1, <1>2, <1>8, <2>4, <2>5
  <2> HIDE DEF none, part
  <2> QED BY <2>2, <2>5, <2>6, <2>7 DEF Product
<1> HIDE DEF none, part
<1> QED BY <1>7, <1>8

LEMMA ExpandedIsTexts ==
  ASSUME NEW T, NEW value \in Values(T), NEW text \in Seq(T)
  PROVE  Expanded(value, text) \in SUBSET Seq(T)
<1>1. CASE T = {}
  <2>1. text = <<>>
    BY <1>1
  <2>2. Expanded(value, text) = {<<>>}
    BY <2>1, ExpandedEmpty
  <2> QED BY <2>2
<1>2. CASE T # {}
  BY <1>2, ExpandedAppend
<1> QED BY <1>1, <1>2

\* Tokens that stand for themselves.
LEMMA ExpandedSame ==
  ASSUME NEW T, NEW value \in Values(T), NEW text \in Seq(T),
         \A i \in 1..Len(text) : value[text[i]] = {<<text[i]>>}
  PROVE  Expanded(value, text) = {text}
<1> DEFINE S == {t \in Seq(T) : (\A i \in 1..Len(t) : value[t[i]] = {<<t[i]>>}) => Expanded(value, t) = {t}}
<1>1. <<>> \in S
  BY ExpandedEmpty
<1>2. ASSUME NEW t \in Seq(T), NEW x \in T, t \in S PROVE Append(t, x) \in S
  <2> DEFINE u == Append(t, x)
  <2>1. /\ u \in Seq(T) /\ Len(u) = Len(t) + 1 /\ u[Len(t) + 1] = x
        /\ \A i \in 1..Len(t) : u[i] = t[i]
    OBVIOUS
  <2>2. Expanded(value, u) = Product(Expanded(value, t), value[x])
    BY ExpandedAppend
  <2>3. Then(t, <<x>>) = u
    BY ThenAppend
  <2> HIDE DEF u
  <2>4. ASSUME \A i \in 1..Len(u) : value[u[i]] = {<<u[i]>>} PROVE Expanded(value, u) = {u}
    <3>1. \A i \in 1..Len(t) : i \in 1..Len(u)
      BY <2>1
    <3>2. Expanded(value, t) = {t}
      BY <1>2, <2>1, <2>4, <3>1
    <3>3. Len(t) + 1 \in 1..Len(u)
      BY <2>1
    <3>4. value[x] = {<<x>>}
      BY <2>1, <2>4, <3>3
    <3> QED BY <2>2, <2>3, <3>2, <3>4 DEF Product
  <2> QED BY <2>1, <2>4 DEF u
<1> HIDE DEF S
<1>3. text \in S
  BY <1>1, <1>2, TextInduction
<1> QED BY <1>3 DEF S

\* A text with a token that nothing stands for.
LEMMA ExpandedNone ==
  ASSUME NEW T, NEW value, NEW text \in Seq(T), NEW i \in 1..Len(text), value[text[i]] = {}
  PROVE  Expanded(value, text) = {}
BY ExpandedIs

\* Two texts one after the other.
LEMMA ExpandedThen ==
  ASSUME NEW T, NEW value \in Values(T), NEW text \in Seq(T), NEW more \in Seq(T)
  PROVE  Expanded(value, Then(text, more)) = Product(Expanded(value, text), Expanded(value, more))
<1> DEFINE Splits(t) == Expanded(value, Then(text, t)) = Product(Expanded(value, text), Expanded(value, t))
           S == {t \in Seq(T) : Splits(t)}
<1>0. \A t \in Seq(T) : Expanded(value, t) \in SUBSET Seq(T)
  BY ExpandedIsTexts
<1>1. <<>> \in S
  <2>1. Then(text, <<>>) = text
    BY ThenAppend, ThenIsText DEF Then
  <2>2. \A s \in Expanded(value, text) : Then(s, <<>>) = s
    BY <1>0 DEF Then
  <2>3. Product(Expanded(value, text), {<<>>}) = Expanded(value, text)
    BY <2>2 DEF Product
  <2>4. Splits(<<>>)
    BY <2>1, <2>3, ExpandedEmpty
  <2> QED BY <2>4
<1>2. ASSUME NEW t \in Seq(T), NEW x \in T, t \in S PROVE Append(t, x) \in S
  <2> DEFINE u == Append(t, x)
             both == Then(text, t)
  <2>1. both \in Seq(T)
    BY ThenIsText
  <2>2. Then(text, u) = Append(both, x)
    BY DEF Then
  <2>3. Expanded(value, u) = Product(Expanded(value, t), value[x])
    BY ExpandedAppend
  <2>4. Expanded(value, Append(both, x)) = Product(Expanded(value, both), value[x])
    <3> HIDE DEF both
    <3> QED BY <2>1, ExpandedAppend
  <2>5. Expanded(value, both) = Product(Expanded(value, text), Expanded(value, t))
    BY <1>2
  <2>6. value[x] \in SUBSET Seq(T)
    BY DEF Values
  <2>7. Product(Product(Expanded(value, text), Expanded(value, t)), value[x])
          = Product(Expanded(value, text), Product(Expanded(value, t), value[x]))
    BY <1>0, <2>6, ProductAssociative
  <2>8. u \in Seq(T)
    OBVIOUS
  <2> HIDE DEF u, both
  <2>9. Splits(u)
    BY <2>2, <2>3, <2>4, <2>5, <2>7
  <2> HIDE DEF Splits
  <2> QED BY <2>8, <2>9 DEF u
<1> HIDE DEF S
<1>3. more \in S
  BY <1>1, <1>2, TextInduction
<1> QED BY <1>3 DEF S

Unfolded(value, texts) == UNION {Expanded(value, t) : t \in texts}

\* Replacing twice is replacing once by what the values are replaced by.
LEMMA ExpandedTwice ==
  ASSUME NEW T, NEW value \in Values(T), NEW next \in Values(T), NEW both \in Values(T),
         \A x \in T : both[x] = Unfolded(next, value[x]),
         NEW text \in Seq(T)
  PROVE  Expanded(both, text) = Unfolded(next, Expanded(value, text))
<1> DEFINE After1(t) == UNION {Expanded(next, u) : u \in Expanded(value, t)}
           S == {t \in Seq(T) : Expanded(both, t) = After1(t)}
<1>1. <<>> \in S
  BY ExpandedEmpty
<1>2. ASSUME NEW t \in Seq(T), NEW x \in T, t \in S PROVE Append(t, x) \in S
  <2> DEFINE u == Append(t, x)
  <2>1. u \in Seq(T)
    OBVIOUS
  <2>2. /\ Expanded(value, u) = Product(Expanded(value, t), value[x])
        /\ Expanded(both, u) = Product(Expanded(both, t), both[x])
    BY ExpandedAppend
  <2> HIDE DEF u
  <2>3. Expanded(both, t) = After1(t)
    BY <1>2
  <2>4. Expanded(value, t) \in SUBSET Seq(T) /\ value[x] \in SUBSET Seq(T)
    BY ExpandedIsTexts DEF Values
  <2>5. \A s \in Expanded(value, t), v \in value[x] :
          Expanded(next, Then(s, v)) = Product(Expanded(next, s), Expanded(next, v))
    BY <2>4, ExpandedThen
  <2>6. both[x] = UNION {Expanded(next, v) : v \in value[x]}
    BY DEF Unfolded
  <2>7. \A e : e \in After1(u) <=>
          \E s \in Expanded(value, t), v \in value[x] : e \in Expanded(next, Then(s, v))
    BY <2>2 DEF Product
  <2>8. \A e : e \in After1(u) <=>
          \E s \in Expanded(value, t), v \in value[x] : e \in Product(Expanded(next, s), Expanded(next, v))
    <3> HIDE DEF After1
    <3> QED BY <2>5, <2>7
  <2>9. \A e : e \in Product(After1(t), both[x]) <=>
          \E s \in Expanded(value, t), v \in value[x] : e \in Product(Expanded(next, s), Expanded(next, v))
    <3>1. \A e, P, Q : e \in Product(P, Q) <=> \E a \in P, b \in Q : e = Then(a, b)
      BY DEF Product
    <3>2. \A a : a \in After1(t) <=> \E s \in Expanded(value, t) : a \in Expanded(next, s)
      OBVIOUS
    <3>3. \A b : b \in both[x] <=> \E v \in value[x] : b \in Expanded(next, v)
      BY <2>6
    <3> HIDE DEF After1
    <3>4. ASSUME NEW e, e \in Product(After1(t), both[x])
          PROVE  \E s \in Expanded(value, t), v \in value[x] : e \in Product(Expanded(next, s), Expanded(next, v))
      <4>1. PICK a \in After1(t), b \in both[x] : e = Then(a, b)
        BY <3>1, <3>4
      <4>2. PICK s \in Expanded(value, t) : a \in Expanded(next, s)
        BY <3>2
      <4>3. PICK v \in value[x] : b \in Expanded(next, v)
        BY <3>3
      <4>4. e \in Product(Expanded(next, s), Expanded(next, v))
        BY <3>1, <4>1, <4>2, <4>3
      <4> QED BY <4>4
    <3>5. ASSUME NEW e, NEW s \in Expanded(value, t), NEW v \in value[x],
                 e \in Product(Expanded(next, s), Expanded(next, v))
          PROVE  e \in Product(After1(t), both[x])
      <4>1. PICK a \in Expanded(next, s), b \in Expanded(next, v) : e = Then(a, b)
        BY <3>1, <3>5
      <4>2. a \in After1(t) /\ b \in both[x]
        BY <3>2, <3>3
      <4> QED BY <3>1, <4>1, <4>2
    <3> QED BY <3>4, <3>5
  <2>10. Expanded(both, u) = After1(u)
    <3> HIDE DEF After1
    <3>1. \A e : e \in After1(u) <=> e \in Product(After1(t), both[x])
      BY <2>8, <2>9
    <3>2. After1(u) = Product(After1(t), both[x])
      <4>1. \A P, Q : (\A e : e \in P <=> e \in Q) => P = Q
        OBVIOUS
      <4> QED BY <3>1, <4>1
    <3> QED BY <2>2, <2>3, <3>2
  <2> HIDE DEF After1
  <2> QED BY <2>1, <2>10 DEF u
<1> HIDE DEF S
<1>3. text \in S
  BY <1>1, <1>2, TextInduction
<1> QED BY <1>3 DEF S, Unfolded

-----------------------------------------------------------------------------
(* The texts after 0, 1, 2, ... substitutions, and Format.                  *)

\* One round of substitution.
Substituted(world, texts) == UNION {Substitute(world, text) : text \in texts}

LEMMA AfterIs ==
  ASSUME NEW world, NEW pattern
  PROVE  After(world, pattern)
          = CHOOSE f : f = [n \in 0..(MaxIterations+1) |-> IF n = 0 THEN {pattern} ELSE Substituted(world, f[n-1])]
  BY DEF After, Substituted

\* After satisfies the equation that defines it: there is a function that does.
LEMMA AfterUnfolds ==
  ASSUME NEW world, NEW pattern
  PROVE  After(world, pattern) = [n \in 0..(MaxIterations + 1) |->
            IF n = 0 THEN {pattern} ELSE Substituted(world, After(world, pattern)[n - 1])]
<1> DEFINE Def(f, m) == f = [n \in 0..m |-> IF n = 0 THEN {pattern} ELSE Substituted(world, f[n-1])]
           S == {m \in Nat : \E f : Def(f, m)}
<1>1. 0 \in S
  <2>1. Def([n \in 0..0 |-> {pattern}], 0)
    OBVIOUS
  <2> QED BY <2>1
<1>2. ASSUME NEW m \in Nat, m \in S PROVE m + 1 \in S
  <2>1. PICK f : Def(f, m)
    BY <1>2
  <2> DEFINE g == [n \in 0..(m+1) |-> IF n = m + 1 THEN Substituted(world, f[m]) ELSE f[n]]
  <2>2. ASSUME NEW n \in 0..(m+1) PROVE g[n] = IF n = 0 THEN {pattern} ELSE Substituted(world, g[n-1])
    <3>1. f = [k \in 0..m |-> IF k = 0 THEN {pattern} ELSE Substituted(world, f[k-1])]
      BY <2>1
    <3> HIDE DEF S, Def
    <3>2. CASE n = m + 1
      <4>1. n # 0 /\ n - 1 = m /\ m \in 0..(m+1) /\ m # m + 1
        BY <3>2
      <4>2. g[n] = Substituted(world, f[m]) /\ g[m] = f[m]
        BY <3>2, <4>1
      <4> HIDE DEF g
      <4> QED BY <4>1, <4>2
    <3>3. CASE n # m + 1
      <4>1. n \in 0..m /\ n # m + 1 /\ (n # 0 => n - 1 \in 0..(m+1) /\ n - 1 # m + 1)
        BY <3>3
      <4>2. g[n] = f[n] /\ (n # 0 => g[n - 1] = f[n - 1])
        BY <4>1
      <4> HIDE DEF g
      <4> QED BY <3>1, <4>1, <4>2
    <3> QED BY <3>2, <3>3
  <2>3. Def(g, m + 1)
    <3> HIDE DEF g
    <3>1. g = [n \in 0..(m+1) |-> g[n]]
      BY DEF g
    <3> QED BY <2>2, <3>1
  <2>4. m + 1 \in Nat /\ \E h : Def(h, m + 1)
    <3> HIDE DEF Def, g
    <3> QED BY <2>3
  <2> HIDE DEF Def, g
  <2> QED BY <2>4
<1> HIDE DEF S
<1>3. Nat \subseteq S
  BY <1>1, <1>2, Induction
<1>4. MaxIterations + 1 \in S
  BY <1>3, TemplatingAssumption
<1>5. \E f : Def(f, MaxIterations + 1)
  BY <1>4 DEF S
<1>6. After(world, pattern) = CHOOSE f : Def(f, MaxIterations + 1)
  BY AfterIs
<1>7. Def(After(world, pattern), MaxIterations + 1)
  <2> HIDE DEF Def
  <2> QED BY <1>5, <1>6
<1> QED BY <1>7

LEMMA SubstituteAtMostOne ==
  ASSUME NEW world, NEW text
  PROVE  Substitute(world, text) = {} \/ \E t : Substitute(world, text) = {t}
BY DEF Substitute, Joined

LEMMA SubstitutedOne ==
  ASSUME NEW world, NEW text
  PROVE  Substituted(world, {text}) = Substitute(world, text)
BY DEF Substituted

LEMMA AfterZero ==
  ASSUME NEW world, NEW pattern
  PROVE  After(world, pattern)[0] = {pattern}
<1> DEFINE f == After(world, pattern)
<1> HIDE DEF f
<1>1. f = [n \in 0..(MaxIterations + 1) |-> IF n = 0 THEN {pattern} ELSE Substituted(world, f[n-1])]
  BY AfterUnfolds DEF f
<1>2. 0 \in 0..(MaxIterations + 1)
  BY TemplatingAssumption
<1>3. f[0] = {pattern}
  BY <1>1, <1>2
<1> QED BY <1>3 DEF f

LEMMA AfterNext ==
  ASSUME NEW world, NEW pattern, NEW n \in 0..MaxIterations
  PROVE  After(world, pattern)[n + 1] = Substituted(world, After(world, pattern)[n])
<1> DEFINE f == After(world, pattern)
<1> HIDE DEF f
<1>1. f = [m \in 0..(MaxIterations + 1) |-> IF m = 0 THEN {pattern} ELSE Substituted(world, f[m-1])]
  BY AfterUnfolds DEF f
<1>2. n + 1 \in 0..(MaxIterations + 1) /\ n + 1 # 0 /\ (n + 1) - 1 = n
  BY TemplatingAssumption
<1>3. f[n + 1] = Substituted(world, f[(n + 1) - 1])
  BY <1>1, <1>2
<1> QED BY <1>2, <1>3 DEF f

\* There is never more than one text.
LEMMA AfterAtMostOne ==
  ASSUME NEW world, NEW pattern, NEW n \in 0..MaxIterations
  PROVE  AtMostOne(After(world, pattern)[n])
<1> DEFINE S == {m \in Nat : m <= MaxIterations => AtMostOne(After(world, pattern)[m])}
<1>1. 0 \in S
  BY AfterZero DEF AtMostOne
<1>2. ASSUME NEW m \in Nat, m \in S PROVE m + 1 \in S
  <2>1. SUFFICES ASSUME m + 1 <= MaxIterations PROVE AtMostOne(After(world, pattern)[m + 1])
    OBVIOUS
  <2>2. m \in 0..MaxIterations /\ m <= MaxIterations
    BY <2>1, TemplatingAssumption
  <2>3. AtMostOne(After(world, pattern)[m])
    BY <1>2, <2>2
  <2>4. After(world, pattern)[m + 1] = Substituted(world, After(world, pattern)[m])
    BY <2>2, AfterNext
  <2>5. CASE After(world, pattern)[m] = {}
    BY <2>4, <2>5 DEF Substituted, AtMostOne
  <2>6. CASE \E t : After(world, pattern)[m] = {t}
    <3>1. PICK t : After(world, pattern)[m] = {t}
      BY <2>6
    <3>2. After(world, pattern)[m + 1] = Substitute(world, t)
      BY <2>4, <3>1, SubstitutedOne
    <3> QED BY <3>2, SubstituteAtMostOne DEF AtMostOne
  <2> QED BY <2>3, <2>5, <2>6 DEF AtMostOne
<1> HIDE DEF S
<1>3. Nat \subseteq S
  BY <1>1, <1>2, Induction
<1>4. n \in S /\ n <= MaxIterations
  BY <1>3, TemplatingAssumption
<1> QED BY <1>4 DEF S

\* A round that changes nothing is followed by rounds that change nothing.
LEMMA AfterStays ==
  ASSUME NEW world, NEW pattern, NEW n \in 0..MaxIterations,
         After(world, pattern)[n + 1] = After(world, pattern)[n],
         NEW k \in 0..(MaxIterations + 1), n <= k
  PROVE  After(world, pattern)[k] = After(world, pattern)[n]
<1> DEFINE f == After(world, pattern)
           S == {m \in Nat : n + m <= MaxIterations + 1 => f[n + m] = f[n]}
<1>1. 0 \in S
  OBVIOUS
<1>2. ASSUME NEW m \in Nat, m \in S PROVE m + 1 \in S
  <2>1. SUFFICES ASSUME n + (m + 1) <= MaxIterations + 1 PROVE f[n + (m + 1)] = f[n]
    OBVIOUS
  <2> HIDE DEF f
  <2>2. n + m \in 0..MaxIterations /\ n + (m + 1) = (n + m) + 1 /\ n + m <= MaxIterations + 1
    BY <2>1, TemplatingAssumption
  <2>3. f[n + m] = f[n]
    BY <1>2, <2>2
  <2>4. f[(n + m) + 1] = Substituted(world, f[n + m]) /\ f[n + 1] = Substituted(world, f[n])
    BY <2>2, AfterNext DEF f
  <2>5. f[n + 1] = f[n]
    BY DEF f
  <2> QED BY <2>2, <2>3, <2>4, <2>5
<1> HIDE DEF S, f
<1>3. Nat \subseteq S
  BY <1>1, <1>2, Induction
<1>4. k - n \in Nat /\ n + (k - n) = k /\ k <= MaxIterations + 1
  BY TemplatingAssumption
<1>5. f[k] = f[n]
  BY <1>3, <1>4 DEF S
<1> QED BY <1>5 DEF f

LEMMA MinIsLeast ==
  ASSUME NEW T \in SUBSET Nat, T # {}
  PROVE  Min(T) \in T /\ \A k \in T : Min(T) <= k
BY NatMin DEF Min

LEMMA FormatAtMostOne ==
  ASSUME NEW world, NEW pattern
  PROVE  AtMostOne(Format(world, pattern))
<1> DEFINE f == After(world, pattern)
           final == {n \in 0..MaxIterations : f[n + 1] = f[n]}
<1>1. Format(world, pattern) = IF final = {} THEN {} ELSE f[Min(final)]
  BY DEF Format
<1>2. \A n \in 0..MaxIterations : AtMostOne(f[n])
  BY AfterAtMostOne
<1>3. final # {} => Min(final) \in 0..MaxIterations
  <2> HIDE DEF f
  <2>1. final \in SUBSET Nat
    BY TemplatingAssumption
  <2>2. final \subseteq 0..MaxIterations
    OBVIOUS
  <2> HIDE DEF final
  <2> QED BY <2>1, <2>2, MinIsLeast
<1> HIDE DEF f, final
<1> QED BY <1>1, <1>2, <1>3 DEF AtMostOne

\* Template.format returns exactly the text that substitution reaches within
\* MAX_ITERATIONS and leaves unchanged; if there is none it raises.
THEOREM FormatIsTheFixedPoint ==
  ASSUME NEW world, NEW pattern, NEW text
  PROVE  text \in Format(world, pattern) <=>
           \E n \in 0..MaxIterations :
              After(world, pattern)[n] = {text} /\ Substitute(world, text) = {text}
<1> DEFINE f == After(world, pattern)
           final == {n \in 0..MaxIterations : f[n + 1] = f[n]}
<1>1. Format(world, pattern) = IF final = {} THEN {} ELSE f[Min(final)]
  BY DEF Format
<1>2. \A n \in 0..MaxIterations : f[n + 1] = Substituted(world, f[n]) /\ AtMostOne(f[n])
  BY AfterNext, AfterAtMostOne
<1>3. final # {} => Min(final) \in final /\ \A k \in final : Min(final) <= k
  <2> HIDE DEF f
  <2>1. final \in SUBSET Nat
    BY TemplatingAssumption
  <2> HIDE DEF final
  <2> QED BY <2>1, MinIsLeast
<1>4. ASSUME text \in Format(world, pattern)
      PROVE  \E n \in 0..MaxIterations : f[n] = {text} /\ Substitute(world, text) = {text}
  <2> DEFINE n == Min(final)
  <2>1. final # {} /\ text \in f[n]
    <3> HIDE DEF f, final
    <3> QED BY <1>1, <1>4
  <2>2. n \in 0..MaxIterations /\ f[n + 1] = f[n]
    <3>1. n \in final
      <4> HIDE DEF f, final
      <4> QED BY <1>3, <2>1
    <3> HIDE DEF n, f
    <3> QED BY <3>1
  <2> HIDE DEF n, f
  <2>3. f[n] = {text}
    BY <1>2, <2>1, <2>2 DEF AtMostOne
  <2>4. Substitute(world, text) = {text}
    BY <1>2, <2>2, <2>3, SubstitutedOne
  <2> QED BY <2>2, <2>3, <2>4
<1>5. ASSUME NEW n \in 0..MaxIterations, f[n] = {text}, Substitute(world, text) = {text}
      PROVE  text \in Format(world, pattern)
  <2>1. n \in final
    <3> HIDE DEF f
    <3> QED BY <1>2, <1>5, SubstitutedOne
  <2> DEFINE k == Min(final)
  <2>2. k \in final /\ k <= n
    <3> HIDE DEF f, final
    <3> QED BY <1>3, <2>1
  <2>3. k \in 0..MaxIterations /\ f[k + 1] = f[k]
    <3> HIDE DEF f, k
    <3> QED BY <2>2
  <2>4. n \in 0..(MaxIterations + 1)
    BY TemplatingAssumption
  <2>5. f[n] = f[k]
    <3> HIDE DEF k
    <3> QED BY <2>2, <2>3, <2>4, AfterStays
  <2> HIDE DEF f, final
  <2> QED BY <1>1, <1>5, <2>1, <2>5
<1> QED BY <1>4, <1>5

-----------------------------------------------------------------------------
(* Worlds: what a token stands for, and what it means.                     *)

\* The tokens of T stand for texts of such tokens.
Closed(world, T) ==
  /\ 1 \in DOMAIN world.env
  /\ \A x \in T : Value(world, x) \in SUBSET Seq(T)

ValueIn(world, T) == [x \in T |-> Value(world, x)]

LEMMA LookupAtMostOne ==
  ASSUME NEW env, NEW key
  PROVE  AtMostOne(Explicit(env, key)) /\ AtMostOne(Computed(env, key)) /\ AtMostOne(Lookup(env, key))
<1>1. \A k : AtMostOne(Explicit(env, k))
  BY DEF AtMostOne, Explicit
<1>2. \A values : AtMostOne(Joined(values))
  BY DEF AtMostOne, Joined
<1>3. AtMostOne(Computed(env, key))
  <2>1. CASE key \in DOMAIN Sums
    <3>1. Computed(env, key)
            = {Plus(base, num) : base \in Explicit(env, Sums[key]), num \in Explicit(env, "nodenum")}
      BY <2>1 DEF Computed
    <3>2. AtMostOne(Explicit(env, Sums[key])) /\ AtMostOne(Explicit(env, "nodenum"))
      BY <1>1
    <3> DEFINE P == Explicit(env, Sums[key])  Q == Explicit(env, "nodenum")
    <3> HIDE DEF P, Q
    <3>3. AtMostOne(P) /\ AtMostOne(Q) /\ Computed(env, key) = {Plus(base, num) : base \in P, num \in Q}
      BY <3>1, <3>2 DEF P, Q
    <3> QED BY <3>3 DEF AtMostOne
  <2>2. CASE key \notin DOMAIN Sums
    <3>1. Computed(env, key) = {} \/ \E values : Computed(env, key) = Joined(values)
      BY <2>2 DEF Computed
    <3> QED BY <1>2, <3>1 DEF AtMostOne
  <2> QED BY <2>1, <2>2
<1>4. \/ Lookup(env, key) = {env[1][key]}
      \/ Lookup(env, key) = Computed(env, key)
      \/ Lookup(env, key) = Explicit(env, key)
  BY DEF Lookup
<1> QED BY <1>1, <1>3, <1>4 DEF AtMostOne

LEMMA ValueAtMostOne ==
  ASSUME NEW world, NEW x
  PROVE  AtMostOne(Value(world, x))
<1> DEFINE found == Lookup(world.env, x.name)
<1>1. AtMostOne(found)
  BY LookupAtMostOne
<1>2. CASE x.kind = "variable"
  BY <1>1, <1>2 DEF Value
<1>3. CASE x.kind = "file"
  BY <1>3 DEF Value, AtMostOne
<1>4. CASE x.kind = "program"
  BY <1>4 DEF Value, AtMostOne
<1>5. CASE x.kind = "deferred"
  <2>1. Value(world, x) = {<<File(t[1].name)>> : t \in {s \in found : Len(s) = 1 /\ s[1].kind = "literal"}}
    BY <1>5 DEF Value
  <2> HIDE DEF found
  <2> QED BY <1>1, <2>1 DEF AtMostOne
<1>6. CASE x.kind \notin Replaced
  BY <1>6 DEF Value, Replaced, AtMostOne
<1> QED BY <1>2, <1>3, <1>4, <1>5, <1>6 DEF Replaced

LEMMA ValueOfPlain ==
  ASSUME NEW world, NEW x, x.kind \notin Replaced
  PROVE  Value(world, x) = {<<x>>}
BY DEF Value, Replaced

\* Only the kind and the name of a token matter.
Named(x) == [kind |-> x.kind, name |-> x.name]

LEMMA ValueOfNamed ==
  ASSUME NEW world, NEW x, x.kind \in Replaced
  PROVE  Value(world, Named(x)) = Value(world, x)
<1>1. Named(x).kind = x.kind /\ Named(x).name = x.name
  BY DEF Named
<1> HIDE DEF Named
<1>2. CASE x.kind = "variable"
  BY <1>1, <1>2 DEF Value
<1>3. CASE x.kind = "file"
  BY <1>1, <1>3 DEF Value
<1>4. CASE x.kind = "program"
  BY <1>1, <1>4 DEF Value
<1>5. CASE x.kind = "deferred"
  BY <1>1, <1>5 DEF Value
<1> QED BY <1>2, <1>3, <1>4, <1>5 DEF Replaced

LEMMA ValueOfUnknown ==
  ASSUME NEW world, 1 \in DOMAIN world.env, NEW x, x.kind \in Replaced, x.name \notin Names(world)
  PROVE  Value(world, x) = {}
<1>1. /\ \A i \in DOMAIN world.env : x.name \notin DOMAIN world.env[i]
      /\ x.name \notin DOMAIN Sums /\ x.name \notin DOMAIN Texts
      /\ x.name \notin DOMAIN world.files /\ x.name \notin DOMAIN world.modes
  <2> DEFINE key == x.name
  <2>1. key \notin Names(world)
    OBVIOUS
  <2> HIDE DEF key
  <2>2. \A i \in DOMAIN world.env : key \notin DOMAIN world.env[i]
    BY <2>1 DEF Names
  <2>3. key \notin DOMAIN Sums /\ key \notin DOMAIN Texts
    BY <2>1 DEF Names
  <2>4. key \notin DOMAIN world.files /\ key \notin DOMAIN world.modes
    BY <2>1 DEF Names
  <2> QED BY <2>2, <2>3, <2>4 DEF key
<1>2. Lookup(world.env, x.name) = {}
  <2>1. Explicit(world.env, x.name) = {}
    BY <1>1 DEF Explicit
  <2>2. Computed(world.env, x.name) = {}
    BY <1>1 DEF Computed
  <2> QED BY <1>1, <2>1, <2>2 DEF Lookup
<1>3. CASE x.kind = "variable"
  BY <1>2, <1>3 DEF Value
<1>4. CASE x.kind = "file"
  BY <1>1, <1>4 DEF Value
<1>5. CASE x.kind = "program"
  BY <1>1, <1>5 DEF Value
<1>6. CASE x.kind = "deferred"
  BY <1>2, <1>6 DEF Value
<1> QED BY <1>3, <1>4, <1>5, <1>6 DEF Replaced

LEMMA ValueInIsValues ==
  ASSUME NEW world, NEW T, Closed(world, T)
  PROVE  ValueIn(world, T) \in Values(T)
BY ValueAtMostOne DEF ValueIn, Values, Closed

LEMMA SubstituteExpands ==
  ASSUME NEW world, NEW T, NEW text \in Seq(T)
  PROVE  Substitute(world, text) = Expanded(ValueIn(world, T), text)
<1>1. \A i \in DOMAIN text : Value(world, text[i]) = ValueIn(world, T)[text[i]]
  BY DEF ValueIn
<1>2. [i \in DOMAIN text |-> Value(world, text[i])] = [i \in DOMAIN text |-> ValueIn(world, T)[text[i]]]
  BY <1>1
<1> QED BY <1>2 DEF Substitute, Expanded

\* The meanings of the named tokens within one more level.
Tokens(world) == [kind : Replaced, name : Names(world)]

OneLevel(world, meanings) ==
  [y \in Tokens(world) |-> UNION {Read(meanings, v) : v \in Value(world, y)}]

NoMeanings(world) == [y \in Tokens(world) |-> {}]

LEMMA MeaningsIs ==
  ASSUME NEW world
  PROVE  Meanings(world) = CHOOSE f : f = [n \in 0..MaxIterations |->
            [y \in Tokens(world) |->
              IF n = 0 THEN {} ELSE UNION {Read(f[n - 1], v) : v \in Value(world, y)}]]
BY DEF Meanings, Tokens

LEMMA MeaningsUnfold ==
  ASSUME NEW world
  PROVE  /\ Meanings(world)[0] = NoMeanings(world)
         /\ \A n \in 0..MaxIterations :
              n + 1 <= MaxIterations => Meanings(world)[n + 1] = OneLevel(world, Meanings(world)[n])
<1> DEFINE Level(f, n) == [y \in Tokens(world) |->
                             IF n = 0 THEN {} ELSE UNION {Read(f[n - 1], v) : v \in Value(world, y)}]
           Def(f, m) == f = [n \in 0..m |-> Level(f, n)]
           S == {m \in Nat : \E f : Def(f, m)}
<1>0. \A f, g, n, k : n - 1 = k /\ f[k] = g[k] => Level(f, n) = Level(g, n)
  OBVIOUS
<1>1. 0 \in S
  <2> DEFINE g == [n \in 0..0 |-> NoMeanings(world)]
  <2>1. Level(g, 0) = NoMeanings(world)
    BY DEF NoMeanings
  <2>2. 0..0 = {0}
    OBVIOUS
  <2> HIDE DEF Level
  <2>3. Def(g, 0)
    BY <2>1, <2>2
  <2> QED BY <2>3
<1>2. ASSUME NEW m \in Nat, m \in S PROVE m + 1 \in S
  <2>1. PICK f : Def(f, m)
    BY <1>2
  <2> DEFINE g == [n \in 0..(m + 1) |-> IF n = m + 1 THEN Level(f, m + 1) ELSE f[n]]
  <2> HIDE DEF S, Level
  <2>2. ASSUME NEW n \in 0..(m + 1) PROVE g[n] = Level(g, n)
    <3>1. \A k \in 0..m : f[k] = Level(f, k) /\ g[k] = f[k]
      BY <2>1
    <3>2. CASE n = m + 1
      <4>1. m \in 0..m /\ (m + 1) - 1 = m
        OBVIOUS
      <4>2. g[n] = Level(f, m + 1)
        BY <3>2
      <4> HIDE DEF g
      <4> QED BY <1>0, <3>1, <3>2, <4>1, <4>2
    <3>3. CASE n # m + 1
      <4>1. n \in 0..m
        BY <3>3
      <4> HIDE DEF g
      <4>2. g[n] = Level(f, n)
        BY <3>1, <4>1
      <4>3. CASE n = 0
        <5>1. Level(f, n) = Level(g, n)
          BY <4>3 DEF Level
        <5> QED BY <4>2, <5>1
      <4>4. CASE n # 0
        <5>1. n - 1 \in 0..m
          BY <4>1, <4>4
        <5>2. f[n - 1] = g[n - 1]
          BY <3>1, <5>1
        <5> QED BY <1>0, <4>2, <5>2
      <4> QED BY <4>3, <4>4
    <3> QED BY <3>2, <3>3
  <2>3. g = [n \in 0..(m + 1) |-> g[n]]
    OBVIOUS
  <2> HIDE DEF g
  <2>4. Def(g, m + 1)
    BY <2>2, <2>3
  <2> HIDE DEF Def
  <2> QED BY <2>4 DEF S
<1> HIDE DEF S
<1>3. Nat \subseteq S
  BY <1>1, <1>2, Induction
<1>4. \E f : Def(f, MaxIterations)
  BY <1>3, TemplatingAssumption DEF S
<1> DEFINE f == Meanings(world)
<1>5. f = CHOOSE h : Def(h, MaxIterations)
  BY MeaningsIs
<1>6. Def(f, MaxIterations)
  <2> HIDE DEF Def, f
  <2> QED BY <1>4, <1>5
<1> HIDE DEF f
<1>7. \A n \in 0..MaxIterations : f[n] = Level(f, n)
  <2> HIDE DEF Level
  <2> QED BY <1>6
<1>8. f[0] = NoMeanings(world)
  <2>1. 0 \in 0..MaxIterations
    BY TemplatingAssumption
  <2>2. Level(f, 0) = NoMeanings(world)
    BY DEF NoMeanings
  <2> HIDE DEF Level
  <2> QED BY <1>7, <2>1, <2>2
<1>9. ASSUME NEW n \in 0..MaxIterations, n + 1 <= MaxIterations PROVE f[n + 1] = OneLevel(world, f[n])
  <2>1. n + 1 \in 0..MaxIterations /\ n + 1 # 0 /\ (n + 1) - 1 = n
    BY <1>9, TemplatingAssumption
  <2>2. Level(f, n + 1) = OneLevel(world, f[n])
    BY <2>1 DEF OneLevel
  <2> HIDE DEF Level
  <2> QED BY <1>7, <2>1, <2>2
<1> QED BY <1>8, <1>9 DEF f

\* What the tokens of T mean within n levels.
MeaningIn(world, T, n) == [x \in T |-> Reading(Meanings(world)[n], x)]

LEMMA ReadExpands ==
  ASSUME NEW world, NEW T, NEW n, NEW text \in Seq(T)
  PROVE  Read(Meanings(world)[n], text) = Expanded(MeaningIn(world, T, n), text)
<1>1. \A i \in DOMAIN text : Reading(Meanings(world)[n], text[i]) = MeaningIn(world, T, n)[text[i]]
  BY DEF MeaningIn
<1>2. [i \in DOMAIN text |-> Reading(Meanings(world)[n], text[i])]
        = [i \in DOMAIN text |-> MeaningIn(world, T, n)[text[i]]]
  BY <1>1
<1> QED BY <1>2 DEF Read, Expanded

LEMMA ReadingIs ==
  ASSUME NEW world, NEW meanings, DOMAIN meanings = Tokens(world), NEW x
  PROVE  Reading(meanings, x) = IF x.kind \notin Replaced THEN {<<x>>}
                                ELSE IF x.name \in Names(world) THEN meanings[Named(x)] ELSE {}
<1>1. CASE x.kind \notin Replaced
  BY <1>1 DEF Reading
<1>2. CASE x.kind \in Replaced
  <2>1. Reading(meanings, x) = UNION {meanings[y] : y \in {Named(x)} \intersect Tokens(world)}
    BY <1>2 DEF Reading, Named
  <2>2. Named(x) \in Tokens(world) <=> x.name \in Names(world)
    BY <1>2 DEF Named, Tokens
  <2> HIDE DEF Named
  <2>3. CASE x.name \in Names(world)
    BY <1>2, <2>1, <2>2, <2>3
  <2>4. CASE x.name \notin Names(world)
    BY <1>2, <2>1, <2>2, <2>4
  <2> QED BY <2>3, <2>4
<1> QED BY <1>1, <1>2

\* A token means within no level only itself, and within one more what its value means.
LEMMA MeaningSteps ==
  ASSUME NEW world, NEW T, Closed(world, T)
  PROVE  /\ \A x \in T : MeaningIn(world, T, 0)[x] = IF x.kind \in Replaced THEN {} ELSE {<<x>>}
         /\ \A n \in 0..MaxIterations :
              n + 1 <= MaxIterations /\ MeaningIn(world, T, n) \in Values(T) =>
                \A x \in T : MeaningIn(world, T, n + 1)[x] =
                   Unfolded(MeaningIn(world, T, n), Value(world, x))
<1> DEFINE M == Meanings(world)
<1> HIDE DEF M
<1>1. M[0] = NoMeanings(world) /\ DOMAIN NoMeanings(world) = Tokens(world)
  BY MeaningsUnfold DEF M, NoMeanings
<1>2. ASSUME NEW x \in T PROVE MeaningIn(world, T, 0)[x] = IF x.kind \in Replaced THEN {} ELSE {<<x>>}
  <2>1. MeaningIn(world, T, 0)[x] = Reading(M[0], x)
    BY DEF MeaningIn, M
  <2>2. Named(x) \in Tokens(world) => M[0][Named(x)] = {}
    BY <1>1 DEF NoMeanings
  <2>3. x.kind \in Replaced /\ x.name \in Names(world) => Named(x) \in Tokens(world)
    BY DEF Named, Tokens
  <2> QED BY <1>1, <2>1, <2>2, <2>3, ReadingIs
<1>3. ASSUME NEW n \in 0..MaxIterations, n + 1 <= MaxIterations, MeaningIn(world, T, n) \in Values(T), NEW x \in T
      PROVE  MeaningIn(world, T, n + 1)[x] = Unfolded(MeaningIn(world, T, n), Value(world, x))
  <2> DEFINE mean == MeaningIn(world, T, n)
             N == M[n + 1]
  <2>1. N = OneLevel(world, M[n]) /\ DOMAIN OneLevel(world, M[n]) = Tokens(world)
    BY <1>3, MeaningsUnfold DEF M, OneLevel
  <2>2. MeaningIn(world, T, n + 1)[x] = Reading(N, x)
    BY DEF MeaningIn, M
  <2>3. \A v \in Seq(T) : Read(M[n], v) = Expanded(mean, v)
    BY ReadExpands DEF M
  <2>4. Value(world, x) \in SUBSET Seq(T)
    BY DEF Closed
  <2> HIDE DEF N, mean
  <2>5. UNION {Read(M[n], v) : v \in Value(world, x)} = Unfolded(mean, Value(world, x))
    BY <2>3, <2>4 DEF Unfolded
  <2>6. CASE x.kind \notin Replaced
    <3>1. Reading(N, x) = {<<x>>} /\ Value(world, x) = {<<x>>}
      BY <2>1, <2>6, ReadingIs, ValueOfPlain
    <3>2. mean[x] = {<<x>>}
      <4>1. mean[x] = Reading(M[n], x)
        BY DEF mean, MeaningIn, M
      <4> QED BY <2>6, <4>1 DEF Reading
    <3>3. Expanded(mean, <<x>>) = {<<x>>}
      <4>1. PICK t : t = <<x>>
        OBVIOUS
      <4>2. t \in Seq(T) /\ \A i \in 1..Len(t) : t[i] = x
        BY <4>1
      <4>3. \A i \in 1..Len(t) : mean[t[i]] = {<<t[i]>>}
        BY <3>2, <4>2
      <4>4. mean \in Values(T)
        BY <1>3 DEF mean
      <4>5. Expanded(mean, t) = {t}
        BY <4>2, <4>3, <4>4, ExpandedSame
      <4> QED BY <4>1, <4>5
    <3> QED BY <2>2, <3>1, <3>3 DEF mean, Unfolded
  <2>7. CASE x.kind \in Replaced /\ x.name \in Names(world)
    <3>1. Named(x) \in Tokens(world)
      BY <2>7 DEF Named, Tokens
    <3>2. Reading(N, x) = N[Named(x)]
      BY <2>1, <2>7, ReadingIs
    <3>3. N[Named(x)] = UNION {Read(M[n], v) : v \in Value(world, Named(x))}
      BY <2>1, <3>1 DEF OneLevel
    <3>4. Value(world, Named(x)) = Value(world, x)
      BY <2>7, ValueOfNamed
    <3> QED BY <2>2, <2>5, <3>2, <3>3, <3>4 DEF mean
  <2>8. CASE x.kind \in Replaced /\ x.name \notin Names(world)
    <3>1. Reading(N, x) = {}
      BY <2>1, <2>8, ReadingIs
    <3>2. Value(world, x) = {}
      BY <2>8, ValueOfUnknown DEF Closed
    <3> QED BY <2>2, <3>1, <3>2 DEF Unfolded
  <2> QED BY <2>6, <2>7, <2>8
<1> QED BY <1>2, <1>3

LEMMA MeaningsAreTexts ==
  ASSUME NEW world, NEW T, Closed(world, T), NEW n \in 0..MaxIterations
  PROVE  MeaningIn(world, T, n) \in Values(T)
<1> DEFINE S == {m \in Nat : m <= MaxIterations => MeaningIn(world, T, m) \in Values(T)}
<1>1. 0 \in S
  <2>1. \A x \in T : MeaningIn(world, T, 0)[x] = IF x.kind \in Replaced THEN {} ELSE {<<x>>}
    BY MeaningSteps
  <2>2. \A x \in T : MeaningIn(world, T, 0)[x] \in SUBSET Seq(T) /\ AtMostOne(MeaningIn(world, T, 0)[x])
    <3> SUFFICES ASSUME NEW x \in T
                 PROVE  MeaningIn(world, T, 0)[x] \in SUBSET Seq(T) /\ AtMostOne(MeaningIn(world, T, 0)[x])
      OBVIOUS
    <3>1. <<x>> \in Seq(T)
      OBVIOUS
    <3>2. \/ MeaningIn(world, T, 0)[x] = {}
          \/ MeaningIn(world, T, 0)[x] = {<<x>>}
      BY <2>1
    <3> QED BY <3>1, <3>2 DEF AtMostOne
  <2>3. MeaningIn(world, T, 0) \in Values(T)
    BY <2>2 DEF Values, MeaningIn
  <2> QED BY <2>3
<1>2. ASSUME NEW m \in Nat, m \in S PROVE m + 1 \in S
  <2> SUFFICES ASSUME m + 1 <= MaxIterations PROVE MeaningIn(world, T, m + 1) \in Values(T)
    OBVIOUS
  <2>1. m \in 0..MaxIterations /\ m <= MaxIterations
    BY TemplatingAssumption
  <2>2. MeaningIn(world, T, m) \in Values(T)
    BY <1>2, <2>1
  <2> HIDE DEF S
  <2> DEFINE mean == MeaningIn(world, T, m)
             next == MeaningIn(world, T, m + 1)
  <2>3. \A x \in T : next[x] = Unfolded(mean, Value(world, x))
    BY <2>1, <2>2, MeaningSteps
  <2>4. next = [x \in T |-> next[x]]
    BY DEF MeaningIn
  <2> HIDE DEF mean, next
  <2>5. ASSUME NEW x \in T PROVE next[x] \in SUBSET Seq(T) /\ AtMostOne(next[x])
    <3>1. CASE Value(world, x) = {}
      BY <2>3, <3>1 DEF AtMostOne, Unfolded
    <3>2. CASE Value(world, x) # {}
      <4>1. PICK v : Value(world, x) = {v}
        BY <3>2, ValueAtMostOne DEF AtMostOne
      <4>2. v \in Seq(T)
        BY <4>1 DEF Closed
      <4>3. next[x] = Expanded(mean, v)
        BY <2>3, <4>1 DEF Unfolded
      <4>4. Expanded(mean, v) \in SUBSET Seq(T) /\ AtMostOne(Expanded(mean, v))
        BY <2>2, <4>2, ExpandedIsTexts, ExpandedAtMostOne DEF mean
      <4> QED BY <4>3, <4>4
    <3> QED BY <3>1, <3>2
  <2>6. next \in Values(T)
    BY <2>4, <2>5 DEF Values
  <2> QED BY <2>6 DEF next
<1> HIDE DEF S
<1>3. Nat \subseteq S
  BY <1>1, <1>2, Induction
<1>4. n \in S /\ n <= MaxIterations
  BY <1>3, TemplatingAssumption
<1> QED BY <1>4 DEF S

\* What a text means within one more level is what its substitutions mean.
LEMMA MeaningAfterOne ==
  ASSUME NEW world, NEW T, Closed(world, T), NEW n \in 0..MaxIterations, n + 1 <= MaxIterations,
         NEW text \in Seq(T)
  PROVE  Expanded(MeaningIn(world, T, n + 1), text)
           = Unfolded(MeaningIn(world, T, n), Substitute(world, text))
<1> DEFINE value == ValueIn(world, T)
           next == MeaningIn(world, T, n)
           both == MeaningIn(world, T, n + 1)
<1>1. n + 1 \in 0..MaxIterations
  BY TemplatingAssumption
<1>2. value \in Values(T) /\ next \in Values(T) /\ both \in Values(T)
  BY <1>1, ValueInIsValues, MeaningsAreTexts
<1>3. \A x \in T : both[x] = Unfolded(next, Value(world, x))
  BY <1>2, MeaningSteps
<1>4. \A x \in T : both[x] = Unfolded(next, value[x])
  BY <1>3 DEF ValueIn
<1>5. Substitute(world, text) = Expanded(value, text)
  BY SubstituteExpands
<1> HIDE DEF value, next, both
<1>6. Expanded(both, text) = Unfolded(next, Expanded(value, text))
  BY <1>2, <1>4, ExpandedTwice
<1> QED BY <1>5, <1>6 DEF value, next, both

\* Texts without tokens that stand for something else.
Plain(text) == \A i \in DOMAIN text : text[i].kind \notin Replaced

LEMMA PlainTexts ==
  ASSUME NEW world, NEW T, Closed(world, T), NEW text \in Seq(T)
  PROVE  /\ Expanded(MeaningIn(world, T, 0), text) = IF Plain(text) THEN {text} ELSE {}
         /\ Plain(text) => Substitute(world, text) = {text}
         /\ Substitute(world, text) \in SUBSET Seq(T)
<1> DEFINE value == ValueIn(world, T)
           mean == MeaningIn(world, T, 0)
<1>1. 0 \in 0..MaxIterations
  BY TemplatingAssumption
<1>2. value \in Values(T) /\ mean \in Values(T)
  BY <1>1, ValueInIsValues, MeaningsAreTexts
<1>3. \A x \in T : mean[x] = IF x.kind \in Replaced THEN {} ELSE {<<x>>}
  BY MeaningSteps
<1>4. \A x \in T : x.kind \notin Replaced => value[x] = {<<x>>}
  BY ValueOfPlain DEF ValueIn
<1>5. Substitute(world, text) = Expanded(value, text)
  BY SubstituteExpands
<1> HIDE DEF value, mean
<1>6. DOMAIN text = 1..Len(text) /\ \A i \in 1..Len(text) : text[i] \in T
  OBVIOUS
<1>7. CASE Plain(text)
  <2>1. \A i \in 1..Len(text) : mean[text[i]] = {<<text[i]>>} /\ value[text[i]] = {<<text[i]>>}
    BY <1>3, <1>4, <1>6, <1>7 DEF Plain
  <2>2. Expanded(mean, text) = {text} /\ Expanded(value, text) = {text}
    BY <1>2, <2>1, ExpandedSame
  <2> QED BY <1>5, <1>7, <2>2 DEF mean
<1>8. CASE ~Plain(text)
  <2>1. PICK i \in 1..Len(text) : text[i].kind \in Replaced
    BY <1>6, <1>8 DEF Plain
  <2>2. mean[text[i]] = {}
    BY <1>3, <1>6, <2>1
  <2>3. Expanded(mean, text) = {}
    BY <2>2, ExpandedNone
  <2>4. Expanded(value, text) \in SUBSET Seq(T)
    BY <1>2, ExpandedIsTexts
  <2> QED BY <1>5, <1>8, <2>3, <2>4 DEF mean
<1> QED BY <1>7, <1>8

LEMMA AfterIsTexts ==
  ASSUME NEW world, NEW T, Closed(world, T), NEW pattern \in Seq(T), NEW n \in 0..MaxIterations
  PROVE  After(world, pattern)[n] \in SUBSET Seq(T)
<1> DEFINE S == {m \in Nat : m <= MaxIterations => After(world, pattern)[m] \in SUBSET Seq(T)}
<1>1. 0 \in S
  BY AfterZero
<1>2. ASSUME NEW m \in Nat, m \in S PROVE m + 1 \in S
  <2> SUFFICES ASSUME m + 1 <= MaxIterations PROVE After(world, pattern)[m + 1] \in SUBSET Seq(T)
    OBVIOUS
  <2>1. m \in 0..MaxIterations /\ m <= MaxIterations
    BY TemplatingAssumption
  <2>2. After(world, pattern)[m] \in SUBSET Seq(T)
    BY <1>2, <2>1
  <2>3. After(world, pattern)[m + 1] = Substituted(world, After(world, pattern)[m])
    BY <2>1, AfterNext
  <2>4. \A t \in Seq(T) : Substitute(world, t) \in SUBSET Seq(T)
    BY PlainTexts
  <2> QED BY <2>2, <2>3, <2>4 DEF Substituted
<1> HIDE DEF S
<1>3. Nat \subseteq S
  BY <1>1, <1>2, Induction
<1>4. n \in S /\ n <= MaxIterations
  BY <1>3, TemplatingAssumption
<1> QED BY <1>4 DEF S

\* What the pattern means within all levels is what the text after some substitutions
\* means within the levels that are left.
LEMMA MeaningAfterSome ==
  ASSUME NEW world, NEW T, Closed(world, T), NEW pattern \in Seq(T), NEW n \in 0..MaxIterations
  PROVE  Meaning(world, pattern)
           = Unfolded(MeaningIn(world, T, MaxIterations - n), After(world, pattern)[n])
<1> DEFINE texts(m) == After(world, pattern)[m]
           Left(m) == Unfolded(MeaningIn(world, T, MaxIterations - m), texts(m))
           S == {m \in Nat : m <= MaxIterations => Meaning(world, pattern) = Left(m)}
<1>1. 0 \in S
  <2>1. texts(0) = {pattern} /\ MaxIterations - 0 = MaxIterations
    BY AfterZero, TemplatingAssumption
  <2>2. Meaning(world, pattern) = Expanded(MeaningIn(world, T, MaxIterations), pattern)
    BY ReadExpands DEF Meaning
  <2> HIDE DEF texts
  <2>3. Left(0) = Expanded(MeaningIn(world, T, MaxIterations), pattern)
    BY <2>1 DEF Unfolded
  <2> QED BY <2>2, <2>3
<1>2. ASSUME NEW m \in Nat, m \in S PROVE m + 1 \in S
  <2> SUFFICES ASSUME m + 1 <= MaxIterations PROVE Meaning(world, pattern) = Left(m + 1)
    OBVIOUS
  <2> DEFINE k == MaxIterations - (m + 1)
  <2>1. /\ m \in 0..MaxIterations /\ m <= MaxIterations
        /\ k \in 0..MaxIterations /\ k + 1 <= MaxIterations /\ MaxIterations - m = k + 1
    BY TemplatingAssumption
  <2>2. Meaning(world, pattern) = Left(m)
    BY <1>2, <2>1
  <2> HIDE DEF S
  <2>3. texts(m) \in SUBSET Seq(T)
    BY <2>1, AfterIsTexts
  <2>4. texts(m + 1) = UNION {Substitute(world, t) : t \in texts(m)}
    BY <2>1, AfterNext DEF Substituted
  <2> HIDE DEF texts, k
  <2>5. \A t \in texts(m) : Expanded(MeaningIn(world, T, k + 1), t)
                              = Unfolded(MeaningIn(world, T, k), Substitute(world, t))
    BY <2>1, <2>3, MeaningAfterOne
  <2>6. Unfolded(MeaningIn(world, T, k + 1), texts(m)) = Unfolded(MeaningIn(world, T, k), texts(m + 1))
    BY <2>4, <2>5 DEF Unfolded
  <2>7. Left(m) = Unfolded(MeaningIn(world, T, k + 1), texts(m))
    BY <2>1
  <2>8. Left(m + 1) = Unfolded(MeaningIn(world, T, k), texts(m + 1))
    BY DEF k
  <2> HIDE DEF Left
  <2> QED BY <2>2, <2>6, <2>7, <2>8
<1> HIDE DEF S
<1>3. Nat \subseteq S
  BY <1>1, <1>2, Induction
<1>4. n \in S /\ n <= MaxIterations
  BY <1>3, TemplatingAssumption
<1> QED BY <1>4 DEF S

\* A template means the texts without tokens to replace that all substitutions give.
LEMMA MeaningIsPlain ==
  ASSUME NEW world, NEW T, Closed(world, T), NEW pattern \in Seq(T)
  PROVE  Meaning(world, pattern) = {t \in After(world, pattern)[MaxIterations] : Plain(t)}
<1> DEFINE texts == After(world, pattern)[MaxIterations]
           mean == MeaningIn(world, T, 0)
<1>1. MaxIterations \in 0..MaxIterations /\ MaxIterations - MaxIterations = 0
  BY TemplatingAssumption
<1>2. texts \in SUBSET Seq(T)
  BY <1>1, AfterIsTexts
<1>3. Meaning(world, pattern) = Unfolded(mean, texts)
  BY <1>1, MeaningAfterSome
<1>4. \A t \in Seq(T) : Expanded(mean, t) = IF Plain(t) THEN {t} ELSE {}
  BY PlainTexts
<1> HIDE DEF texts, mean
<1>5. Unfolded(mean, texts) = {t \in texts : Plain(t)}
  BY <1>2, <1>4 DEF Unfolded
<1> QED BY <1>3, <1>5 DEF texts

LEMMA FormatInClosed ==
  ASSUME NEW world, NEW T, Closed(world, T), NEW pattern \in Seq(T)
  PROVE  MeansWhatItSays(world, pattern)
<1> DEFINE last == After(world, pattern)[MaxIterations]
           format == Format(world, pattern)
<1>0. MaxIterations \in 0..MaxIterations /\ MaxIterations \in 0..(MaxIterations + 1)
  BY TemplatingAssumption
<1>1. last \in SUBSET Seq(T) /\ AtMostOne(last)
  BY <1>0, AfterIsTexts, AfterAtMostOne
<1>2. Meaning(world, pattern) = {t \in last : Plain(t)}
  BY MeaningIsPlain
<1>3. ASSUME NEW t \in format PROVE last = {t} /\ Substitute(world, t) = {t} /\ format = {t}
  <2>1. PICK n \in 0..MaxIterations : After(world, pattern)[n] = {t} /\ Substitute(world, t) = {t}
    BY FormatIsTheFixedPoint
  <2>2. After(world, pattern)[n + 1] = After(world, pattern)[n]
    BY <2>1, AfterNext, SubstitutedOne
  <2>3. last = After(world, pattern)[n]
    <3>1. n <= MaxIterations
      BY TemplatingAssumption
    <3> QED BY <1>0, <2>2, <3>1, AfterStays
  <2>4. format = {t}
    BY FormatAtMostOne DEF AtMostOne
  <2> QED BY <2>1, <2>3, <2>4
<1>4. ASSUME NEW t \in last, Plain(t) PROVE t \in format
  <2>1. Substitute(world, t) = {t}
    BY <1>1, <1>4, PlainTexts
  <2>2. last = {t}
    BY <1>1 DEF AtMostOne
  <2> QED BY <1>0, <2>1, <2>2, FormatIsTheFixedPoint
<1> HIDE DEF last, format
<1>5. CASE format = {}
  <2>1. Meaning(world, pattern) = {}
    BY <1>2, <1>4, <1>5
  <2> QED BY <1>5, <2>1 DEF MeansWhatItSays, format
<1>6. CASE format # {}
  <2>1. PICK t : t \in format
    BY <1>6
  <2>2. last = {t} /\ Substitute(world, t) = {t} /\ format = {t}
    BY <1>3, <2>1
  <2>3. CASE Plain(t)
    <3>1. Meaning(world, pattern) = {t}
      BY <1>2, <2>2, <2>3
    <3> QED BY <2>2, <3>1 DEF MeansWhatItSays, format
  <2>4. CASE ~Plain(t)
    <3>1. \E i \in DOMAIN t : t[i].kind \in Replaced
      BY <2>4 DEF Plain
    <3> QED BY <2>2, <3>1 DEF MeansWhatItSays, format
  <2> QED BY <2>3, <2>4
<1> QED BY <1>5, <1>6

-----------------------------------------------------------------------------
(* The tokens of a world.                                                  *)

LEMMA TextsOfMore ==
  ASSUME NEW T, NEW U, T \subseteq U
  PROVE  Seq(T) \subseteq Seq(U)
OBVIOUS

LEMMA TextIsIn ==
  ASSUME NEW text, IsText(text), NEW T, Range(text) \subseteq T
  PROVE  text \in Seq(T)
BY DEF IsText

LEMMA IsTextOf ==
  ASSUME NEW T, NEW text \in Seq(T)
  PROVE  IsText(text)
<1>1. DOMAIN text = 1..Len(text) /\ Len(text) \in Nat
  OBVIOUS
<1>2. \A i \in 1..Len(text) : text[i] \in Range(text)
  BY <1>1 DEF Range
<1>3. text \in [1..Len(text) -> Range(text)]
  BY <1>1, <1>2
<1> QED BY <1>1, <1>3 DEF IsText

\* All texts of the dictionaries and files, and the tokens that they consist of.
TextsIn(world) ==
  (UNION {{world.env[i][key] : key \in DOMAIN world.env[i]} : i \in DOMAIN world.env})
    \union {world.files[f] : f \in DOMAIN world.files}

TokensOf(texts) == UNION {Range(text) : text \in texts}

\* The tokens that a lookup can find: also the sums, and what the computed texts and
\* programs consist of.
FoundIn(world) ==
  TokensOf(TextsIn(world))
    \union {Number(n) : n \in {a[1].value + b[1].value : a, b \in TextsIn(world)}}
    \union TokensOf({Texts[key] : key \in DOMAIN Texts})
    \union {Literal(p) : p \in DOMAIN world.modes}

\* And the includes that a deferred one becomes.
TokensIn(world) == FoundIn(world) \union {File(x.name) : x \in FoundIn(world)}

LEMMA ExplicitIsText ==
  ASSUME NEW world, IsWorld(world), NEW key
  PROVE  /\ Explicit(world.env, key) \subseteq TextsIn(world)
         /\ Explicit(world.env, key) \in SUBSET Seq(TokensOf(TextsIn(world)))
<1> DEFINE env == world.env
           holders == {i \in DOMAIN env : key \in DOMAIN env[i]}
<1>1. DOMAIN env \subseteq Nat
  BY DEF IsWorld
<1>2. Explicit(env, key) = IF holders = {} THEN {} ELSE {env[Min(holders)][key]}
  BY DEF Explicit
<1>3. holders # {} => Min(holders) \in holders
  <2>1. holders \in SUBSET Nat
    BY <1>1
  <2> HIDE DEF holders
  <2> QED BY <2>1, MinIsLeast
<1>4. \A i \in holders : env[i][key] \in TextsIn(world) /\ IsText(env[i][key])
  BY DEF TextsIn, IsWorld
<1>5. \A i \in holders : env[i][key] \in Seq(TokensOf(TextsIn(world)))
  <2> SUFFICES ASSUME NEW i \in holders PROVE env[i][key] \in Seq(TokensOf(TextsIn(world)))
    OBVIOUS
  <2> DEFINE text == env[i][key]
  <2>1. text \in TextsIn(world) /\ IsText(text)
    BY <1>4
  <2> HIDE DEF text
  <2>2. Range(text) \subseteq TokensOf(TextsIn(world))
    BY <2>1 DEF TokensOf
  <2>3. text \in Seq(TokensOf(TextsIn(world)))
    BY <2>1, <2>2, TextIsIn
  <2> QED BY <2>3 DEF text
<1> HIDE DEF env, holders
<1> QED BY <1>2, <1>3, <1>4, <1>5 DEF env

LEMMA ComputedIsText ==
  ASSUME NEW world, IsWorld(world), NEW key
  PROVE  Computed(world.env, key) \in SUBSET Seq(FoundIn(world))
<1> DEFINE env == world.env
           T == FoundIn(world)
<1>1. \A k : Explicit(env, k) \subseteq TextsIn(world) /\ Explicit(env, k) \in SUBSET Seq(TokensOf(TextsIn(world)))
  BY ExplicitIsText
<1>2. TokensOf(TextsIn(world)) \subseteq T
  BY DEF FoundIn
<1>3. \A k : Explicit(env, k) \in SUBSET Seq(T)
  <2> HIDE DEF T
  <2> QED BY <1>1, <1>2, TextsOfMore
<1>4. CASE key \in DOMAIN Sums
  <2>1. Computed(env, key)
          = {Plus(base, num) : base \in Explicit(env, Sums[key]), num \in Explicit(env, "nodenum")}
    BY <1>4 DEF Computed
  <2>2. \A a, b \in TextsIn(world) : Plus(a, b) \in Seq(T)
    <3> SUFFICES ASSUME NEW a \in TextsIn(world), NEW b \in TextsIn(world) PROVE Plus(a, b) \in Seq(T)
      OBVIOUS
    <3> DEFINE x == Number(a[1].value + b[1].value)
    <3>1. x \in T
      <4>1. a[1].value + b[1].value \in {c[1].value + d[1].value : c, d \in TextsIn(world)}
        OBVIOUS
      <4> QED BY <4>1 DEF FoundIn
    <3>2. Plus(a, b) = <<x>>
      BY DEF Plus
    <3> HIDE DEF x, T
    <3> QED BY <3>1, <3>2
  <2> HIDE DEF env, T
  <2> QED BY <1>1, <2>1, <2>2 DEF env, T
<1>5. CASE key \notin DOMAIN Sums /\ key \in DOMAIN Texts
  <2> DEFINE text == Texts[key]
             value == [x \in T |-> Part(env, x)]
  <2>1. \A x \in T : Part(env, x) \in SUBSET Seq(T) /\ AtMostOne(Part(env, x))
    <3> SUFFICES ASSUME NEW x \in T PROVE Part(env, x) \in SUBSET Seq(T) /\ AtMostOne(Part(env, x))
      OBVIOUS
    <3> HIDE DEF env, T
    <3>1. <<x>> \in Seq(T)
      OBVIOUS
    <3>2. Part(env, x) = {<<x>>} \/ \E k : Part(env, x) = Explicit(env, k)
      BY DEF Part
    <3>3. CASE Part(env, x) = {<<x>>}
      BY <3>1, <3>3 DEF AtMostOne
    <3>4. ASSUME NEW k, Part(env, x) = Explicit(env, k) PROVE Part(env, x) \in SUBSET Seq(T) /\ AtMostOne(Part(env, x))
      <4>1. AtMostOne(Explicit(env, k)) /\ Explicit(env, k) \in SUBSET Seq(T)
        BY <1>3, LookupAtMostOne
      <4> QED BY <3>4, <4>1
    <3> QED BY <3>2, <3>3, <3>4
  <2>2. value \in Values(T)
    <3> HIDE DEF env, T
    <3> QED BY <2>1 DEF Values
  <2>3. text \in Seq(T)
    <3>1. Range(text) \subseteq T
      BY <1>5 DEF FoundIn, TokensOf
    <3>2. IsText(text)
      <4>1. DOMAIN Texts = {"nick", "dir"}
        BY DEF Texts
      <4>2. \A a, b, c, d : <<a, b, c>> \in Seq({a, b, c}) /\ <<a, b, c, d>> \in Seq({a, b, c, d})
        OBVIOUS
      <4>3. (\E a, b, c : text = <<a, b, c>>) \/ \E a, b, c, d : text = <<a, b, c, d>>
        BY <1>5, <4>1 DEF Texts
      <4> HIDE DEF text
      <4> QED BY <4>2, <4>3, IsTextOf
    <3> HIDE DEF text, T
    <3> QED BY <3>1, <3>2, TextIsIn
  <2>4. Computed(env, key) = Joined([i \in DOMAIN text |-> Part(env, text[i])])
    BY <1>5 DEF Computed
  <2>5. [i \in DOMAIN text |-> Part(env, text[i])] = [i \in DOMAIN text |-> value[text[i]]]
    <3> HIDE DEF text, T, env
    <3>1. \A i \in DOMAIN text : text[i] \in T
      BY <2>3
    <3> QED BY <3>1
  <2> HIDE DEF text, value, env, T
  <2>6. Computed(env, key) = Expanded(value, text)
    BY <2>4, <2>5 DEF Expanded
  <2> QED BY <2>2, <2>3, <2>6, ExpandedIsTexts DEF env, T
<1>6. CASE key \notin DOMAIN Sums /\ key \notin DOMAIN Texts
  BY <1>6 DEF Computed
<1> QED BY <1>4, <1>5, <1>6

\* Whatever holds the tokens of a world is closed.
LEMMA ValueIsText ==
  ASSUME NEW world, IsWorld(world), NEW x
  PROVE  Value(world, x) \in SUBSET Seq(TokensIn(world) \union {x})
<1> DEFINE F == FoundIn(world)
           T == TokensIn(world)
           U == T \union {x}
           env == world.env
<1>1. F \subseteq T /\ T \subseteq U /\ F \subseteq U
  BY DEF TokensIn
<1>2. \A key : Lookup(env, key) \in SUBSET Seq(F)
  <2> SUFFICES ASSUME NEW key PROVE Lookup(env, key) \in SUBSET Seq(F)
    OBVIOUS
  <2>1. TokensOf(TextsIn(world)) \subseteq F
    BY DEF FoundIn
  <2> HIDE DEF F
  <2>2. Explicit(env, key) \in SUBSET Seq(F)
    BY <2>1, ExplicitIsText, TextsOfMore
  <2>3. Computed(env, key) \in SUBSET Seq(F)
    BY ComputedIsText DEF F
  <2>4. key \in DOMAIN env[1] => env[1][key] \in Seq(F)
    <3> SUFFICES ASSUME key \in DOMAIN env[1] PROVE env[1][key] \in Seq(F)
      OBVIOUS
    <3> DEFINE text == env[1][key]
    <3>1. IsText(text) /\ text \in TextsIn(world)
      BY DEF IsWorld, TextsIn
    <3> HIDE DEF text, env
    <3>2. Range(text) \subseteq F
      BY <2>1, <3>1 DEF TokensOf
    <3>3. text \in Seq(F)
      BY <3>1, <3>2, TextIsIn
    <3> QED BY <3>3 DEF text
  <2> HIDE DEF env
  <2> QED BY <2>2, <2>3, <2>4 DEF Lookup
<1>3. \A texts : texts \in SUBSET Seq(F) => texts \in SUBSET Seq(U)
  <2> HIDE DEF F, T, U
  <2> QED BY <1>1, TextsOfMore
<1>4. CASE x.kind = "variable"
  <2>1. Value(world, x) = Lookup(env, x.name)
    BY <1>4 DEF Value
  <2> HIDE DEF F, T, U, env
  <2>2. Value(world, x) \in SUBSET Seq(U)
    BY <1>2, <1>3, <2>1
  <2> QED BY <2>2 DEF U, T
<1>5. CASE x.kind = "file"
  <2>1. Value(world, x) \subseteq {world.files[f] : f \in DOMAIN world.files}
    BY <1>5 DEF Value
  <2>2. ASSUME NEW f \in DOMAIN world.files PROVE world.files[f] \in Seq(F)
    <3> DEFINE text == world.files[f]
    <3>1. IsText(text) /\ text \in TextsIn(world)
      BY DEF IsWorld, TextsIn
    <3> HIDE DEF text
    <3>2. Range(text) \subseteq F
      BY <3>1 DEF TokensOf, FoundIn
    <3> HIDE DEF F
    <3>3. text \in Seq(F)
      BY <3>1, <3>2, TextIsIn
    <3> QED BY <3>3 DEF text
  <2> HIDE DEF F, T, U
  <2>3. Value(world, x) \in SUBSET Seq(U)
    BY <1>3, <2>1, <2>2
  <2> QED BY <2>3 DEF U, T
<1>6. CASE x.kind = "program"
  <2>1. Value(world, x) \subseteq {<<Literal(p)>> : p \in DOMAIN world.modes}
    BY <1>6 DEF Value
  <2>2. \A p \in DOMAIN world.modes : Literal(p) \in F
    BY DEF FoundIn
  <2> HIDE DEF F
  <2>3. \A p \in DOMAIN world.modes : <<Literal(p)>> \in Seq(F)
    BY <2>2
  <2> HIDE DEF T, U
  <2>4. Value(world, x) \in SUBSET Seq(U)
    <3>1. Value(world, x) \in SUBSET Seq(F)
      BY <2>1, <2>3
    <3> QED BY <1>3, <3>1
  <2> QED BY <2>4 DEF U, T
<1>7. CASE x.kind = "deferred"
  <2>1. Value(world, x) = {<<File(t[1].name)>> : t \in {s \in Lookup(env, x.name) : Len(s) = 1 /\ s[1].kind = "literal"}}
    BY <1>7 DEF Value
  <2> HIDE DEF env
  <2>2. \A t \in Lookup(env, x.name) : Len(t) = 1 => t[1] \in F
    <3> HIDE DEF F
    <3> SUFFICES ASSUME NEW t \in Lookup(env, x.name), Len(t) = 1 PROVE t[1] \in F
      OBVIOUS
    <3>1. t \in Seq(F)
      BY <1>2
    <3> QED BY <3>1
  <2>3. \A y \in F : File(y.name) \in T
    BY DEF TokensIn
  <2> HIDE DEF F, T
  <2>4. \A t \in Lookup(env, x.name) : Len(t) = 1 => <<File(t[1].name)>> \in Seq(U)
    <3>1. \A y \in U : <<y>> \in Seq(U)
      OBVIOUS
    <3> HIDE DEF U
    <3> QED BY <1>1, <2>2, <2>3, <3>1
  <2> HIDE DEF U
  <2>5. Value(world, x) \in SUBSET Seq(U)
    BY <2>1, <2>4
  <2> QED BY <2>5 DEF U, T
<1>8. CASE x.kind \notin Replaced
  <2>1. Value(world, x) = {<<x>>}
    BY <1>8, ValueOfPlain
  <2>2. <<x>> \in Seq(U)
    OBVIOUS
  <2> QED BY <2>1, <2>2
<1> QED BY <1>4, <1>5, <1>6, <1>7, <1>8 DEF Replaced

LEMMA WorldIsClosed ==
  ASSUME NEW world, IsWorld(world), NEW T, TokensIn(world) \subseteq T
  PROVE  Closed(world, T)
<1>1. ASSUME NEW x \in T PROVE Value(world, x) \in SUBSET Seq(T)
  <2> DEFINE U == TokensIn(world) \union {x}
  <2>1. U \subseteq T /\ Value(world, x) \in SUBSET Seq(U)
    BY ValueIsText
  <2> HIDE DEF U
  <2> QED BY <2>1, TextsOfMore
<1>2. 1 \in DOMAIN world.env
  BY DEF IsWorld
<1> QED BY <1>1, <1>2 DEF Closed

\* Template.format gives what a template means, and an exception if it means nothing,
\* whatever the environment and the files; apart from texts that substitution reproduces.
THEOREM FormatIsMeaning ==
  ASSUME NEW world, IsWorld(world), NEW pattern, IsText(pattern)
  PROVE  MeansWhatItSays(world, pattern)
<1> DEFINE T == TokensIn(world) \union Range(pattern)
<1>1. Closed(world, T)
  BY WorldIsClosed
<1>2. pattern \in Seq(T)
  BY TextIsIn
<1> HIDE DEF T
<1> QED BY <1>1, <1>2, FormatInClosed

\* Where another world has plain texts, what meant something still does.
Simpler(old, new, T) ==
  \A x \in T : Value(new, x) = Value(old, x) \/ \E p \in Seq(T) : Plain(p) /\ Value(new, x) = {p}

LEMMA ExpandedSomething ==
  ASSUME NEW T, NEW value, NEW text \in Seq(T)
  PROVE  Expanded(value, text) # {} <=> \A i \in 1..Len(text) : value[text[i]] # {}
<1> DEFINE none == \E i \in 1..Len(text) : value[text[i]] = {}
           one == FlattenSeq([i \in 1..Len(text) |-> CHOOSE t \in value[text[i]] : TRUE])
<1>1. Expanded(value, text) = IF none THEN {} ELSE {one}
  BY ExpandedIs
<1>2. none \/ (\A i \in 1..Len(text) : value[text[i]] # {})
  OBVIOUS
<1>3. ~(none /\ \A i \in 1..Len(text) : value[text[i]] # {})
  OBVIOUS
<1> HIDE DEF none, one
<1> QED BY <1>1, <1>2, <1>3

LEMMA MeaningSurvives ==
  ASSUME NEW old, NEW new, NEW T, Closed(old, T), Closed(new, T), Simpler(old, new, T),
         NEW pattern \in Seq(T), Meaning(old, pattern) # {}
  PROVE  Meaning(new, pattern) # {}
<1> DEFINE Survives(n) == \A x \in T : MeaningIn(old, T, n)[x] # {} => MeaningIn(new, T, n)[x] # {}
           S == {n \in Nat : n <= MaxIterations => Survives(n)}
<1>1. 0 \in S
  <2>1. /\ \A x \in T : MeaningIn(old, T, 0)[x] = IF x.kind \in Replaced THEN {} ELSE {<<x>>}
        /\ \A x \in T : MeaningIn(new, T, 0)[x] = IF x.kind \in Replaced THEN {} ELSE {<<x>>}
    BY MeaningSteps
  <2> QED BY <2>1
<1>2. ASSUME NEW n \in Nat, n \in S PROVE n + 1 \in S
  <2> SUFFICES ASSUME n + 1 <= MaxIterations, NEW x \in T, MeaningIn(old, T, n + 1)[x] # {}
               PROVE  MeaningIn(new, T, n + 1)[x] # {}
    OBVIOUS
  <2> DEFINE was == MeaningIn(old, T, n)
             is == MeaningIn(new, T, n)
  <2>1. n \in 0..MaxIterations /\ n <= MaxIterations
    BY TemplatingAssumption
  <2>2. \A y \in T : was[y] # {} => is[y] # {}
    BY <1>2, <2>1
  <2> HIDE DEF S
  <2>3. was \in Values(T) /\ is \in Values(T)
    BY <2>1, MeaningsAreTexts
  <2>4. /\ MeaningIn(old, T, n + 1)[x] = Unfolded(was, Value(old, x))
        /\ MeaningIn(new, T, n + 1)[x] = Unfolded(is, Value(new, x))
    BY <2>1, <2>3, MeaningSteps
  <2>5. \A p \in Seq(T) : Plain(p) => Expanded(is, p) # {}
    <3> SUFFICES ASSUME NEW p \in Seq(T), Plain(p) PROVE Expanded(is, p) # {}
      OBVIOUS
    <3>1. \A i \in 1..Len(p) : p[i] \in T /\ p[i].kind \notin Replaced
      BY DEF Plain
    <3>2. \A i \in 1..Len(p) : is[p[i]] # {}
      BY <3>1 DEF MeaningIn, Reading
    <3> HIDE DEF is
    <3> QED BY <3>2, ExpandedSomething
  <2> HIDE DEF was, is
  <2>6. PICK v \in Value(old, x) : Expanded(was, v) # {}
    BY <2>4 DEF Unfolded
  <2>7. CASE Value(new, x) = Value(old, x)
    <3>1. v \in Seq(T)
      BY DEF Closed
    <3>2. \A i \in 1..Len(v) : v[i] \in T /\ was[v[i]] # {}
      BY <2>6, <3>1, ExpandedSomething
    <3>3. Expanded(is, v) # {}
      BY <2>2, <3>1, <3>2, ExpandedSomething
    <3> QED BY <2>4, <2>7, <3>3 DEF Unfolded
  <2>8. CASE \E p \in Seq(T) : Plain(p) /\ Value(new, x) = {p}
    BY <2>4, <2>5, <2>8 DEF Unfolded
  <2> QED BY <2>7, <2>8 DEF Simpler
<1> HIDE DEF S
<1>3. Nat \subseteq S
  BY <1>1, <1>2, Induction
<1>4. Survives(MaxIterations)
  BY <1>3, TemplatingAssumption DEF S
<1>5. /\ Meaning(old, pattern) = Expanded(MeaningIn(old, T, MaxIterations), pattern)
      /\ Meaning(new, pattern) = Expanded(MeaningIn(new, T, MaxIterations), pattern)
  BY ReadExpands DEF Meaning
<1>6. \A i \in 1..Len(pattern) : pattern[i] \in T
  OBVIOUS
<1> QED BY <1>4, <1>5, <1>6, ExpandedSomething

\* What means something is expanded.
LEMMA MeaningIsFormatted ==
  ASSUME NEW world, NEW pattern, MeansWhatItSays(world, pattern), Meaning(world, pattern) # {}
  PROVE  Format(world, pattern) # {}
BY DEF MeansWhatItSays
=============================================================================
