------------------------------ MODULE TextProofs ------------------------------
(***************************************************************************)
(* Proofs about StreamedText, for any message, any size of its chunks and  *)
(* any sequence of callbacks: no chunk ends inside a table or a diagram,   *)
(* and the client is given the whole message, each character of it once.   *)
(*                                                                         *)
(* The second follows the characters a reader sees, which are those that   *)
(* are neither line breaks nor marks of a fence.  Each stage leaves their  *)
(* sequence as it was: the repair of reasoning boundaries (AppliedKeeps,   *)
(* SandwichedKeeps), cutting (RawCutting), the repair of fences across     *)
(* messages (RepairedDressed) and the preparation for sending              *)
(* (PreparedKeeps).  So the chunks of a delivery tell what it holds, each  *)
(* character once (SendAll), and as the cursor lands where the last chunk  *)
(* begins (CursorLands), what is not sent yet is what was not told yet     *)
(* (SentInv).                                                              *)
(***************************************************************************)
EXTENDS StreamedText, FiniteSetTheorems, WellFoundedInduction, TLAPS

-----------------------------------------------------------------------------
(* Induction over sets of numbers, and recursive functions *)

\* A set of numbers that is not empty has a smallest one.
LEMMA Smallest ==
    ASSUME NEW T \in SUBSET Nat, T # {}
    PROVE  \E x \in T : \A y \in T : x <= y
<1>1. \E x \in T : \A y \in T : ~ (<<y, x>> \in OpToRel(<, Nat))
  BY WFMin, NatLessThanWellFounded
<1>2. PICK x \in T : \A y \in T : ~ (<<y, x>> \in OpToRel(<, Nat))
  BY <1>1
<1>3. ASSUME NEW y \in T PROVE x <= y
  <2>1. y < x => <<y, x>> \in OpToRel(<, Nat)
    <3>. SUFFICES ASSUME y < x PROVE <<y, x>> \in {p \in Nat \X Nat : p[1] < p[2]}
      BY DEF OpToRel
    <3>. QED  OBVIOUS
  <2>2. ~ (y < x)
    BY <1>2, <2>1
  <2>. QED  BY <2>2, x \in Nat, y \in Nat
<1>. QED  BY <1>3

\* Induction, for a set of numbers instead of a predicate: the form the provers
\* can instantiate.
LEMMA Induction ==
    ASSUME NEW T \in SUBSET Nat, 0 \in T, \A n \in T : n + 1 \in T
    PROVE  T = Nat
<1>1. ASSUME Nat \ T # {} PROVE FALSE
  <2>1. PICK x \in Nat \ T : \A y \in Nat \ T : x <= y
    BY <1>1, Smallest
  <2>2. x # 0 /\ x - 1 \in Nat
    BY <2>1
  <2>3. x - 1 \in T
    BY <2>1, <2>2
  <2>. QED  BY <2>1, <2>2, <2>3
<1>. QED  BY <1>1

\* What a recursive definition demands of a function on 0 .. n: it begins at base,
\* and step[i] leads from its value at i - 1 to that at i.
Runs(S, base, n, step) ==
    {f \in [0 .. n -> S] : f[0] = base /\ \A i \in 1 .. n : f[i] = step[i][f[i - 1]]}

\* There is such a function, so that a function defined by recursion is what its
\* definition says.
LEMMA Recursion ==
    ASSUME NEW S, NEW base \in S, NEW n \in Nat, NEW step \in [1 .. n -> [S -> S]]
    PROVE  Runs(S, base, n, step) # {}
<1>. DEFINE Is(f, k) == f[0] = base /\ \A i \in 1 .. k : f[i] = step[i][f[i - 1]]
            T == {k \in Nat : k <= n => \E f \in [0 .. k -> S] : Is(f, k)}
<1>1. 0 \in T
  <2>1. [i \in 0 .. 0 |-> base] \in [0 .. 0 -> S] /\ Is([i \in 0 .. 0 |-> base], 0)
    OBVIOUS
  <2>. QED  BY <2>1
<1>2. ASSUME NEW k \in T PROVE k + 1 \in T
  <2>. SUFFICES ASSUME k + 1 <= n PROVE \E f \in [0 .. k + 1 -> S] : Is(f, k + 1)
    <3>. HIDE DEF Is
    <3>. QED  OBVIOUS
  <2>1. PICK g \in [0 .. k -> S] : Is(g, k)
    BY k <= n
  <2>. DEFINE f == [i \in 0 .. k + 1 |-> IF i = k + 1 THEN step[k + 1][g[k]] ELSE g[i]]
  <2>2. f \in [0 .. k + 1 -> S]
    BY <2>1
  <2>3. \A i \in 0 .. k : f[i] = g[i]
    OBVIOUS
  <2>4. f[k + 1] = step[k + 1][f[k]]
    <3>1. k \in 0 .. k /\ k + 1 \in 0 .. k + 1
      OBVIOUS
    <3>2. f[k] = g[k]
      BY <2>3, <3>1
    <3>3. f[k + 1] = step[k + 1][g[k]]
      BY <3>1
    <3>. QED  BY <3>2, <3>3
  <2>5. Is(f, k + 1)
    <3>1. f[0] = base
      BY <2>1, <2>3
    <3>2. ASSUME NEW i \in 1 .. k + 1 PROVE f[i] = step[i][f[i - 1]]
      <4>1. CASE i = k + 1
        BY <2>4, <4>1
      <4>2. CASE i # k + 1
        <5>1. i \in 1 .. k /\ i \in 0 .. k /\ i - 1 \in 0 .. k
          BY <4>2
        <5>2. f[i] = g[i] /\ f[i - 1] = g[i - 1] /\ g[i] = step[i][g[i - 1]]
          BY <2>1, <2>3, <5>1
        <5>. QED  BY <5>2
      <4>. QED  BY <4>1, <4>2
    <3>. QED  BY <3>1, <3>2
  <2>. QED  BY <2>2, <2>5
<1>3. n \in T
  BY <1>1, <1>2, Induction
<1>. QED  BY <1>3 DEF Runs

\* f begins in S and never leaves it.
StaysIn(S, n, f) == f[0] \in S /\ \A i \in 1 .. n : f[i - 1] \in S => f[i] \in S

\* Then each of its values is in S.
LEMMA Iterated ==
    ASSUME NEW S, NEW n \in Nat, NEW f, StaysIn(S, n, f)
    PROVE  f[n] \in S /\ \A i \in 0 .. n : f[i] \in S
<1>. DEFINE T == {i \in Nat : i <= n => f[i] \in S}
<1>1. 0 \in T
  BY DEF StaysIn
<1>2. ASSUME NEW i \in T PROVE i + 1 \in T
  <2>. SUFFICES ASSUME i + 1 <= n PROVE f[i + 1] \in S
    OBVIOUS
  <2>1. i + 1 \in 1 .. n /\ (i + 1) - 1 = i /\ f[i] \in S
    OBVIOUS
  <2>. QED  BY <2>1 DEF StaysIn
<1>3. T = Nat
  BY <1>1, <1>2, Induction
<1>. QED  BY <1>3

\* A bounded set of numbers that is not empty has a maximum.
LEMMA Greatest ==
    ASSUME NEW T \in SUBSET Nat, NEW n \in Nat, \A x \in T : x <= n, T # {}
    PROVE  /\ Max(T) \in T /\ \A y \in T : y <= Max(T)
<1>. DEFINE D == {n - x : x \in T}
<1>1. D \in SUBSET Nat /\ D # {}
  <2>1. \A x \in T : n - x \in Nat
    OBVIOUS
  <2>2. PICK x \in T : TRUE
    OBVIOUS
  <2>. QED  BY <2>1, <2>2
<1>2. PICK d \in D : \A y \in D : d <= y
  BY <1>1, Smallest
<1>3. PICK x \in T : d = n - x
  BY <1>2
<1>4. ASSUME NEW y \in T PROVE x >= y
  <2>1. n - x <= n - y
    BY <1>2, <1>3
  <2>. QED  BY <2>1
<1>. QED  BY <1>4 DEF Max

\* A set of numbers that is not empty has a minimum.
LEMMA Least ==
    ASSUME NEW T \in SUBSET Nat, T # {}
    PROVE  Min(T) \in T /\ \A y \in T : Min(T) <= y
BY Smallest DEF Min

\* Induction over the steps of a loop.
LEMMA Steps ==
    ASSUME NEW n \in Nat, NEW T, 0 \in T, \A i \in 1 .. n : i - 1 \in T => i \in T
    PROVE  \A i \in 0 .. n : i \in T
<1>. DEFINE N == {i \in Nat : i <= n => i \in T}
<1>1. 0 \in N
  OBVIOUS
<1>2. ASSUME NEW i \in N PROVE i + 1 \in N
  <2>. SUFFICES ASSUME i + 1 <= n PROVE i + 1 \in T
    OBVIOUS
  <2>1. i + 1 \in 1 .. n /\ (i + 1) - 1 = i /\ i \in T
    OBVIOUS
  <2>. QED  BY <2>1
<1>3. N = Nat
  <2>1. N \in SUBSET Nat
    OBVIOUS
  <2>. HIDE DEF N
  <2>. QED  BY <1>1, <1>2, <2>1, Induction
<1>. QED  BY <1>3

\* Two loops that take the same steps have the same result.
LEMMA SameRun ==
    ASSUME NEW n \in Nat, NEW f, NEW g, f[0] = g[0], \A i \in 1 .. n : f[i - 1] = g[i - 1] => f[i] = g[i]
    PROVE  f[n] = g[n]
<1>. DEFINE T == {i \in 0 .. n : f[i] = g[i]}
<1>1. 0 \in T
  OBVIOUS
<1>2. ASSUME NEW i \in 1 .. n, i - 1 \in T PROVE i \in T
  BY <1>2
<1>3. n \in T
  <2>1. n \in 0 .. n
    OBVIOUS
  <2>. HIDE DEF T
  <2>. QED  BY <1>1, <1>2, <2>1, Steps
<1>. QED  BY <1>3

-----------------------------------------------------------------------------
(* Sequences *)

\* A sequence with one element more.
LEMMA AppendIs ==
    ASSUME NEW C, NEW s \in Seq(C), NEW e \in C
    PROVE  /\ Append(s, e) \in Seq(C) /\ Len(Append(s, e)) = Len(s) + 1
           /\ \A i \in 1 .. Len(s) : Append(s, e)[i] = s[i]
           /\ Append(s, e)[Len(s) + 1] = e
OBVIOUS

\* Sequences are equal if their elements are.
LEMMA SameSeq ==
    ASSUME NEW C, NEW s \in Seq(C), NEW t \in Seq(C), Len(s) = Len(t), \A i \in 1 .. Len(s) : s[i] = t[i]
    PROVE  s = t
OBVIOUS

\* Sequences with the same domain have the same length.
LEMMA SameDomain ==
    ASSUME NEW m \in Nat, NEW n \in Nat, 1 .. m = 1 .. n
    PROVE  m = n
<1>1. CASE m > n
  <2>1. m \in 1 .. m
    BY <1>1
  <2>2. m \in 1 .. n
    BY <2>1
  <2>. QED  BY <1>1, <2>2
<1>2. CASE n > m
  <2>1. n \in 1 .. n
    BY <1>2
  <2>2. n \in 1 .. m
    BY <2>1
  <2>. QED  BY <1>2, <2>2
<1>. QED  BY <1>1, <1>2

\* A sequence behind another.
LEMMA ConcatIs ==
    ASSUME NEW C, NEW s \in Seq(C), NEW t \in Seq(C)
    PROVE  /\ s \o t \in Seq(C) /\ Len(s \o t) = Len(s) + Len(t)
           /\ \A i \in 1 .. Len(s) : (s \o t)[i] = s[i]
           /\ \A i \in 1 .. Len(t) : (s \o t)[Len(s) + i] = t[i]
OBVIOUS

\* A sequence that is not empty is its front and its last element.
LEMMA FrontLast ==
    ASSUME NEW C, NEW s \in Seq(C), s # <<>>
    PROVE  /\ Front(s) \in Seq(C) /\ Last(s) \in C /\ s = Append(Front(s), Last(s))
           /\ Len(Front(s)) = Len(s) - 1 /\ Len(s) \in Nat \ {0} /\ Last(s) = s[Len(s)]
           /\ \A i \in 1 .. Len(s) - 1 : Front(s)[i] = s[i]
<1>. DEFINE t == Front(s)
<1>1. Len(s) \in Nat \ {0} /\ Last(s) = s[Len(s)] /\ Last(s) \in C
  BY DEF Last
<1>2. t \in Seq(C) /\ Len(t) = Len(s) - 1 /\ \A i \in 1 .. Len(s) - 1 : t[i] = s[i]
  <2>1. PICK m \in Nat : m = Len(s) - 1 /\ m <= Len(s)
    BY <1>1
  <2>2. t = SubSeq(s, 1, m)
    BY <2>1 DEF Front
  <2>3. /\ SubSeq(s, 1, m) \in Seq(C) /\ Len(SubSeq(s, 1, m)) = m
        /\ \A i \in 1 .. m : SubSeq(s, 1, m)[i] = s[i]
    BY <2>1
  <2>. HIDE DEF t
  <2>. QED  BY <2>1, <2>2, <2>3
<1>3. s = Append(t, Last(s))
  <2>. HIDE DEF t
  <2>1. PICK e \in C : e = Last(s)
    BY <1>1
  <2>2. /\ Append(t, e) \in Seq(C) /\ Len(Append(t, e)) = Len(t) + 1
        /\ \A i \in 1 .. Len(t) : Append(t, e)[i] = t[i]
        /\ Append(t, e)[Len(t) + 1] = e
    BY <1>2, AppendIs
  <2>3. ASSUME NEW i \in 1 .. Len(s) PROVE s[i] = Append(t, e)[i]
    <3>1. CASE i = Len(s)
      BY <1>1, <1>2, <2>1, <2>2, <3>1
    <3>2. CASE i # Len(s)
      BY <1>1, <1>2, <2>2, <3>2
    <3>. QED  BY <3>1, <3>2
  <2>4. s = Append(t, e)
    BY <1>1, <1>2, <2>2, <2>3, SameSeq
  <2>. QED  BY <2>1, <2>4
<1>. QED  BY <1>1, <1>2, <1>3

\* The first elements of a sequence, and one more.
LEMMA SubSeqGrows ==
    ASSUME NEW C, NEW s \in Seq(C)
    PROVE  /\ SubSeq(s, 1, 0) = <<>> /\ SubSeq(s, 1, Len(s)) = s
           /\ \A i \in 1 .. Len(s) : /\ SubSeq(s, 1, i - 1) \in Seq(C) /\ s[i] \in C
                                     /\ SubSeq(s, 1, i) = Append(SubSeq(s, 1, i - 1), s[i])
<1>1. SubSeq(s, 1, 0) = <<>> /\ SubSeq(s, 1, Len(s)) = s
  OBVIOUS
<1>2. ASSUME NEW i \in 1 .. Len(s)
      PROVE  /\ SubSeq(s, 1, i - 1) \in Seq(C) /\ s[i] \in C
             /\ SubSeq(s, 1, i) = Append(SubSeq(s, 1, i - 1), s[i])
  <2>. DEFINE t == SubSeq(s, 1, i - 1)
              u == SubSeq(s, 1, i)
  <2>1. t \in Seq(C) /\ Len(t) = i - 1 /\ (\A j \in 1 .. i - 1 : t[j] = s[j]) /\ s[i] \in C
    OBVIOUS
  <2>2. u \in Seq(C) /\ Len(u) = i /\ \A j \in 1 .. i : u[j] = s[j]
    OBVIOUS
  <2>. HIDE DEF t, u
  <2>3. PICK e \in C : e = s[i]
    BY <2>1
  <2>4. /\ Append(t, e) \in Seq(C) /\ Len(Append(t, e)) = Len(t) + 1
        /\ \A j \in 1 .. Len(t) : Append(t, e)[j] = t[j]
        /\ Append(t, e)[Len(t) + 1] = e
    BY <2>1, AppendIs
  <2>5. \A j \in 1 .. i : u[j] = Append(t, e)[j]
    <3>. TAKE j \in 1 .. i
    <3>1. CASE j = i
      BY <2>1, <2>2, <2>3, <2>4, <3>1
    <3>2. CASE j # i
      BY <2>1, <2>2, <2>4, <3>2
    <3>. QED  BY <3>1, <3>2
  <2>6. u = Append(t, e)
    BY <2>1, <2>2, <2>4, <2>5, SameSeq
  <2>. QED  BY <2>1, <2>3, <2>6 DEF t, u
<1>. QED  BY <1>1, <1>2

-----------------------------------------------------------------------------
(* Texts *)

Char == [c : Classes, at : Nat]
Text == Seq(Char)

\* The lines of a text are texts, and there is one at least.
LEMMA LinesTyped ==
    ASSUME NEW text \in Text
    PROVE  Lines(text) \in Seq(Text) /\ Lines(text) # <<>>
<1>. DEFINE S == Seq(Text) \ {<<>>}
            n == Len(text)
            base == << <<>> >>
            Put(lines, char) == IF char.c = NL THEN Append(lines, <<>>)
                                ELSE Append(Front(lines), Append(Last(lines), char))
            Eq(g) == g = [i \in 0 .. n |-> IF i = 0 THEN << <<>> >> ELSE Put(g[i - 1], text[i])]
            f == CHOOSE g : Eq(g)
            step == [i \in 1 .. n |-> [s \in S |-> Put(s, text[i])]]
<1>1. n \in Nat /\ base \in S
  BY DEF Text
<1>2. ASSUME NEW s \in S, NEW char \in Char PROVE Put(s, char) \in S
  <2>1. /\ s \in Seq(Text) /\ Len(s) \in Nat \ {0} /\ Last(s) \in Text
        /\ Front(s) \in Seq(Text)
    BY DEF Last, Front
  <2>2. <<>> \in Text /\ Append(Last(s), char) \in Text
    BY <2>1 DEF Text
  <2>3. Append(s, <<>>) \in S /\ Append(Front(s), Append(Last(s), char)) \in S
    BY <2>1, <2>2
  <2>. QED  BY <2>3
<1>3. \A i \in 1 .. n : text[i] \in Char
  BY DEF Text
<1>. HIDE DEF S, Put, base
<1>4. step \in [1 .. n -> [S -> S]]
  BY <1>2, <1>3
<1>5. PICK g \in Runs(S, base, n, step) : TRUE
  <2>. HIDE DEF step, n
  <2>. QED  BY <1>1, <1>4, Recursion
<1>6. Eq(g)
  <2>1. /\ g \in [0 .. n -> S] /\ g[0] = base
        /\ \A i \in 1 .. n : g[i] = step[i][g[i - 1]]
    BY <1>5 DEF Runs
  <2>2. \A i \in 1 .. n : i - 1 \in 0 .. n /\ g[i - 1] \in S
    BY <1>1, <2>1
  <2>3. \A i \in 1 .. n : g[i] = Put(g[i - 1], text[i])
    BY <2>1, <2>2
  <2>. QED  BY <1>1, <2>1, <2>3 DEF base
<1>7. Eq(f)
  <2>. HIDE DEF Eq
  <2>. QED  BY <1>6
<1>8. StaysIn(S, n, f)
  <2>. HIDE DEF f
  <2>. QED  BY <1>1, <1>2, <1>3, <1>7 DEF base, StaysIn
<1>9. f[n] \in S
  <2>. HIDE DEF f, n
  <2>. QED  BY <1>1, <1>8, Iterated
<1>10. Lines(text) = f[n]
  BY DEF Lines, Put
<1>. QED  BY <1>9, <1>10 DEF S

\* The minimum of two numbers is the smaller one.
LEMMA MinOfTwo == \A a, b \in Int : Min({a, b}) = IF a <= b THEN a ELSE b
<1>. TAKE a, b \in Int
<1>. DEFINE m == IF a <= b THEN a ELSE b
<1>1. m \in {a, b} /\ \A y \in {a, b} : m <= y
  OBVIOUS
<1>2. \A x \in {a, b} : (\A y \in {a, b} : x <= y) => x = m
  OBVIOUS
<1>. QED  BY <1>1, <1>2 DEF Min

\* A slice of a text: its length and its characters.
LEMMA SliceTyped ==
    ASSUME NEW C, NEW text \in Seq(C), NEW from \in Nat, NEW to \in Nat
    PROVE  /\ Slice(text, from, to) \in Seq(C)
           /\ Len(Slice(text, from, to)) =
                LET end == IF to <= Len(text) THEN to ELSE Len(text) IN
                IF from <= end THEN end - from ELSE 0
           /\ \A i \in 1 .. Len(Slice(text, from, to)) : Slice(text, from, to)[i] = text[from + i]
<1>. DEFINE end == IF to <= Len(text) THEN to ELSE Len(text)
<1>1. end \in Nat /\ end <= Len(text) /\ Len(text) \in Nat
  OBVIOUS
<1>2. Slice(text, from, to) = SubSeq(text, from + 1, end)
  BY MinOfTwo DEF Slice
<1>. HIDE DEF end
<1>3. SubSeq(text, from + 1, end) \in Seq(C)
  BY <1>1
<1>4. Len(SubSeq(text, from + 1, end)) = IF from <= end THEN end - from ELSE 0
  BY <1>1
<1>5. \A i \in 1 .. Len(SubSeq(text, from + 1, end)) : SubSeq(text, from + 1, end)[i] = text[from + i]
  BY <1>1, <1>4
<1>. QED  BY <1>2, <1>3, <1>4, <1>5 DEF end

\* The rest of a text is a text.
LEMMA RestTyped ==
    ASSUME NEW C, NEW text \in Seq(C), NEW n \in Nat
    PROVE  Rest(text, n) \in Seq(C)
BY SliceTyped DEF Rest

\* A character the code adds is a character.
LEMMA AddedTyped == \A class \in Classes : Added(class) \in Char
BY DEF Added, Char

\* A line ends at the first line break behind its start, or with the text.
LEMMA LineEndIs ==
    ASSUME NEW text \in Text, NEW i \in 1 .. Len(text)
    PROVE  /\ LineEnd(text, i) \in i .. Len(text)
           /\ \A j \in i .. Len(text) : text[j].c = NL => LineEnd(text, i) <= j
           /\ LineEnd(text, i) < Len(text) => text[LineEnd(text, i)].c = NL
<1>. DEFINE N == {j \in Positions(text, NL) : j >= i}
<1>1. N \in SUBSET Nat /\ \A j \in i .. Len(text) : text[j].c = NL => j \in N
  BY DEF Positions, Text
<1>2. \A j \in N : j \in i .. Len(text) /\ text[j].c = NL
  BY DEF Positions, Text
<1>3. LineEnd(text, i) = IF N = {} THEN Len(text) ELSE Min(N)
  BY DEF LineEnd
<1>4. N # {} => Min(N) \in N /\ \A j \in N : Min(N) <= j
  BY <1>1, Least
<1>. HIDE DEF N
<1>5. CASE N = {}
  BY <1>1, <1>3, <1>5 DEF Text
<1>6. CASE N # {}
  BY <1>1, <1>2, <1>3, <1>4, <1>6 DEF Text
<1>. QED  BY <1>5, <1>6

\* The line of an open fence is a text.
LEMMA FenceAtTyped ==
    ASSUME NEW text \in Text, NEW initial \in Text
    PROVE  FenceAt(text, initial) \in Text
<1>. DEFINE fences == FenceLines(text)
            f == Max(fences)
<1>1. fences \in SUBSET Nat /\ \A x \in fences : x \in 1 .. Len(text) /\ x <= Len(text)
  BY DEF FenceLines, LineStarts, Text
<1>2. fences # {} => f \in 1 .. Len(text)
  <2>1. Len(text) \in Nat
    BY DEF Text
  <2>. QED  BY <1>1, <2>1, Greatest
<1>3. fences # {} => LineAt(text, f) \in Text
  <2>. SUFFICES ASSUME fences # {} PROVE LineAt(text, f) \in Text
    OBVIOUS
  <2>. HIDE DEF f
  <2>1. f \in 1 .. Len(text) /\ LineEnd(text, f) \in f .. Len(text)
    BY <1>2, LineEndIs
  <2>2. /\ f - 1 \in Nat /\ LineEnd(text, f) \in Nat /\ LineEnd(text, f) - 1 \in Nat
    BY <2>1 DEF Text
  <2>. QED  BY <2>2, SliceTyped DEF LineAt, Text
<1>4. <<>> \in Text
  BY DEF Text
<1>. QED  BY <1>3, <1>4 DEF FenceAt

\* Lines that are joined make a text.
LEMMA JoinedTyped ==
    ASSUME NEW lines \in Seq(Text)
    PROVE  Joined(lines) \in Text
<1>. DEFINE S == Text
            n == Len(lines)
            base == <<>>
            Put(text, i) == IF i = 1 THEN lines[1] ELSE text \o <<Added(NL)>> \o lines[i]
            Eq(g) == g = [i \in 0 .. n |-> IF i = 0 THEN <<>> ELSE Put(g[i - 1], i)]
            f == CHOOSE g : Eq(g)
            step == [i \in 1 .. n |-> [s \in S |-> Put(s, i)]]
<1>1. n \in Nat /\ base \in S
  BY DEF Text
<1>2. ASSUME NEW s \in S, NEW i \in 1 .. n PROVE Put(s, i) \in S
  <2>1. lines[1] \in Text /\ lines[i] \in Text
    BY <1>1
  <2>2. Added(NL) \in Char
    BY AddedTyped DEF Classes
  <2>. QED  BY <2>1, <2>2 DEF Text
<1>. HIDE DEF S, Put, base
<1>3. step \in [1 .. n -> [S -> S]]
  BY <1>2
<1>4. PICK g \in Runs(S, base, n, step) : TRUE
  <2>. HIDE DEF step, n
  <2>. QED  BY <1>1, <1>3, Recursion
<1>5. Eq(g)
  <2>1. /\ g \in [0 .. n -> S] /\ g[0] = base
        /\ \A i \in 1 .. n : g[i] = step[i][g[i - 1]]
    BY <1>4 DEF Runs
  <2>2. \A i \in 1 .. n : i - 1 \in 0 .. n /\ g[i - 1] \in S
    BY <1>1, <2>1
  <2>3. \A i \in 1 .. n : g[i] = Put(g[i - 1], i)
    BY <2>1, <2>2
  <2>. QED  BY <1>1, <2>1, <2>3 DEF base
<1>6. Eq(f)
  <2>. HIDE DEF Eq
  <2>. QED  BY <1>5
<1>7. StaysIn(S, n, f)
  <2>. HIDE DEF f
  <2>. QED  BY <1>1, <1>2, <1>6 DEF base, StaysIn
<1>8. f[n] \in S
  <2>. HIDE DEF f, n
  <2>. QED  BY <1>1, <1>7, Iterated
<1>9. Joined(lines) = f[n]
  BY DEF Joined, Put
<1>. QED  BY <1>8, <1>9 DEF S

\* The default chunker cuts at an offset.
LEMMA NextCutTyped ==
    ASSUME NEW text \in Text, NEW from \in Nat
    PROVE  NextCut(text, from) \in Nat
<1>. DEFINE breaks == {i \in from + 1 .. from + MaxChars : text[i].c = NL}
<1>1. Len(text) \in Nat /\ MaxChars \in Nat
  BY StreamedConstants DEF Text
<1>2. breaks \in SUBSET Nat /\ \A x \in breaks : x <= from + MaxChars
  BY <1>1
<1>3. breaks # {} => Max(breaks) \in Nat
  <2>. HIDE DEF breaks
  <2>1. from + MaxChars \in Nat
    BY <1>1
  <2>. QED  BY <1>2, <2>1, Greatest
<1>. HIDE DEF breaks
<1>4. NextCut(text, from) = IF Len(text) - from <= MaxChars THEN Len(text)
                            ELSE IF breaks # {} THEN Max(breaks) ELSE from + MaxChars
  BY DEF NextCut, breaks
<1>. QED  BY <1>1, <1>3, <1>4

\* So it does every time.
LEMMA DefaultCutsTyped ==
    ASSUME NEW text \in Text
    PROVE  DefaultCuts(text) \in Seq(Nat)
<1>. DEFINE S == Seq(Nat)
            n == Len(text)
            base == <<>>
            Add(cuts) ==
              LET from == IF cuts = <<>> THEN 0 ELSE Last(cuts) IN
              IF from = Len(text) THEN cuts ELSE Append(cuts, NextCut(text, from))
            Eq(g) == g = [i \in 0 .. n |-> IF i = 0 THEN <<>> ELSE Add(g[i - 1])]
            f == CHOOSE g : Eq(g)
            step == [i \in 1 .. n |-> [s \in S |-> Add(s)]]
<1>1. n \in Nat /\ base \in S
  BY DEF Text
<1>2. ASSUME NEW s \in S PROVE Add(s) \in S
  <2>. DEFINE from == IF s = <<>> THEN 0 ELSE Last(s)
  <2>1. from \in Nat
    BY DEF Last
  <2>2. NextCut(text, from) \in Nat
    BY <2>1, NextCutTyped
  <2>. QED  BY <2>2
<1>. HIDE DEF S, Add, base
<1>3. step \in [1 .. n -> [S -> S]]
  BY <1>2
<1>4. PICK g \in Runs(S, base, n, step) : TRUE
  <2>. HIDE DEF step, n
  <2>. QED  BY <1>1, <1>3, Recursion
<1>5. Eq(g)
  <2>1. /\ g \in [0 .. n -> S] /\ g[0] = base
        /\ \A i \in 1 .. n : g[i] = step[i][g[i - 1]]
    BY <1>4 DEF Runs
  <2>2. \A i \in 1 .. n : i - 1 \in 0 .. n /\ g[i - 1] \in S
    BY <1>1, <2>1
  <2>3. \A i \in 1 .. n : g[i] = Add(g[i - 1])
    BY <2>1, <2>2
  <2>. QED  BY <1>1, <2>1, <2>3 DEF base
<1>6. Eq(f)
  <2>. HIDE DEF Eq
  <2>. QED  BY <1>5
<1>7. StaysIn(S, n, f)
  <2>. HIDE DEF f
  <2>. QED  BY <1>1, <1>2, <1>6 DEF base, StaysIn
<1>8. f[n] \in S
  <2>. HIDE DEF f, n
  <2>. QED  BY <1>1, <1>7, Iterated
<1>9. DefaultCuts(text) = f[n]
  BY DEF DefaultCuts, Add
<1>. QED  BY <1>8, <1>9 DEF S

-----------------------------------------------------------------------------
(* Blocks are apart *)

\* A line ends before the next one starts.
LEMMA StartAfterEnd ==
    ASSUME NEW text \in Text, NEW i \in 1 .. Len(text), NEW j \in LineStarts(text), i < j
    PROVE  LineEnd(text, i) <= j - 1
<1>1. j \in 1 .. Len(text) /\ j - 1 \in i .. Len(text) /\ text[j - 1].c = NL
  BY DEF LineStarts, Text
<1>. QED  BY <1>1, LineEndIs

\* Below a line that is not the last, a line starts.
LEMMA StartBelowEnd ==
    ASSUME NEW text \in Text, NEW i \in 1 .. Len(text), LineEnd(text, i) < Len(text)
    PROVE  LineEnd(text, i) + 1 \in LineStarts(text)
<1>1. LineEnd(text, i) \in i .. Len(text) /\ text[LineEnd(text, i)].c = NL
  BY LineEndIs
<1>2. LineEnd(text, i) + 1 \in DOMAIN text /\ (LineEnd(text, i) + 1) - 1 = LineEnd(text, i)
  BY <1>1 DEF Text
<1>. QED  BY <1>1, <1>2 DEF LineStarts

\* Behind a fence that opens, and up to the next fence, a line is inside it.
LEMMA InsideFence ==
    ASSUME NEW text \in Text, NEW f \in FenceLines(text), ~InFence(text, f),
           NEW i \in Nat, f < i, \A h \in FenceLines(text) : f < h => i <= h
    PROVE  InFence(text, i)
<1>. DEFINE before == {h \in FenceLines(text) : h < f}
<1>1. FenceLines(text) \subseteq 1 .. Len(text) /\ Len(text) \in Nat
  BY DEF FenceLines, LineStarts, Text
<1>2. IsFiniteSet(before) /\ f \notin before
  <2>1. IsFiniteSet(1 .. Len(text)) /\ before \subseteq 1 .. Len(text)
    BY <1>1, FS_Interval
  <2>2. f \notin before
    BY <1>1
  <2>. HIDE DEF before
  <2>. QED  BY <2>1, <2>2, FS_Subset
<1>3. {h \in FenceLines(text) : h < i} = before \cup {f}
  BY <1>1
<1>. HIDE DEF before
<1>4. Cardinality(before \cup {f}) = Cardinality(before) + 1 /\ Cardinality(before) \in Nat
  BY <1>2, FS_AddElement, FS_CardinalityType
<1>5. Cardinality(before) % 2 # 1
  BY DEF InFence, IsOdd, before
<1>6. \A n \in Nat : n % 2 # 1 => (n + 1) % 2 = 1
  OBVIOUS
<1>. QED  BY <1>3, <1>4, <1>5, <1>6 DEF InFence, IsOdd

\* A diagram reaches from a fence that opens to the next fence.
IsDiagram(text, f, g) ==
    /\ f \in FenceLines(text) /\ g \in FenceLines(text) /\ f < g
    /\ ~InFence(text, f)
    /\ \A h \in FenceLines(text) : f < h => g <= h

\* The lines a table is made of
Rows(text) == {i \in LineStarts(text) : text[i].c = Pipe /\ ~InFence(text, i)}

\* A table is a run of two rows or more that goes on neither way.
IsTable(text, p, q) ==
    /\ p \in Rows(text) /\ q \in Rows(text) /\ p < q
    /\ \A k \in LineStarts(text) : k \in p .. q => k \in Rows(text)
    /\ LineEnd(text, q) + 1 \notin Rows(text)
    /\ \A i \in Rows(text) : LineEnd(text, i) + 1 # p

\* Every block is one of the two.
LEMMA BlocksAre ==
    ASSUME NEW text \in Text, NEW b \in AtomicBlocks(text)
    PROVE  \E i, j \in 1 .. Len(text) :
             /\ IsDiagram(text, i, j) \/ IsTable(text, i, j)
             /\ b = [from |-> i - 1, to |-> LineEnd(text, j)]
<1>. DEFINE F == FenceLines(text)
<1>1. F \in SUBSET Nat /\ F \subseteq 1 .. Len(text) /\ Rows(text) \subseteq 1 .. Len(text)
  BY DEF FenceLines, LineStarts, Rows, Text
<1>2. CASE b \in Diagrams(text)
  <2>1. PICK f \in F : /\ ~InFence(text, f) /\ \E h \in F : h > f
                       /\ b = [from |-> f - 1, to |-> LineEnd(text, Min({g \in F : g > f}))]
    BY <1>2 DEF Diagrams
  <2>2. /\ Min({g \in F : g > f}) \in {g \in F : g > f}
        /\ \A h \in {g \in F : g > f} : Min({g \in F : g > f}) <= h
    BY <1>1, <2>1, Least
  <2>. QED  BY <1>1, <2>1, <2>2 DEF IsDiagram
<1>3. CASE b \in Tables(text)
  <2>1. PICK p \in Rows(text) \X Rows(text) :
               /\ p[1] < p[2]
               /\ \A k \in LineStarts(text) : k \in p[1] .. p[2] => k \in Rows(text)
               /\ LineEnd(text, p[2]) + 1 \notin Rows(text)
               /\ \A i \in Rows(text) : LineEnd(text, i) + 1 # p[1]
               /\ b = [from |-> p[1] - 1, to |-> LineEnd(text, p[2])]
    BY <1>3 DEF Tables, Rows
  <2>. QED  BY <1>1, <2>1 DEF IsTable
<1>. QED  BY <1>2, <1>3 DEF AtomicBlocks

\* No diagram begins inside another.
LEMMA DiagramsApart ==
    ASSUME NEW text \in Text, NEW f, NEW g, IsDiagram(text, f, g), NEW i, NEW j, IsDiagram(text, i, j)
    PROVE  (f = i /\ g = j) \/ LineEnd(text, g) <= i - 1 \/ LineEnd(text, j) <= f - 1
<1>1. /\ FenceLines(text) \subseteq LineStarts(text) /\ FenceLines(text) \subseteq 1 .. Len(text)
      /\ FenceLines(text) \subseteq Nat /\ f \in Nat /\ g \in Nat /\ i \in Nat /\ j \in Nat
  BY DEF FenceLines, LineStarts, IsDiagram, Text
<1>2. CASE f = i
  BY <1>1, <1>2 DEF IsDiagram
<1>3. CASE f < i
  <2>1. g < i
    BY <1>1, <1>3, InsideFence DEF IsDiagram
  <2>. QED  BY <1>1, <2>1, StartAfterEnd DEF IsDiagram
<1>4. CASE i < f
  <2>1. j < f
    BY <1>1, <1>4, InsideFence DEF IsDiagram
  <2>. QED  BY <1>1, <2>1, StartAfterEnd DEF IsDiagram
<1>. QED  BY <1>1, <1>2, <1>3, <1>4

\* No table begins inside a diagram: its rows are outside of fences.
LEMMA DiagramAndTableApart ==
    ASSUME NEW text \in Text, NEW f, NEW g, IsDiagram(text, f, g), NEW p, NEW q, IsTable(text, p, q)
    PROVE  LineEnd(text, g) <= p - 1 \/ LineEnd(text, q) <= f - 1
<1>1. /\ FenceLines(text) \subseteq LineStarts(text) /\ LineStarts(text) \subseteq 1 .. Len(text)
      /\ f \in Nat /\ g \in Nat /\ p \in Nat /\ q \in Nat /\ p \in LineStarts(text)
      /\ p \in 1 .. Len(text) /\ q \in 1 .. Len(text) /\ g \in 1 .. Len(text)
  BY DEF FenceLines, LineStarts, IsDiagram, IsTable, Rows, Text
<1>2. \A k \in Rows(text) : k \notin FenceLines(text)
  BY DEF Rows, FenceLines, Fences, Fence, DiagramFence, Pipe
<1>3. CASE p > g
  BY <1>1, <1>3, StartAfterEnd
<1>4. CASE p < f
  <2>1. q < f
    BY <1>1, <1>2, <1>4 DEF IsDiagram, IsTable
  <2>. QED  BY <1>1, <2>1, StartAfterEnd DEF IsDiagram
<1>5. CASE f < p /\ p <= g
  <2>1. \A h \in FenceLines(text) : f < h => p <= h
    BY <1>1, <1>5 DEF IsDiagram
  <2>2. InFence(text, p)
    BY <1>1, <1>5, <2>1, InsideFence DEF IsDiagram
  <2>. QED  BY <2>2 DEF IsTable, Rows
<1>6. p # f
  BY <1>2 DEF IsDiagram, IsTable
<1>. QED  BY <1>1, <1>3, <1>4, <1>5, <1>6

\* No table begins inside another.
LEMMA TablesApart ==
    ASSUME NEW text \in Text, NEW p, NEW q, IsTable(text, p, q), NEW i, NEW j, IsTable(text, i, j),
           p <= i
    PROVE  (p = i /\ q = j) \/ LineEnd(text, q) <= i - 1
<1>1. /\ LineStarts(text) \subseteq 1 .. Len(text) /\ Len(text) \in Nat
      /\ {p, q, i, j} \subseteq LineStarts(text) /\ {p, q, i, j} \subseteq Rows(text)
      /\ p \in Nat /\ q \in Nat /\ i \in Nat /\ j \in Nat
  BY DEF LineStarts, IsTable, Rows, Text
<1>2. ASSUME NEW m \in LineStarts(text), NEW n \in LineStarts(text), m < n
      PROVE  /\ LineEnd(text, m) \in m .. n - 1 /\ LineEnd(text, m) + 1 \in LineStarts(text)
  <2>1. LineEnd(text, m) <= n - 1 /\ LineEnd(text, m) \in m .. Len(text)
    BY <1>1, <1>2, StartAfterEnd, LineEndIs
  <2>2. LineEnd(text, m) < Len(text)
    BY <1>1, <2>1
  <2>3. LineEnd(text, m) + 1 \in LineStarts(text)
    BY <1>1, <2>2, StartBelowEnd
  <2>. QED  BY <1>1, <2>1, <2>3
<1>3. ASSUME NEW m, NEW n, NEW o, IsTable(text, m, n), IsTable(text, m, o), n < o PROVE FALSE
  <2>1. n \in LineStarts(text) /\ o \in LineStarts(text) /\ m \in LineStarts(text) /\ m < n
    BY <1>3 DEF IsTable, Rows
  <2>2. LineEnd(text, n) + 1 \in m .. o /\ LineEnd(text, n) + 1 \in LineStarts(text)
    BY <1>1, <1>2, <1>3, <2>1
  <2>. QED  BY <1>3, <2>2 DEF IsTable
<1>4. CASE p = i
  <2>1. IsTable(text, p, j)
    BY <1>4
  <2>2. ~(q < j) /\ ~(j < q)
    BY <1>3, <2>1
  <2>. QED  BY <1>1, <1>4, <2>2
<1>5. CASE p < i /\ q < i
  BY <1>1, <1>5, StartAfterEnd
<1>6. CASE p < i /\ i <= q
  <2>. DEFINE above == {k \in LineStarts(text) : k < i}
              k == Max(above)
  <2>1. above \in SUBSET Nat /\ p \in above /\ \A x \in above : x <= i
    BY <1>1, <1>6
  <2>2. k \in above /\ \A y \in above : y <= k
    <3>. HIDE DEF above
    <3>. QED  BY <1>1, <2>1, Greatest
  <2>3. k \in LineStarts(text) /\ k < i /\ p <= k /\ \A y \in LineStarts(text) : y < i => y <= k
    BY <2>1, <2>2
  <2>. HIDE DEF k
  <2>4. LineEnd(text, k) \in k .. i - 1 /\ LineEnd(text, k) + 1 \in LineStarts(text)
    BY <1>1, <1>2, <2>3
  <2>5. LineEnd(text, k) + 1 = i
    BY <1>1, <2>3, <2>4
  <2>6. k \in Rows(text)
    BY <1>1, <1>6, <2>3 DEF IsTable
  <2>. QED  BY <2>5, <2>6 DEF IsTable
<1>. QED  BY <1>1, <1>4, <1>5, <1>6

\* Two blocks of a text are the same or do not overlap.
LEMMA BlocksApart ==
    ASSUME NEW text \in Text, NEW b \in AtomicBlocks(text), NEW c \in AtomicBlocks(text)
    PROVE  b = c \/ b.to <= c.from \/ c.to <= b.from
<1>1. PICK i, j \in 1 .. Len(text) : /\ IsDiagram(text, i, j) \/ IsTable(text, i, j)
                                     /\ b = [from |-> i - 1, to |-> LineEnd(text, j)]
  BY BlocksAre
<1>2. PICK p, q \in 1 .. Len(text) : /\ IsDiagram(text, p, q) \/ IsTable(text, p, q)
                                     /\ c = [from |-> p - 1, to |-> LineEnd(text, q)]
  BY BlocksAre
<1>3. \/ (i = p /\ j = q) \/ LineEnd(text, j) <= p - 1 \/ LineEnd(text, q) <= i - 1
  <2>1. i <= p \/ p <= i
    BY DEF Text
  <2>. QED  BY <1>1, <1>2, <2>1, DiagramsApart, DiagramAndTableApart, TablesApart
<1>. QED  BY <1>1, <1>2, <1>3

\* A block is a part of its text.
LEMMA BlockBounds ==
    ASSUME NEW text \in Text, NEW b \in AtomicBlocks(text)
    PROVE  b.from \in Nat /\ b.to \in Nat /\ b.from < b.to /\ b.to <= Len(text)
<1>1. PICK i, j \in 1 .. Len(text) : /\ IsDiagram(text, i, j) \/ IsTable(text, i, j)
                                     /\ b = [from |-> i - 1, to |-> LineEnd(text, j)]
  BY BlocksAre
<1>2. i < j /\ LineEnd(text, j) \in j .. Len(text)
  BY <1>1, LineEndIs DEF IsDiagram, IsTable
<1>. QED  BY <1>1, <1>2 DEF Text

-----------------------------------------------------------------------------
(* Chunks are cut outside of blocks *)

\* The chunks of the default chunker are texts.
LEMMA DefaultChunksTyped ==
    ASSUME NEW text \in Text
    PROVE  /\ DefaultChunks(text) \in Seq(Text)
           /\ Len(DefaultChunks(text)) = Len(DefaultCuts(text))
<1>. DEFINE cuts == DefaultCuts(text)
            From(i) == IF i = 1 THEN 0 ELSE cuts[i - 1]
<1>1. cuts \in Seq(Nat)
  BY DefaultCutsTyped
<1>2. DefaultChunks(text) = [i \in DOMAIN cuts |-> Slice(text, From(i), cuts[i])]
  BY DEF DefaultChunks
<1>. HIDE DEF cuts
<1>3. \A i \in DOMAIN cuts : cuts[i] \in Nat /\ From(i) \in Nat
  BY <1>1
<1>4. \A i \in DOMAIN cuts : Slice(text, From(i), cuts[i]) \in Text
  <2>. HIDE DEF From
  <2>. QED  BY <1>3, SliceTyped DEF Text
<1>. HIDE DEF From
<1>5. DOMAIN cuts = 1 .. Len(cuts) /\ Len(cuts) \in Nat
  BY <1>1
<1>. QED  BY <1>2, <1>4, <1>5 DEF cuts

\* So are the host's, with the fences it adds.
LEMMA HostChunksTyped ==
    ASSUME NEW text \in Text
    PROVE  HostChunks(text) \in Seq(Text)
<1>. DEFINE chunks == DefaultChunks(text)
            opener(i) == IF i = 0 THEN <<>> ELSE FenceAt(Slice(text, 0, DefaultCuts(text)[i]), <<>>)
            Chunk(i) == IF opener(i - 1) # <<>> THEN Opened(opener(i - 1), chunks[i]) ELSE chunks[i]
            Decorated(i) == IF i < Len(chunks) /\ opener(i) # <<>> THEN Closed(Chunk(i)) ELSE Chunk(i)
<1>1. chunks \in Seq(Text) /\ Len(chunks) = Len(DefaultCuts(text)) /\ DefaultCuts(text) \in Seq(Nat)
  BY DefaultChunksTyped, DefaultCutsTyped
<1>2. <<>> \in Text /\ Added(NL) \in Char /\ Added(Fence) \in Char
  BY AddedTyped DEF Text, Classes, Fences
<1>3. ASSUME NEW i \in 0 .. Len(chunks) PROVE opener(i) \in Text
  <2>1. CASE i = 0
    BY <1>2, <2>1
  <2>2. CASE i # 0
    <3>1. DefaultCuts(text)[i] \in Nat
      BY <1>1, <2>2
    <3>2. Slice(text, 0, DefaultCuts(text)[i]) \in Text
      BY <3>1, SliceTyped DEF Text
    <3>. QED  BY <1>2, <2>2, <3>2, FenceAtTyped
  <2>. QED  BY <2>1, <2>2
<1>4. ASSUME NEW i \in 1 .. Len(chunks) PROVE Decorated(i) \in Text
  <2>1. opener(i) \in Text /\ opener(i - 1) \in Text /\ chunks[i] \in Text
    BY <1>1, <1>3
  <2>2. Opened(opener(i - 1), chunks[i]) \in Text
    <3>. HIDE DEF opener, chunks
    <3>. QED  BY <1>2, <2>1 DEF Opened, Text
  <2>3. Chunk(i) \in Text
    BY <2>1, <2>2
  <2>4. Closed(Chunk(i)) \in Text
    <3>. HIDE DEF Chunk
    <3>. QED  BY <1>2, <2>3 DEF Closed, Text
  <2>. HIDE DEF Chunk, opener
  <2>. QED  BY <2>3, <2>4
<1>5. HostChunks(text) = [i \in DOMAIN chunks |-> Decorated(i)]
  BY DEF HostChunks
<1>6. DOMAIN chunks = 1 .. Len(chunks) /\ Len(chunks) \in Nat
  BY <1>1
<1>. HIDE DEF Decorated, chunks
<1>. QED  BY <1>4, <1>5, <1>6

\* The ends of chunks are the sums of their lengths.
LEMMA EndsAre ==
    ASSUME NEW chunks \in Seq(Text)
    PROVE  /\ ChunkEnds(chunks) \in [0 .. Len(chunks) -> Nat]
           /\ ChunkEnds(chunks)[0] = 0
           /\ \A i \in 1 .. Len(chunks) : ChunkEnds(chunks)[i] = ChunkEnds(chunks)[i - 1] + Len(chunks[i])
<1>. DEFINE S == Nat
            n == Len(chunks)
            base == 0
            Put(end, i) == end + Len(chunks[i])
            Eq(g) == g = [i \in 0 .. n |-> IF i = 0 THEN 0 ELSE Put(g[i - 1], i)]
            f == CHOOSE g : Eq(g)
            step == [i \in 1 .. n |-> [s \in S |-> Put(s, i)]]
<1>1. n \in Nat /\ base \in S
  OBVIOUS
<1>2. ASSUME NEW s \in S, NEW i \in 1 .. n PROVE Put(s, i) \in S
  <2>1. Len(chunks[i]) \in Nat
    BY DEF Text
  <2>. QED  BY <2>1
<1>. HIDE DEF S, Put, base
<1>3. step \in [1 .. n -> [S -> S]]
  BY <1>2
<1>4. PICK g \in Runs(S, base, n, step) : TRUE
  <2>. HIDE DEF step, n
  <2>. QED  BY <1>1, <1>3, Recursion
<1>5. Eq(g)
  <2>1. /\ g \in [0 .. n -> S] /\ g[0] = base
        /\ \A i \in 1 .. n : g[i] = step[i][g[i - 1]]
    BY <1>4 DEF Runs
  <2>2. \A i \in 1 .. n : i - 1 \in 0 .. n /\ g[i - 1] \in S
    BY <1>1, <2>1
  <2>3. \A i \in 1 .. n : g[i] = Put(g[i - 1], i)
    BY <2>1, <2>2
  <2>. QED  BY <1>1, <2>1, <2>3 DEF base
<1>6. Eq(f)
  <2>. HIDE DEF Eq
  <2>. QED  BY <1>5
<1>7. StaysIn(S, n, f)
  <2>. HIDE DEF f
  <2>. QED  BY <1>1, <1>2, <1>6 DEF base, StaysIn
<1>8. \A i \in 0 .. n : f[i] \in S
  <2>. HIDE DEF f, n
  <2>. QED  BY <1>1, <1>7, Iterated
<1>9. ChunkEnds(chunks) = f
  BY DEF ChunkEnds, Put
<1>10. \A i \in 1 .. n : f[i] = f[i - 1] + Len(chunks[i])
  <2>. HIDE DEF f
  <2>. QED  BY <1>1, <1>6 DEF Put
<1>11. f[0] = 0 /\ f \in [0 .. n -> Nat]
  <2>. HIDE DEF f
  <2>. QED  BY <1>1, <1>6, <1>8 DEF S
<1>. HIDE DEF f
<1>. QED  BY <1>9, <1>10, <1>11

\* One chunk more leaves the ends of the others alone.
LEMMA EndsGrow ==
    ASSUME NEW chunks \in Seq(Text), NEW piece \in Text
    PROVE  /\ \A j \in 0 .. Len(chunks) : ChunkEnds(Append(chunks, piece))[j] = ChunkEnds(chunks)[j]
           /\ ChunkEnds(Append(chunks, piece))[Len(chunks) + 1] = ChunkEnds(chunks)[Len(chunks)] + Len(piece)
<1>. DEFINE more == Append(chunks, piece)
            T == {j \in Nat : j <= Len(chunks) => ChunkEnds(more)[j] = ChunkEnds(chunks)[j]}
<1>1. /\ more \in Seq(Text) /\ Len(more) = Len(chunks) + 1 /\ Len(chunks) \in Nat
      /\ more[Len(chunks) + 1] = piece /\ \A i \in 1 .. Len(chunks) : more[i] = chunks[i]
  OBVIOUS
<1>. HIDE DEF more
<1>2. 0 \in T
  BY <1>1, EndsAre
<1>3. ASSUME NEW j \in T PROVE j + 1 \in T
  <2>. SUFFICES ASSUME j + 1 <= Len(chunks) PROVE ChunkEnds(more)[j + 1] = ChunkEnds(chunks)[j + 1]
    OBVIOUS
  <2>1. j + 1 \in 1 .. Len(chunks) /\ j + 1 \in 1 .. Len(more) /\ (j + 1) - 1 = j
    BY <1>1
  <2>2. more[j + 1] = chunks[j + 1] /\ ChunkEnds(more)[j] = ChunkEnds(chunks)[j]
    BY <1>1, <2>1
  <2>3. /\ ChunkEnds(more)[j + 1] = ChunkEnds(more)[(j + 1) - 1] + Len(more[j + 1])
        /\ ChunkEnds(chunks)[j + 1] = ChunkEnds(chunks)[(j + 1) - 1] + Len(chunks[j + 1])
    BY <1>1, <2>1, EndsAre
  <2>. QED  BY <2>1, <2>2, <2>3
<1>4. T = Nat
  BY <1>2, <1>3, Induction
<1>5. \A j \in 0 .. Len(chunks) : ChunkEnds(more)[j] = ChunkEnds(chunks)[j]
  BY <1>1, <1>4
<1>6. ChunkEnds(more)[Len(chunks) + 1] = ChunkEnds(more)[Len(chunks)] + Len(piece)
  <2>1. /\ Len(chunks) + 1 \in 1 .. Len(more) /\ (Len(chunks) + 1) - 1 = Len(chunks)
        /\ more[Len(chunks) + 1] = piece
    BY <1>1
  <2>2. ChunkEnds(more)[Len(chunks) + 1]
          = ChunkEnds(more)[(Len(chunks) + 1) - 1] + Len(more[Len(chunks) + 1])
    BY <1>1, <2>1, EndsAre
  <2>. QED  BY <2>1, <2>2
<1>. QED  BY <1>1, <1>5, <1>6 DEF more

\* The adjusted cuts rise, and none of them lies inside a block: a cut that moves to
\* a border of its block never passes the cut before, and meets no other block.
LEMMA AdjustedIs ==
    ASSUME NEW text \in Text, NEW n \in Nat, NEW offsets,
           \A i \in 0 .. n : offsets[i] \in Nat,
           \A i \in 1 .. n : offsets[i - 1] <= offsets[i]
    PROVE  /\ Adjusted(text, offsets, n) \in [0 .. n -> Nat]
           /\ Adjusted(text, offsets, n)[0] = 0
           /\ \A i \in 1 .. n : Adjusted(text, offsets, n)[i - 1] <= Adjusted(text, offsets, n)[i]
           /\ \A i \in 0 .. n : \A b \in AtomicBlocks(text) : ~Cuts(b, Adjusted(text, offsets, n)[i])
<1>. DEFINE S == Nat
            base == 0
            Hit(i) == {b \in AtomicBlocks(text) : Cuts(b, offsets[i])}
            Put(at, i) == IF Hit(i) = {} THEN offsets[i]
                          ELSE CutBeside(CHOOSE b \in Hit(i) : TRUE, offsets[i], at)
            Eq(g) == g = [i \in 0 .. n |-> IF i = 0 THEN 0 ELSE Put(g[i - 1], i)]
            f == CHOOSE g : Eq(g)
            step == [i \in 1 .. n |-> [s \in S |-> Put(s, i)]]
<1>1. n \in Nat /\ base \in S
  OBVIOUS
<1>2. ASSUME NEW s \in S, NEW i \in 1 .. n
      PROVE  \/ Put(s, i) = offsets[i] /\ \A b \in AtomicBlocks(text) : ~Cuts(b, offsets[i])
             \/ \E b \in AtomicBlocks(text) : /\ Cuts(b, offsets[i])
                                              /\ \/ Put(s, i) = b.from /\ b.from > s
                                                 \/ Put(s, i) = b.to
  <2>1. CASE Hit(i) = {}
    BY <2>1
  <2>2. CASE Hit(i) # {}
    <3>. DEFINE b == CHOOSE b \in Hit(i) : TRUE
    <3>1. b \in Hit(i)
      BY <2>2
    <3>2. Put(s, i) = CutBeside(b, offsets[i], s)
      BY <2>2
    <3>3. b \in AtomicBlocks(text) /\ Cuts(b, offsets[i])
      BY <3>1
    <3>. HIDE DEF b, Put, Hit
    <3>. QED  BY <3>2, <3>3 DEF CutBeside
  <2>. QED  BY <2>1, <2>2
<1>3. ASSUME NEW s \in S, NEW i \in 1 .. n PROVE Put(s, i) \in S
  <2>. HIDE DEF Put
  <2>. QED  BY <1>2, BlockBounds
<1>. HIDE DEF S, Put, base
<1>4. step \in [1 .. n -> [S -> S]]
  BY <1>3
<1>5. PICK g \in Runs(S, base, n, step) : TRUE
  <2>. HIDE DEF step
  <2>. QED  BY <1>1, <1>4, Recursion
<1>6. Eq(g)
  <2>1. /\ g \in [0 .. n -> S] /\ g[0] = base
        /\ \A i \in 1 .. n : g[i] = step[i][g[i - 1]]
    BY <1>5 DEF Runs
  <2>2. \A i \in 1 .. n : i - 1 \in 0 .. n /\ g[i - 1] \in S
    BY <1>1, <2>1
  <2>3. \A i \in 1 .. n : g[i] = Put(g[i - 1], i)
    BY <2>1, <2>2
  <2>. QED  BY <1>1, <2>1, <2>3 DEF base
<1>7. Eq(f)
  <2>. HIDE DEF Eq
  <2>. QED  BY <1>6
<1>8. StaysIn(S, n, f)
  <2>. HIDE DEF f
  <2>. QED  BY <1>1, <1>3, <1>7 DEF base, StaysIn
<1>9. \A i \in 0 .. n : f[i] \in S
  <2>. HIDE DEF f
  <2>. QED  BY <1>1, <1>8, Iterated
<1>10. Adjusted(text, offsets, n) = f
  BY DEF Adjusted, Put
<1>11. f[0] = 0 /\ f \in [0 .. n -> Nat] /\ \A i \in 1 .. n : f[i] = Put(f[i - 1], i)
  <2>. HIDE DEF f
  <2>. QED  BY <1>1, <1>7, <1>9 DEF S
<1>. HIDE DEF f
<1>12. ASSUME NEW i \in 1 .. n
       PROVE  \/ f[i] = offsets[i] /\ \A b \in AtomicBlocks(text) : ~Cuts(b, offsets[i])
              \/ \E b \in AtomicBlocks(text) : /\ Cuts(b, offsets[i])
                                               /\ \/ f[i] = b.from /\ b.from > f[i - 1]
                                                  \/ f[i] = b.to
  <2>1. f[i] = Put(f[i - 1], i) /\ i - 1 \in 0 .. n
    BY <1>11
  <2>2. f[i - 1] \in S
    BY <1>9, <2>1
  <2>. QED  BY <1>2, <2>1, <2>2
<1>13. ASSUME NEW i \in 0 .. n, NEW b \in AtomicBlocks(text) PROVE ~Cuts(b, f[i])
  <2>1. CASE i = 0
    BY <1>11, <2>1, BlockBounds DEF Cuts
  <2>2. CASE i # 0
    <3>1. i \in 1 .. n
      BY <2>2
    <3>2. CASE f[i] = offsets[i] /\ \A c \in AtomicBlocks(text) : ~Cuts(c, offsets[i])
      BY <3>2
    <3>3. CASE \E c \in AtomicBlocks(text) : f[i] = c.from \/ f[i] = c.to
      <4>1. PICK c \in AtomicBlocks(text) : f[i] = c.from \/ f[i] = c.to
        BY <3>3
      <4>2. b = c \/ b.to <= c.from \/ c.to <= b.from
        BY BlocksApart
      <4>3. /\ b.from \in Nat /\ b.to \in Nat /\ b.from < b.to
            /\ c.from \in Nat /\ c.to \in Nat /\ c.from < c.to
        BY BlockBounds
      <4>. QED  BY <4>1, <4>2, <4>3 DEF Cuts
    <3>. QED  BY <1>12, <3>1, <3>2, <3>3
  <2>. QED  BY <2>1, <2>2
<1>14. ASSUME NEW i \in 1 .. n PROVE f[i - 1] <= f[i]
  <2>1. /\ i - 1 \in 0 .. n /\ i \in 0 .. n
        /\ f[i - 1] \in Nat /\ f[i] \in Nat /\ offsets[i - 1] \in Nat /\ offsets[i] \in Nat
        /\ offsets[i - 1] <= offsets[i]
    BY <1>11
  <2>2. CASE f[i - 1] <= offsets[i - 1]
    <3>1. CASE f[i] = offsets[i]
      BY <2>1, <2>2, <3>1
    <3>2. CASE \E b \in AtomicBlocks(text) : /\ Cuts(b, offsets[i])
                                             /\ \/ f[i] = b.from /\ b.from > f[i - 1]
                                                \/ f[i] = b.to
      <4>1. PICK b \in AtomicBlocks(text) : /\ Cuts(b, offsets[i])
                                            /\ \/ f[i] = b.from /\ b.from > f[i - 1]
                                               \/ f[i] = b.to
        BY <3>2
      <4>. QED  BY <2>1, <2>2, <4>1 DEF Cuts
    <3>. QED  BY <1>12, <3>1, <3>2
  <2>3. CASE f[i - 1] > offsets[i - 1]
    <3>1. i - 1 \in 1 .. n
      BY <1>11, <2>1, <2>3
    <3>2. PICK a \in AtomicBlocks(text) : Cuts(a, offsets[i - 1]) /\ f[i - 1] \in {a.from, a.to}
      <4>1. f[i - 1] # offsets[i - 1]
        BY <2>1, <2>3
      <4>2. \E a \in AtomicBlocks(text) : Cuts(a, offsets[i - 1]) /\ (f[i - 1] = a.from \/ f[i - 1] = a.to)
        BY <1>12, <3>1, <4>1
      <4>. QED  BY <4>2
    <3>3. a.from \in Nat /\ a.to \in Nat /\ f[i - 1] = a.to /\ a.from < offsets[i - 1]
      BY <2>1, <2>3, <3>2, BlockBounds DEF Cuts
    <3>4. CASE f[i] = offsets[i] /\ \A b \in AtomicBlocks(text) : ~Cuts(b, offsets[i])
      BY <2>1, <3>3, <3>4 DEF Cuts
    <3>5. CASE \E b \in AtomicBlocks(text) : /\ Cuts(b, offsets[i])
                                             /\ \/ f[i] = b.from /\ b.from > f[i - 1]
                                                \/ f[i] = b.to
      <4>1. PICK b \in AtomicBlocks(text) : /\ Cuts(b, offsets[i])
                                            /\ \/ f[i] = b.from /\ b.from > f[i - 1]
                                               \/ f[i] = b.to
        BY <3>5
      <4>2. a = b \/ a.to <= b.from \/ b.to <= a.from
        BY BlocksApart
      <4>3. b.from \in Nat /\ b.to \in Nat /\ b.from < b.to
        BY BlockBounds
      <4>. QED  BY <2>1, <3>3, <4>1, <4>2, <4>3 DEF Cuts
    <3>. QED  BY <1>12, <3>4, <3>5
  <2>. QED  BY <2>1, <2>2, <2>3
<1>. QED  BY <1>10, <1>11, <1>13, <1>14

\* An offset of the text, where one that lies behind its end is the end
Clipped(text, n) == IF n <= Len(text) THEN n ELSE Len(text)

\* A slice ends where the text does.
LEMMA SliceClipped ==
    ASSUME NEW text \in Text, NEW from \in Nat, NEW to \in Nat, from <= to
    PROVE  /\ Slice(text, from, to) = Slice(text, Clipped(text, from), Clipped(text, to))
           /\ Len(Slice(text, from, to)) = Clipped(text, to) - Clipped(text, from)
           /\ Clipped(text, from) \in Nat /\ Clipped(text, to) \in Nat
           /\ Clipped(text, from) <= Clipped(text, to) /\ Clipped(text, to) <= Len(text)
<1>. DEFINE a == Clipped(text, from)
            b == Clipped(text, to)
<1>1. Len(text) \in Nat /\ a \in Nat /\ b \in Nat /\ a <= b /\ b <= Len(text)
  BY DEF Clipped, Text
<1>2. Slice(text, from, to) = SubSeq(text, from + 1, b) /\ Slice(text, a, b) = SubSeq(text, a + 1, b)
  <2>1. Min({to, Len(text)}) = b /\ Min({b, Len(text)}) = b
    BY <1>1, MinOfTwo DEF Clipped
  <2>. QED  BY <2>1 DEF Slice
<1>3. CASE from <= Len(text)
  <2>1. a = from
    BY <1>3 DEF Clipped
  <2>2. Len(Slice(text, from, to)) = b - from
    BY <1>1, <1>3, <2>1, SliceTyped DEF Clipped, Text
  <2>. QED  BY <1>1, <1>2, <2>1, <2>2
<1>4. CASE ~(from <= Len(text))
  <2>1. a = Len(text) /\ b = Len(text)
    BY <1>1, <1>4 DEF Clipped
  <2>2. SubSeq(text, from + 1, b) = <<>> /\ SubSeq(text, a + 1, b) = <<>>
    <3>. HIDE DEF a, b
    <3>. QED  BY <1>1, <1>4, <2>1 DEF Text
  <2>3. Slice(text, from, to) = <<>> /\ Slice(text, a, b) = <<>> /\ Len(<<>>) = 0 /\ b - a = 0
    BY <1>1, <1>2, <2>1, <2>2
  <2>4. Len(Slice(text, from, to)) = b - a
    BY <2>3
  <2>. QED  BY <1>1, <2>3, <2>4
<1>. QED  BY <1>3, <1>4

\* The pieces are what the text holds up to at, one behind the other, and each ends
\* at one of Stops.
Laid(text, pieces, at, Stops) ==
    /\ pieces \in Seq(Text)
    /\ ChunkEnds(pieces)[Len(pieces)] = at
    /\ \A j \in 1 .. Len(pieces) :
         /\ pieces[j] = Slice(text, ChunkEnds(pieces)[j - 1], ChunkEnds(pieces)[j])
         /\ ChunkEnds(pieces)[j] \in Stops

\* The next slice is put behind them; an empty one is left out.
LEMMA PutKeeps ==
    ASSUME NEW text \in Text, NEW pieces, NEW at \in Nat, NEW Stops, NEW to \in Nat,
           Laid(text, pieces, at, Stops), at <= to, to <= Len(text), to \in Stops
    PROVE  LET piece == Slice(text, at, to) IN
           Laid(text, IF piece = <<>> THEN pieces ELSE Append(pieces, piece), to, Stops)
<1>. DEFINE piece == Slice(text, at, to)
<1>1. piece \in Text /\ Len(piece) = to - at /\ (piece = <<>> <=> Len(piece) = 0) /\ Len(text) \in Nat
  <2>1. piece \in Text /\ Len(piece) = to - at /\ Len(text) \in Nat
    BY SliceTyped DEF Text
  <2>. HIDE DEF piece
  <2>. QED  BY <2>1 DEF Text
<1>2. pieces \in Seq(Text) /\ Len(pieces) \in Nat
  BY DEF Laid
<1>. HIDE DEF piece
<1>3. CASE piece = <<>>
  <2>1. to = at
    BY <1>1, <1>3
  <2>. QED  BY <1>3, <2>1 DEF piece
<1>4. CASE piece # <<>>
  <2>. DEFINE more == Append(pieces, piece)
              n == Len(pieces)
  <2>1. /\ more \in Seq(Text) /\ Len(more) = n + 1 /\ more[n + 1] = piece
        /\ \A j \in 1 .. n : more[j] = pieces[j]
    BY <1>1, <1>2
  <2>2. /\ \A j \in 0 .. n : ChunkEnds(more)[j] = ChunkEnds(pieces)[j]
        /\ ChunkEnds(more)[n + 1] = ChunkEnds(pieces)[n] + Len(piece)
    BY <1>1, <1>2, EndsGrow
  <2>. HIDE DEF more
  <2>3. ChunkEnds(more)[n] = at /\ ChunkEnds(more)[n + 1] = to
    BY <1>1, <1>2, <2>2 DEF Laid
  <2>4. ASSUME NEW j \in 1 .. n + 1
        PROVE  /\ more[j] = Slice(text, ChunkEnds(more)[j - 1], ChunkEnds(more)[j])
               /\ ChunkEnds(more)[j] \in Stops
    <3>1. CASE j = n + 1
      <4>1. j - 1 = n
        BY <1>2, <3>1
      <4>. QED  BY <2>1, <2>3, <3>1, <4>1 DEF piece
    <3>2. CASE j # n + 1
      <4>1. j \in 1 .. n /\ j \in 0 .. n /\ j - 1 \in 0 .. n
        BY <1>2, <3>2
      <4>2. /\ more[j] = pieces[j] /\ ChunkEnds(more)[j] = ChunkEnds(pieces)[j]
            /\ ChunkEnds(more)[j - 1] = ChunkEnds(pieces)[j - 1]
        BY <2>1, <2>2, <4>1
      <4>. QED  BY <4>1, <4>2 DEF Laid
    <3>. QED  BY <3>1, <3>2
  <2>5. Laid(text, more, to, Stops)
    BY <2>1, <2>3, <2>4 DEF Laid
  <2>. QED  BY <1>4, <2>5 DEF more, piece
<1>. QED  BY <1>3, <1>4

\* The pieces that rising cuts leave are the whole text.
LEMMA PiecesAre ==
    ASSUME NEW text \in Text, NEW n \in Nat, NEW cuts \in [0 .. n -> Nat], cuts[0] = 0,
           \A i \in 1 .. n : cuts[i - 1] <= cuts[i]
    PROVE  Laid(text, Pieces(text, cuts, n), Len(text),
                {Clipped(text, cuts[i]) : i \in 0 .. n} \cup {Len(text)})
<1>. DEFINE S == Seq(Text)
            base == <<>>
            Add(pieces, piece) == IF piece = <<>> THEN pieces ELSE Append(pieces, piece)
            Put(pieces, i) == Add(pieces, Slice(text, cuts[i - 1], cuts[i]))
            Eq(g) == g = [i \in 0 .. n |-> IF i = 0 THEN <<>> ELSE Put(g[i - 1], i)]
            f == CHOOSE g : Eq(g)
            step == [i \in 1 .. n |-> [s \in S |-> Put(s, i)]]
            Stops == {Clipped(text, cuts[i]) : i \in 0 .. n} \cup {Len(text)}
            T == {i \in Nat : i <= n => Laid(text, f[i], Clipped(text, cuts[i]), Stops)}
<1>1. n \in Nat /\ base \in S
  OBVIOUS
<1>2. ASSUME NEW s \in S, NEW i \in 1 .. n PROVE Put(s, i) \in S
  <2>1. i \in 0 .. n /\ i - 1 \in 0 .. n
    OBVIOUS
  <2>2. cuts[i - 1] \in Nat /\ cuts[i] \in Nat
    BY <2>1
  <2>3. Slice(text, cuts[i - 1], cuts[i]) \in Text
    BY <2>2, SliceTyped DEF Text
  <2>. QED  BY <2>3
<1>. HIDE DEF S, Put, base
<1>3. step \in [1 .. n -> [S -> S]]
  BY <1>2
<1>4. PICK g \in Runs(S, base, n, step) : TRUE
  <2>. HIDE DEF step
  <2>. QED  BY <1>1, <1>3, Recursion
<1>5. Eq(g)
  <2>1. /\ g \in [0 .. n -> S] /\ g[0] = base
        /\ \A i \in 1 .. n : g[i] = step[i][g[i - 1]]
    BY <1>4 DEF Runs
  <2>2. \A i \in 1 .. n : i - 1 \in 0 .. n /\ g[i - 1] \in S
    BY <1>1, <2>1
  <2>3. \A i \in 1 .. n : g[i] = Put(g[i - 1], i)
    BY <2>1, <2>2
  <2>. QED  BY <1>1, <2>1, <2>3 DEF base
<1>6. Eq(f)
  <2>. HIDE DEF Eq
  <2>. QED  BY <1>5
<1>7. Pieces(text, cuts, n) = Add(f[n], Rest(text, cuts[n]))
  BY DEF Pieces, Put
<1>8. f[0] = <<>> /\ \A i \in 1 .. n : f[i] = Put(f[i - 1], i)
  <2>. HIDE DEF f, T, Stops
  <2>1. f[0] = <<>>
    BY <1>1, <1>6
  <2>2. ASSUME NEW i \in 1 .. n PROVE f[i] = Put(f[i - 1], i)
    <3>1. i \in 0 .. n /\ i # 0
      OBVIOUS
    <3>. QED  BY <1>6, <3>1
  <2>. QED  BY <2>1, <2>2
<1>. HIDE DEF f
<1>9. Clipped(text, 0) = 0 /\ Len(text) \in Nat
  BY DEF Clipped, Text
<1>10. 0 \in T
  <2>1. <<>> \in Seq(Text) /\ Len(<<>>) = 0 /\ ChunkEnds(<<>>)[0] = 0
    BY EndsAre
  <2>2. Laid(text, <<>>, 0, Stops)
    BY <2>1 DEF Laid
  <2>. QED  BY <1>8, <1>9, <2>2
<1>11. ASSUME NEW i \in T PROVE i + 1 \in T
  <2>. SUFFICES ASSUME i + 1 <= n PROVE Laid(text, f[i + 1], Clipped(text, cuts[i + 1]), Stops)
    OBVIOUS
  <2>1. /\ i + 1 \in 1 .. n /\ i + 1 \in 0 .. n /\ i \in 0 .. n /\ (i + 1) - 1 = i
        /\ cuts[i] \in Nat /\ cuts[i + 1] \in Nat /\ cuts[i] <= cuts[i + 1]
    OBVIOUS
  <2>2. Laid(text, f[i], Clipped(text, cuts[i]), Stops)
    OBVIOUS
  <2>3. f[i + 1] = Add(f[i], Slice(text, cuts[i], cuts[i + 1]))
    BY <1>8, <2>1 DEF Put
  <2>4. /\ Slice(text, cuts[i], cuts[i + 1])
             = Slice(text, Clipped(text, cuts[i]), Clipped(text, cuts[i + 1]))
        /\ Clipped(text, cuts[i]) \in Nat /\ Clipped(text, cuts[i + 1]) \in Nat
        /\ Clipped(text, cuts[i]) <= Clipped(text, cuts[i + 1])
        /\ Clipped(text, cuts[i + 1]) <= Len(text)
    BY <2>1, SliceClipped
  <2>5. Clipped(text, cuts[i + 1]) \in Stops
    BY <2>1
  <2>. HIDE DEF Stops
  <2>. QED  BY <2>2, <2>3, <2>4, <2>5, PutKeeps
<1>12. n \in T
  <2>1. T \in SUBSET Nat
    OBVIOUS
  <2>. HIDE DEF T
  <2>2. T = Nat
    BY <1>10, <1>11, <2>1, Induction
  <2>. QED  BY <2>2
<1>13. Laid(text, f[n], Clipped(text, cuts[n]), Stops)
  BY <1>12
<1>14. /\ Rest(text, cuts[n]) = Slice(text, Clipped(text, cuts[n]), Len(text))
       /\ Clipped(text, cuts[n]) \in Nat /\ Clipped(text, cuts[n]) <= Len(text)
  <2>1. cuts[n] \in Nat /\ n \in 0 .. n
    OBVIOUS
  <2>2. CASE cuts[n] <= Len(text)
    BY <1>9, <2>1, <2>2 DEF Clipped, Rest
  <2>3. CASE ~(cuts[n] <= Len(text))
    <3>1. Clipped(text, cuts[n]) = Len(text)
      BY <2>3 DEF Clipped
    <3>2. \A m \in Nat : m >= Len(text) => Slice(text, m, Len(text)) = <<>>
      <4>. TAKE m \in Nat
      <4>. HAVE m >= Len(text)
      <4>1. Slice(text, m, Len(text)) \in Seq(Char) /\ Len(Slice(text, m, Len(text))) = 0
        BY <1>9, SliceTyped DEF Text
      <4>. QED  BY <4>1
    <3>. QED  BY <1>9, <2>1, <2>3, <3>1, <3>2 DEF Rest
  <2>. QED  BY <2>2, <2>3
<1>15. Len(text) \in Stops
  OBVIOUS
<1>. HIDE DEF Stops
<1>16. Laid(text, Add(f[n], Slice(text, Clipped(text, cuts[n]), Len(text))), Len(text), Stops)
  <2>. DEFINE at == Clipped(text, cuts[n])
  <2>1. at \in Nat /\ at <= Len(text) /\ Len(text) \in Nat /\ Laid(text, f[n], at, Stops)
    BY <1>9, <1>13, <1>14
  <2>. HIDE DEF at
  <2>2. Len(text) <= Len(text)
    BY <2>1
  <2>3. Laid(text, IF Slice(text, at, Len(text)) = <<>> THEN f[n]
                   ELSE Append(f[n], Slice(text, at, Len(text))), Len(text), Stops)
    BY <1>15, <2>1, <2>2, PutKeeps
  <2>. QED  BY <2>3 DEF at
<1>. QED  BY <1>7, <1>14, <1>16 DEF Stops

\* The chunker that knows of blocks lays the text out in pieces, cut outside of them.
LEMMA ChunkAwareLaid ==
    ASSUME NEW text \in Text, NEW raw \in Seq(Text), AtomicBlocks(text) # {}, ~(Len(raw) - 1 <= 0)
    PROVE  \E Stops : /\ Laid(text, ChunkAware(text, raw), Len(text), Stops)
                      /\ \A e \in Stops : e \in 0 .. Len(text) /\ \A b \in AtomicBlocks(text) : ~Cuts(b, e)
<1>. DEFINE n == Len(raw) - 1
            offsets == ChunkEnds(raw)
            cuts == Adjusted(text, offsets, n)
            chunks == ChunkAware(text, raw)
            Stops == {Clipped(text, cuts[i]) : i \in 0 .. n} \cup {Len(text)}
<1>1. n \in Nat /\ n > 0 /\ chunks = Pieces(text, cuts, n)
  BY DEF ChunkAware
<1>. HIDE DEF chunks
<1>2. /\ \A i \in 0 .. n : offsets[i] \in Nat
      /\ \A i \in 1 .. n : offsets[i - 1] <= offsets[i]
  <2>1. /\ offsets \in [0 .. Len(raw) -> Nat]
        /\ \A i \in 1 .. Len(raw) : offsets[i] = offsets[i - 1] + Len(raw[i])
    BY EndsAre
  <2>2. \A i \in 1 .. n : /\ i \in 1 .. Len(raw) /\ i - 1 \in 0 .. Len(raw)
                          /\ Len(raw[i]) \in Nat
    BY <1>1 DEF Text
  <2>3. \A i \in 0 .. n : i \in 0 .. Len(raw)
    BY <1>1
  <2>. HIDE DEF offsets, n
  <2>4. \A i \in 0 .. n : offsets[i] \in Nat
    BY <2>1, <2>3
  <2>5. ASSUME NEW i \in 1 .. n PROVE offsets[i - 1] <= offsets[i]
    <3>1. offsets[i - 1] \in Nat /\ offsets[i] = offsets[i - 1] + Len(raw[i])
      BY <2>1, <2>2
    <3>. QED  BY <2>2, <3>1
  <2>. QED  BY <2>4, <2>5
<1>. HIDE DEF n, offsets
<1>3. /\ cuts \in [0 .. n -> Nat] /\ cuts[0] = 0
      /\ \A i \in 1 .. n : cuts[i - 1] <= cuts[i]
      /\ \A i \in 0 .. n : \A b \in AtomicBlocks(text) : ~Cuts(b, cuts[i])
  BY <1>1, <1>2, AdjustedIs
<1>. HIDE DEF cuts
<1>4. Laid(text, chunks, Len(text), Stops)
  BY <1>1, <1>3, PiecesAre
<1>5. ASSUME NEW e \in Stops PROVE e \in 0 .. Len(text) /\ \A b \in AtomicBlocks(text) : ~Cuts(b, e)
  <2>1. /\ Len(text) \in Nat
        /\ \A b \in AtomicBlocks(text) : b.from \in Nat /\ b.to \in Nat /\ b.to <= Len(text)
    BY BlockBounds DEF Text
  <2>2. CASE e = Len(text)
    BY <2>1, <2>2 DEF Cuts
  <2>3. ASSUME NEW i \in 0 .. n, e = Clipped(text, cuts[i])
        PROVE  e \in 0 .. Len(text) /\ \A b \in AtomicBlocks(text) : ~Cuts(b, e)
    <3>1. cuts[i] \in Nat /\ \A b \in AtomicBlocks(text) : ~Cuts(b, cuts[i])
      BY <1>3
    <3>2. CASE cuts[i] <= Len(text)
      BY <2>1, <2>3, <3>1, <3>2 DEF Clipped
    <3>3. CASE ~(cuts[i] <= Len(text))
      BY <2>1, <2>3, <3>3 DEF Clipped, Cuts
    <3>. QED  BY <3>2, <3>3
  <2>. QED  BY <2>2, <2>3
<1>. HIDE DEF Stops
<1>. QED  BY <1>4, <1>5 DEF chunks

\* Whatever chunks the host's chunker makes of a text that has blocks, those that
\* are sent are the text itself, cut outside of its blocks.
LEMMA ChunkAwareKeeps ==
    ASSUME NEW text \in Text, NEW raw \in Seq(Text), AtomicBlocks(text) # {},
           Len(ChunkAware(text, raw)) > 1
    PROVE  LET chunks == ChunkAware(text, raw)
               end == ChunkEnds(chunks)
           IN  /\ chunks \in Seq(Text)
               /\ end[Len(chunks)] = Len(text)
               /\ \A i \in DOMAIN chunks :
                    /\ chunks[i] = Slice(text, end[i - 1], end[i])
                    /\ \A b \in AtomicBlocks(text) : ~Cuts(b, end[i])
<1>. DEFINE chunks == ChunkAware(text, raw)
<1>1. ~(Len(raw) - 1 <= 0)
  BY DEF ChunkAware
<1>2. PICK Stops : /\ Laid(text, chunks, Len(text), Stops)
                   /\ \A e \in Stops : e \in 0 .. Len(text) /\ \A b \in AtomicBlocks(text) : ~Cuts(b, e)
  BY <1>1, ChunkAwareLaid
<1>. HIDE DEF chunks
<1>3. DOMAIN chunks = 1 .. Len(chunks)
  BY <1>2 DEF Laid
<1>. QED  BY <1>2, <1>3 DEF Laid, chunks

-----------------------------------------------------------------------------
(* What a reader sees of a text *)

\* Neither a line break nor a fence
IsBare(char) == char.c \notin {NL} \cup Fences

\* What one character adds to that
BareOf(char) == IF IsBare(char) THEN <<char.at>> ELSE <<>>

\* Where the other characters of a text stem from, in their order
Bare(text) ==
    LET bare[i \in 0 .. Len(text)] == IF i = 0 THEN <<>> ELSE bare[i - 1] \o BareOf(text[i])
    IN  bare[Len(text)]

\* Induction over texts.
LEMMA TextInduction ==
    ASSUME NEW C, NEW T \in SUBSET Seq(C), <<>> \in T,
           \A text \in T, char \in C : Append(text, char) \in T
    PROVE  T = Seq(C)
<1>. DEFINE N == {n \in Nat : \A text \in Seq(C) : Len(text) = n => text \in T}
<1>1. 0 \in N
  OBVIOUS
<1>2. ASSUME NEW n \in N PROVE n + 1 \in N
  <2>. SUFFICES ASSUME NEW text \in Seq(C), Len(text) = n + 1 PROVE text \in T
    OBVIOUS
  <2>. DEFINE front == SubSeq(text, 1, n)
  <2>1. n \in Nat /\ text[n + 1] \in C
    OBVIOUS
  <2>2. front \in Seq(C) /\ Len(front) = n /\ \A i \in 1 .. n : front[i] = text[i]
    BY <2>1
  <2>3. text = Append(front, text[n + 1])
    <3>. HIDE DEF front
    <3>1. /\ Append(front, text[n + 1]) \in Seq(C) /\ Len(Append(front, text[n + 1])) = n + 1
          /\ \A i \in 1 .. n : Append(front, text[n + 1])[i] = text[i]
          /\ Append(front, text[n + 1])[n + 1] = text[n + 1]
      <4>1. PICK e \in C : e = text[n + 1]
        BY <2>1
      <4>2. /\ Append(front, e) \in Seq(C) /\ Len(Append(front, e)) = Len(front) + 1
            /\ \A i \in 1 .. Len(front) : Append(front, e)[i] = front[i]
            /\ Append(front, e)[Len(front) + 1] = e
        BY <2>2, AppendIs
      <4>. QED  BY <2>2, <4>1, <4>2
    <3>. QED  BY <2>1, <3>1, SameSeq
  <2>4. front \in T
    BY <2>1, <2>2
  <2>. HIDE DEF front
  <2>. QED  BY <2>1, <2>3, <2>4
<1>3. N = Nat
  <2>. HIDE DEF N
  <2>1. N \in SUBSET Nat
    BY DEF N
  <2>. QED  BY <1>1, <1>2, <2>1, Induction
<1>4. ASSUME NEW text \in Seq(C) PROVE text \in T
  <2>1. Len(text) \in N
    BY <1>3
  <2>. QED  BY <2>1
<1>. QED  BY <1>4

\* Of a character, one number at most.
LEMMA BareOfTyped == \A char \in Char : BareOf(char) \in Seq(Nat)
BY DEF BareOf, Char

\* Bare as a recursive function.
LEMMA BareRuns ==
    ASSUME NEW text \in Text
    PROVE  \E f : /\ f[0] = <<>> /\ \A i \in 1 .. Len(text) : f[i] = f[i - 1] \o BareOf(text[i])
                  /\ \A i \in 0 .. Len(text) : f[i] \in Seq(Nat)
                  /\ Bare(text) = f[Len(text)]
<1>. DEFINE S == Seq(Nat)
            n == Len(text)
            base == <<>>
            Put(bare, i) == bare \o BareOf(text[i])
            Eq(g) == g = [i \in 0 .. n |-> IF i = 0 THEN <<>> ELSE Put(g[i - 1], i)]
            f == CHOOSE g : Eq(g)
            step == [i \in 1 .. n |-> [s \in S |-> Put(s, i)]]
<1>1. n \in Nat /\ base \in S
  BY DEF Text
<1>2. ASSUME NEW s \in S, NEW i \in 1 .. n PROVE Put(s, i) \in S
  <2>1. text[i] \in Char
    BY DEF Text
  <2>2. BareOf(text[i]) \in Seq(Nat)
    <3>. HIDE DEF n
    <3>. QED  BY <2>1, BareOfTyped
  <2>. QED  BY <2>2
<1>. HIDE DEF S, Put, base
<1>3. step \in [1 .. n -> [S -> S]]
  BY <1>2
<1>4. PICK g \in Runs(S, base, n, step) : TRUE
  <2>. HIDE DEF step, n
  <2>. QED  BY <1>1, <1>3, Recursion
<1>5. Eq(g)
  <2>1. /\ g \in [0 .. n -> S] /\ g[0] = base
        /\ \A i \in 1 .. n : g[i] = step[i][g[i - 1]]
    BY <1>4 DEF Runs
  <2>2. \A i \in 1 .. n : i - 1 \in 0 .. n /\ g[i - 1] \in S
    BY <1>1, <2>1
  <2>3. \A i \in 1 .. n : g[i] = Put(g[i - 1], i)
    BY <2>1, <2>2
  <2>. QED  BY <1>1, <2>1, <2>3 DEF base
<1>6. Eq(f)
  <2>. HIDE DEF Eq
  <2>. QED  BY <1>5
<1>7. StaysIn(S, n, f)
  <2>. HIDE DEF f
  <2>. QED  BY <1>1, <1>2, <1>6 DEF base, StaysIn
<1>8. \A i \in 0 .. n : f[i] \in S
  <2>. HIDE DEF f, n
  <2>. QED  BY <1>1, <1>7, Iterated
<1>9. Bare(text) = f[n]
  BY DEF Bare, Put
<1>10. f[0] = <<>>
  <2>. HIDE DEF f
  <2>. QED  BY <1>1, <1>6
<1>11. ASSUME NEW i \in 1 .. n PROVE f[i] = f[i - 1] \o BareOf(text[i])
  <2>. HIDE DEF f
  <2>1. i \in 0 .. n /\ i # 0
    BY <1>1
  <2>. QED  BY <1>6, <2>1 DEF Put
<1>. HIDE DEF f
<1>. QED  BY <1>8, <1>9, <1>10, <1>11 DEF S

\* Bare of an empty text and of a text with one character more.
LEMMA BareGrows ==
    /\ Bare(<<>>) = <<>>
    /\ \A text \in Text : Bare(text) \in Seq(Nat)
    /\ \A text \in Text, char \in Char : Bare(Append(text, char)) = Bare(text) \o BareOf(char)
<1>1. Bare(<<>>) = <<>>
  <2>1. <<>> \in Text /\ Len(<<>>) = 0
    BY DEF Text
  <2>. QED  BY <2>1, BareRuns
<1>2. ASSUME NEW text \in Text PROVE Bare(text) \in Seq(Nat)
  <2>1. Len(text) \in 0 .. Len(text)
    BY DEF Text
  <2>. QED  BY <2>1, BareRuns
<1>3. ASSUME NEW text \in Text, NEW char \in Char
      PROVE  Bare(Append(text, char)) = Bare(text) \o BareOf(char)
  <2>. DEFINE more == Append(text, char)
              n == Len(text)
  <2>1. /\ n \in Nat /\ more \in Text /\ Len(more) = n + 1 /\ more[n + 1] = char
        /\ \A i \in 1 .. n : more[i] = text[i]
    BY DEF Text
  <2>. HIDE DEF more
  <2>2. PICK f : /\ f[0] = <<>> /\ \A i \in 1 .. n : f[i] = f[i - 1] \o BareOf(text[i])
                 /\ Bare(text) = f[n]
    BY BareRuns
  <2>3. PICK g : /\ g[0] = <<>> /\ \A i \in 1 .. n + 1 : g[i] = g[i - 1] \o BareOf(more[i])
                 /\ Bare(more) = g[n + 1]
    BY <2>1, BareRuns
  <2>. DEFINE T == {i \in Nat : i <= n => f[i] = g[i]}
  <2>4. 0 \in T
    BY <2>2, <2>3
  <2>5. ASSUME NEW i \in T PROVE i + 1 \in T
    <3>. SUFFICES ASSUME i + 1 <= n PROVE f[i + 1] = g[i + 1]
      OBVIOUS
    <3>1. i + 1 \in 1 .. n /\ i + 1 \in 1 .. n + 1 /\ (i + 1) - 1 = i /\ f[i] = g[i]
      BY <2>1
    <3>2. f[i + 1] = f[(i + 1) - 1] \o BareOf(text[i + 1]) /\ g[i + 1] = g[(i + 1) - 1] \o BareOf(more[i + 1])
      BY <2>2, <2>3, <3>1
    <3>. QED  BY <2>1, <3>1, <3>2
  <2>6. n \in T
    <3>1. T \in SUBSET Nat
      OBVIOUS
    <3>. HIDE DEF T
    <3>. QED  BY <2>1, <2>4, <2>5, <3>1, Induction
  <2>7. n + 1 \in 1 .. n + 1 /\ (n + 1) - 1 = n /\ f[n] = g[n]
    BY <2>1, <2>6
  <2>8. g[n + 1] = g[(n + 1) - 1] \o BareOf(more[n + 1])
    BY <2>3, <2>7
  <2>. QED  BY <2>1, <2>2, <2>3, <2>7, <2>8 DEF more
<1>. QED  BY <1>1, <1>2, <1>3

\* The bare characters of one text behind another are those of both.
LEMMA BareConcat ==
    ASSUME NEW a \in Text, NEW b \in Text
    PROVE  Bare(a \o b) = Bare(a) \o Bare(b)
<1>. DEFINE T == {t \in Text : Bare(a \o t) = Bare(a) \o Bare(t)}
<1>1. <<>> \in T
  <2>1. a \o <<>> = a /\ <<>> \in Text
    BY DEF Text
  <2>2. Bare(a) \in Seq(Nat) /\ Bare(<<>>) = <<>>
    BY BareGrows
  <2>. QED  BY <2>1, <2>2
<1>2. ASSUME NEW t \in T, NEW char \in Char PROVE Append(t, char) \in T
  <2>1. /\ Append(t, char) \in Text /\ a \o t \in Text
        /\ a \o Append(t, char) = Append(a \o t, char)
    BY DEF Text
  <2>2. /\ Bare(a \o Append(t, char)) = Bare(a \o t) \o BareOf(char)
        /\ Bare(Append(t, char)) = Bare(t) \o BareOf(char)
    BY <2>1, BareGrows
  <2>3. Bare(a) \in Seq(Nat) /\ Bare(t) \in Seq(Nat) /\ BareOf(char) \in Seq(Nat)
    BY BareGrows, BareOfTyped
  <2>4. (Bare(a) \o Bare(t)) \o BareOf(char) = Bare(a) \o (Bare(t) \o BareOf(char))
    BY <2>3
  <2>. QED  BY <2>1, <2>2, <2>4
<1>3. T = Text
  <2>1. T \in SUBSET Seq(Char) /\ Text = Seq(Char)
    BY DEF Text
  <2>. HIDE DEF T
  <2>. QED  BY <1>1, <1>2, <2>1, TextInduction
<1>. QED  BY <1>3

\* A text without bare characters.
LEMMA BareNothing ==
    ASSUME NEW text \in Text, \A i \in DOMAIN text : ~IsBare(text[i])
    PROVE  Bare(text) = <<>>
<1>. DEFINE T == {t \in Text : (\A i \in DOMAIN t : ~IsBare(t[i])) => Bare(t) = <<>>}
<1>1. <<>> \in T
  BY BareGrows DEF Text
<1>2. ASSUME NEW t \in T, NEW char \in Char PROVE Append(t, char) \in T
  <2>1. Append(t, char) \in Text
    BY DEF Text
  <2>. SUFFICES ASSUME \A i \in DOMAIN Append(t, char) : ~IsBare(Append(t, char)[i])
                PROVE  Bare(Append(t, char)) = <<>>
    BY <2>1
  <2>2. /\ \A i \in DOMAIN t : i \in DOMAIN Append(t, char) /\ Append(t, char)[i] = t[i]
        /\ Len(t) + 1 \in DOMAIN Append(t, char) /\ Append(t, char)[Len(t) + 1] = char
    BY DEF Text
  <2>3. Bare(t) = <<>> /\ BareOf(char) = <<>>
    BY <2>2 DEF BareOf
  <2>4. Bare(Append(t, char)) = Bare(t) \o BareOf(char)
    BY BareGrows
  <2>. QED  BY <2>3, <2>4
<1>3. T = Text
  <2>1. T \in SUBSET Seq(Char) /\ Text = Seq(Char)
    BY DEF Text
  <2>. HIDE DEF T
  <2>. QED  BY <1>1, <1>2, <2>1, TextInduction
<1>. QED  BY <1>3

\* A slice within a text.
LEMMA SliceIs ==
    ASSUME NEW text \in Text, NEW from \in Nat, NEW to \in Nat, from <= to, to <= Len(text)
    PROVE  /\ Slice(text, from, to) \in Text
           /\ Len(Slice(text, from, to)) = to - from
           /\ \A i \in 1 .. to - from : Slice(text, from, to)[i] = text[from + i]
BY SliceTyped DEF Text

\* Neighbouring slices of a text.
LEMMA SlicesJoin ==
    ASSUME NEW text \in Text, NEW a \in Nat, NEW b \in Nat, NEW c \in Nat, a <= b, b <= c, c <= Len(text)
    PROVE  Slice(text, a, c) = Slice(text, a, b) \o Slice(text, b, c)
<1>. DEFINE s == Slice(text, a, b)
            t == Slice(text, b, c)
            u == Slice(text, a, c)
<1>1. /\ s \in Seq(Char) /\ Len(s) = b - a /\ \A i \in 1 .. b - a : s[i] = text[a + i]
      /\ t \in Seq(Char) /\ Len(t) = c - b /\ \A i \in 1 .. c - b : t[i] = text[b + i]
      /\ u \in Seq(Char) /\ Len(u) = c - a /\ \A i \in 1 .. c - a : u[i] = text[a + i]
  BY SliceTyped DEF Text
<1>. HIDE DEF s, t, u
<1>2. /\ s \o t \in Seq(Char) /\ Len(s \o t) = c - a
      /\ \A i \in 1 .. b - a : (s \o t)[i] = s[i]
      /\ \A i \in 1 .. c - b : (s \o t)[(b - a) + i] = t[i]
  <2>1. (b - a) + (c - b) = c - a
    OBVIOUS
  <2>2. /\ s \o t \in Seq(Char) /\ Len(s \o t) = Len(s) + Len(t)
        /\ \A i \in 1 .. Len(s) : (s \o t)[i] = s[i]
        /\ \A i \in 1 .. Len(t) : (s \o t)[Len(s) + i] = t[i]
    <3>1. s \in Seq(Char) /\ t \in Seq(Char)
      BY <1>1
    <3>. QED  BY <3>1, ConcatIs
  <2>. QED  BY <1>1, <2>1, <2>2
<1>3. ASSUME NEW i \in 1 .. c - a PROVE u[i] = (s \o t)[i]
  <2>1. CASE i <= b - a
    <3>1. i \in 1 .. b - a
      BY <2>1
    <3>. QED  BY <1>1, <1>2, <3>1
  <2>2. CASE i > b - a
    <3>1. PICK k \in 1 .. c - b : k = i - (b - a)
      BY <2>2
    <3>2. (b - a) + k = i /\ b + k = a + i
      BY <3>1
    <3>3. (s \o t)[(b - a) + k] = t[k] /\ t[k] = text[b + k]
      BY <1>1, <1>2
    <3>. QED  BY <1>1, <3>2, <3>3
  <2>3. i <= b - a \/ i > b - a
    OBVIOUS
  <2>. QED  BY <2>1, <2>2, <2>3
<1>4. u = s \o t
  BY <1>1, <1>2, <1>3, SameSeq
<1>. QED  BY <1>4 DEF s, t, u

\* The whole text is a slice of it, and so is its rest.
LEMMA WholeSlice ==
    ASSUME NEW text \in Text
    PROVE  /\ Slice(text, 0, Len(text)) = text
           /\ \A a \in Nat : Rest(text, a) = Slice(text, a, Len(text))
           /\ \A a \in Nat : Slice(text, a, a) = <<>>
<1>. DEFINE u == Slice(text, 0, Len(text))
<1>0. Len(text) \in Nat
  BY DEF Text
<1>1. u \in Seq(Char) /\ Len(u) = Len(text) /\ \A i \in 1 .. Len(text) : u[i] = text[i]
  BY <1>0, SliceTyped DEF Text
<1>2. u = text
  <2>. HIDE DEF u
  <2>. QED  BY <1>1, SameSeq DEF Text
<1>3. ASSUME NEW a \in Nat PROVE Slice(text, a, a) = <<>>
  <2>. DEFINE end == IF a <= Len(text) THEN a ELSE Len(text)
  <2>1. Slice(text, a, a) \in Seq(Char) /\ Len(Slice(text, a, a)) = IF a <= end THEN end - a ELSE 0
    BY SliceTyped DEF Text
  <2>2. Len(Slice(text, a, a)) = 0
    BY <1>0, <2>1
  <2>. QED  BY <2>1, <2>2
<1>. QED  BY <1>2, <1>3 DEF Rest

\* A slice of the rest is a slice of the text.
LEMMA SliceOfRest ==
    ASSUME NEW text \in Text, NEW n \in Nat, NEW a \in Nat, NEW b \in Nat, a <= b, n + b <= Len(text)
    PROVE  Slice(Rest(text, n), a, b) = Slice(text, n + a, n + b)
<1>. DEFINE r == Rest(text, n)
            s == Slice(r, a, b)
            t == Slice(text, n + a, n + b)
<1>0. Len(text) \in Nat /\ n <= Len(text)
  BY DEF Text
<1>1. r \in Seq(Char) /\ Len(r) = Len(text) - n /\ \A i \in 1 .. Len(text) - n : r[i] = text[n + i]
  BY <1>0, SliceTyped DEF Rest, Text
<1>. HIDE DEF r
<1>2. s \in Seq(Char) /\ Len(s) = b - a /\ \A i \in 1 .. b - a : s[i] = r[a + i]
  BY <1>0, <1>1, SliceTyped
<1>3. t \in Seq(Char) /\ Len(t) = b - a /\ \A i \in 1 .. b - a : t[i] = text[(n + a) + i]
  <2>1. n + a \in Nat /\ n + b \in Nat /\ n + a <= n + b /\ (n + b) - (n + a) = b - a
    OBVIOUS
  <2>2. /\ t \in Text /\ Len(t) = (n + b) - (n + a)
        /\ \A i \in 1 .. (n + b) - (n + a) : t[i] = text[(n + a) + i]
    BY <2>1, SliceIs
  <2>. QED  BY <2>1, <2>2 DEF Text
<1>. HIDE DEF s, t
<1>4. ASSUME NEW i \in 1 .. b - a PROVE s[i] = t[i]
  <2>1. a + i \in 1 .. Len(text) - n /\ n + (a + i) = (n + a) + i
    BY <1>0
  <2>. QED  BY <1>1, <1>2, <1>3, <2>1
<1>5. s = t
  BY <1>2, <1>3, <1>4, SameSeq
<1>. QED  BY <1>5 DEF r, s, t

\* The bare characters of a slice that is cut in two.
LEMMA BareSlices ==
    ASSUME NEW text \in Text, NEW a \in Nat, NEW b \in Nat, NEW c \in Nat, a <= b, b <= c, c <= Len(text)
    PROVE  Bare(Slice(text, a, c)) = Bare(Slice(text, a, b)) \o Bare(Slice(text, b, c))
<1>1. Slice(text, a, b) \in Text /\ Slice(text, b, c) \in Text
  BY SliceTyped DEF Text
<1>. QED  BY <1>1, SlicesJoin, BareConcat

\* Texts that look alike have as many bare characters.
LEMMA BareLen ==
    ASSUME NEW a \in Text, NEW b \in Text, Chars(a) = Chars(b)
    PROVE  Len(Bare(a)) = Len(Bare(b))
<1>. DEFINE n == Len(a)
<1>1. n \in Nat /\ Len(b) = n /\ \A i \in 1 .. n : a[i].c = b[i].c
  <2>1. DOMAIN a = 1 .. Len(a) /\ DOMAIN b = 1 .. Len(b) /\ Len(a) \in Nat /\ Len(b) \in Nat
    BY DEF Text
  <2>2. DOMAIN Chars(a) = DOMAIN a /\ DOMAIN Chars(b) = DOMAIN b
    BY DEF Chars
  <2>3. Len(a) = Len(b)
    BY <2>1, <2>2, SameDomain
  <2>4. \A i \in 1 .. n : Chars(a)[i] = a[i].c /\ Chars(b)[i] = b[i].c
    BY <2>1, <2>3 DEF Chars
  <2>. QED  BY <2>1, <2>3, <2>4
<1>2. PICK f : /\ f[0] = <<>> /\ \A i \in 1 .. n : f[i] = f[i - 1] \o BareOf(a[i])
               /\ \A i \in 0 .. n : f[i] \in Seq(Nat)
               /\ Bare(a) = f[n]
  BY BareRuns
<1>3. PICK g : /\ g[0] = <<>> /\ \A i \in 1 .. n : g[i] = g[i - 1] \o BareOf(b[i])
               /\ \A i \in 0 .. n : g[i] \in Seq(Nat)
               /\ Bare(b) = g[n]
  BY <1>1, BareRuns
<1>. DEFINE T == {i \in Nat : i <= n => Len(f[i]) = Len(g[i])}
<1>4. 0 \in T
  BY <1>2, <1>3
<1>5. ASSUME NEW i \in T PROVE i + 1 \in T
  <2>. SUFFICES ASSUME i + 1 <= n PROVE Len(f[i + 1]) = Len(g[i + 1])
    OBVIOUS
  <2>1. i + 1 \in 1 .. n /\ (i + 1) - 1 = i /\ i \in 0 .. n /\ Len(f[i]) = Len(g[i])
    BY <1>1
  <2>2. f[i + 1] = f[i] \o BareOf(a[i + 1]) /\ g[i + 1] = g[i] \o BareOf(b[i + 1])
    BY <1>2, <1>3, <2>1
  <2>3. a[i + 1] \in Char /\ b[i + 1] \in Char /\ a[i + 1].c = b[i + 1].c
    BY <1>1, <2>1 DEF Text
  <2>4. BareOf(a[i + 1]) \in Seq(Nat) /\ BareOf(b[i + 1]) \in Seq(Nat)
    BY <2>3, BareOfTyped
  <2>5. Len(BareOf(a[i + 1])) = Len(BareOf(b[i + 1]))
    BY <2>3 DEF BareOf, IsBare
  <2>6. f[i] \in Seq(Nat) /\ g[i] \in Seq(Nat)
    BY <1>2, <1>3, <2>1
  <2>7. Len(f[i + 1]) = Len(f[i]) + Len(BareOf(a[i + 1])) /\ Len(g[i + 1]) = Len(g[i]) + Len(BareOf(b[i + 1]))
    BY <2>2, <2>4, <2>6, ConcatIs
  <2>. QED  BY <2>1, <2>5, <2>7
<1>6. n \in T
  <2>1. T \in SUBSET Nat
    OBVIOUS
  <2>. HIDE DEF T
  <2>. QED  BY <1>1, <1>4, <1>5, <2>1, Induction
<1>. QED  BY <1>1, <1>2, <1>3, <1>6

\* Where a bare character of a text stands among its bare characters
Place(text, i) == Len(Bare(Slice(text, 0, i - 1))) + 1

\* There it is found.
LEMMA PlaceIs ==
    ASSUME NEW text \in Text, NEW i \in 1 .. Len(text), IsBare(text[i])
    PROVE  /\ Place(text, i) \in 1 .. Len(Bare(text))
           /\ Bare(text)[Place(text, i)] = text[i].at
           /\ Len(Bare(Slice(text, 0, i))) = Place(text, i)
<1>. DEFINE a == Bare(Slice(text, 0, i - 1))
            b == Bare(Slice(text, i - 1, i))
            c == Bare(Slice(text, i, Len(text)))
<1>1. Len(text) \in Nat /\ i - 1 \in Nat /\ i - 1 <= i /\ i <= Len(text) /\ i \in Nat /\ 0 <= i - 1
  BY DEF Text
<1>2. /\ Slice(text, 0, i - 1) \in Text /\ Slice(text, i - 1, i) \in Text
      /\ Slice(text, i, Len(text)) \in Text
      /\ Slice(text, 0, i) \in Text
      /\ Len(Slice(text, i - 1, i)) = 1 /\ Slice(text, i - 1, i)[1] = text[i]
  <2>1. i - (i - 1) = 1 /\ (i - 1) + 1 = i
    OBVIOUS
  <2>2. Len(Slice(text, i - 1, i)) = i - (i - 1)
    BY <1>1, SliceTyped DEF Text
  <2>3. Slice(text, i - 1, i)[1] = text[(i - 1) + 1]
    BY <1>1, <2>1, <2>2, SliceTyped DEF Text
  <2>. QED  BY <1>1, <2>1, <2>2, <2>3, SliceTyped DEF Text
<1>3. a \in Seq(Nat) /\ b \in Seq(Nat) /\ c \in Seq(Nat)
  BY <1>2, BareGrows
<1>4. b = <<text[i].at>>
  <2>1. text[i] \in Char /\ <<>> \in Text
    BY DEF Text
  <2>2. Slice(text, i - 1, i) = Append(<<>>, text[i])
    BY <1>2, <2>1 DEF Text
  <2>3. b = Bare(<<>>) \o BareOf(text[i])
    BY <2>1, <2>2, BareGrows
  <2>4. BareOf(text[i]) = <<text[i].at>> /\ text[i].at \in Nat
    BY <2>1 DEF BareOf, Char
  <2>5. Bare(<<>>) = <<>>
    BY BareGrows
  <2>. QED  BY <2>3, <2>4, <2>5
<1>5. Bare(Slice(text, 0, i)) = a \o b
  BY <1>1, BareSlices
<1>6. Bare(text) = (a \o b) \o c
  <2>1. Bare(Slice(text, 0, Len(text))) = Bare(Slice(text, 0, i)) \o c
    BY <1>1, BareSlices
  <2>. QED  BY <1>5, <2>1, WholeSlice
<1>. HIDE DEF a, b, c
<1>7. Place(text, i) = Len(a) + 1
  BY DEF Place, a
<1>8. text[i].at \in Nat
  <2>1. text[i] \in Char
    BY DEF Text
  <2>. QED  BY <2>1 DEF Char
<1>. QED  BY <1>3, <1>4, <1>5, <1>6, <1>7, <1>8

\* Later characters have later places.
LEMMA PlacesRise ==
    ASSUME NEW text \in Text, NEW i \in 1 .. Len(text), NEW j \in 1 .. Len(text), i < j, IsBare(text[i])
    PROVE  Place(text, i) < Place(text, j)
<1>1. i \in Nat /\ j - 1 \in Nat /\ i <= j - 1 /\ j - 1 <= Len(text) /\ 0 <= i
  BY DEF Text
<1>2. Bare(Slice(text, 0, j - 1)) = Bare(Slice(text, 0, i)) \o Bare(Slice(text, i, j - 1))
  BY <1>1, BareSlices
<1>3. Slice(text, 0, i) \in Text /\ Slice(text, i, j - 1) \in Text
  BY <1>1, SliceTyped DEF Text
<1>4. Bare(Slice(text, 0, i)) \in Seq(Nat) /\ Bare(Slice(text, i, j - 1)) \in Seq(Nat)
  BY <1>3, BareGrows
<1>5. Len(Bare(Slice(text, 0, i))) = Place(text, i)
  BY PlaceIs
<1>. QED  BY <1>2, <1>4, <1>5 DEF Place

\* Whence the bare characters of a text stem
Ats(text) == {Bare(text)[p] : p \in 1 .. Len(Bare(text))}

\* They are those of its bare characters.
LEMMA AtsOf ==
    ASSUME NEW text \in Text
    PROVE  /\ \A i \in 1 .. Len(text) : IsBare(text[i]) => text[i].at \in Ats(text)
           /\ \A at \in Ats(text) : \E i \in 1 .. Len(text) : IsBare(text[i]) /\ text[i].at = at
<1>1. ASSUME NEW i \in 1 .. Len(text), IsBare(text[i]) PROVE text[i].at \in Ats(text)
  <2>1. Place(text, i) \in 1 .. Len(Bare(text)) /\ Bare(text)[Place(text, i)] = text[i].at
    BY <1>1, PlaceIs
  <2>. QED  BY <2>1 DEF Ats
<1>. DEFINE Has(t, at) == \E i \in 1 .. Len(t) : IsBare(t[i]) /\ t[i].at = at
            T == {t \in Text : \A p \in 1 .. Len(Bare(t)) : Has(t, Bare(t)[p])}
<1>2. <<>> \in T
  BY BareGrows DEF Text
<1>3. ASSUME NEW t \in T, NEW char \in Char PROVE Append(t, char) \in T
  <2>. DEFINE more == Append(t, char)
  <2>1. /\ more \in Text /\ Len(more) = Len(t) + 1 /\ \A i \in 1 .. Len(t) : more[i] = t[i]
        /\ more[Len(t) + 1] = char /\ Len(t) \in Nat
    BY AppendIs DEF Text
  <2>2. Bare(more) = Bare(t) \o BareOf(char) /\ Bare(t) \in Seq(Nat)
    BY BareGrows
  <2>. HIDE DEF more
  <2>3. ASSUME NEW p \in 1 .. Len(Bare(more)) PROVE Has(more, Bare(more)[p])
    <3>1. CASE p <= Len(Bare(t))
      <4>1. Bare(more)[p] = Bare(t)[p] /\ p \in 1 .. Len(Bare(t))
        BY <2>2, <3>1, BareOfTyped
      <4>2. Has(t, Bare(t)[p])
        BY <4>1
      <4>3. PICK i \in 1 .. Len(t) : IsBare(t[i]) /\ t[i].at = Bare(t)[p]
        BY <4>2
      <4>4. i \in 1 .. Len(more) /\ more[i] = t[i]
        BY <2>1
      <4>. QED  BY <4>1, <4>3, <4>4
    <3>2. CASE p > Len(Bare(t))
      <4>1. IsBare(char)
        BY <2>2, <3>2 DEF BareOf
      <4>2. BareOf(char) = <<char.at>>
        BY <4>1 DEF BareOf
      <4>3. p = Len(Bare(t)) + 1
        BY <2>2, <3>2, <4>2
      <4>4. Bare(more)[p] = char.at
        BY <2>2, <4>2, <4>3
      <4>5. Len(t) + 1 \in 1 .. Len(more)
        BY <2>1
      <4>. QED  BY <2>1, <4>1, <4>4, <4>5
    <3>. QED  BY <2>2, <3>1, <3>2
  <2>. HIDE DEF Has
  <2>. QED  BY <2>1, <2>3 DEF more
<1>4. T = Text
  <2>1. T \in SUBSET Seq(Char) /\ Text = Seq(Char)
    BY DEF Text
  <2>. HIDE DEF T
  <2>. QED  BY <1>2, <1>3, <2>1, TextInduction
<1>5. \A p \in 1 .. Len(Bare(text)) : Has(text, Bare(text)[p])
  BY <1>4
<1>. QED  BY <1>1, <1>5 DEF Ats

-----------------------------------------------------------------------------
(* Lines and what can be read in them *)

\* Lines of a text, step by step.
NextLines(lines, char) ==
    IF char.c = NL THEN Append(lines, <<>>) ELSE Append(Front(lines), Append(Last(lines), char))

\* Lines as a recursive function.
LEMMA LinesRun ==
    ASSUME NEW text \in Text
    PROVE  \E f : /\ f[0] = << <<>> >> /\ \A i \in 1 .. Len(text) : f[i] = NextLines(f[i - 1], text[i])
                  /\ \A i \in 0 .. Len(text) : f[i] \in Seq(Text) /\ f[i] # <<>>
                  /\ Lines(text) = f[Len(text)]
<1>. DEFINE S == Seq(Text) \ {<<>>}
            n == Len(text)
            base == << <<>> >>
            Put(lines, char) == IF char.c = NL THEN Append(lines, <<>>)
                                ELSE Append(Front(lines), Append(Last(lines), char))
            Eq(g) == g = [i \in 0 .. n |-> IF i = 0 THEN << <<>> >> ELSE Put(g[i - 1], text[i])]
            f == CHOOSE g : Eq(g)
            step == [i \in 1 .. n |-> [s \in S |-> Put(s, text[i])]]
<1>1. n \in Nat /\ base \in S
  BY DEF Text
<1>2. ASSUME NEW s \in S, NEW char \in Char PROVE Put(s, char) \in S
  <2>1. /\ s \in Seq(Text) /\ Len(s) \in Nat \ {0} /\ Last(s) \in Text
        /\ Front(s) \in Seq(Text)
    BY DEF Last, Front
  <2>2. <<>> \in Text /\ Append(Last(s), char) \in Text
    BY <2>1 DEF Text
  <2>3. Append(s, <<>>) \in S /\ Append(Front(s), Append(Last(s), char)) \in S
    BY <2>1, <2>2
  <2>. QED  BY <2>3
<1>3. \A i \in 1 .. n : text[i] \in Char
  BY DEF Text
<1>. HIDE DEF S, Put, base
<1>4. step \in [1 .. n -> [S -> S]]
  BY <1>2, <1>3
<1>5. PICK g \in Runs(S, base, n, step) : TRUE
  <2>. HIDE DEF step, n
  <2>. QED  BY <1>1, <1>4, Recursion
<1>6. Eq(g)
  <2>1. /\ g \in [0 .. n -> S] /\ g[0] = base
        /\ \A i \in 1 .. n : g[i] = step[i][g[i - 1]]
    BY <1>5 DEF Runs
  <2>2. \A i \in 1 .. n : i - 1 \in 0 .. n /\ g[i - 1] \in S
    BY <1>1, <2>1
  <2>3. \A i \in 1 .. n : g[i] = Put(g[i - 1], text[i])
    BY <2>1, <2>2
  <2>. QED  BY <1>1, <2>1, <2>3 DEF base
<1>7. Eq(f)
  <2>. HIDE DEF Eq
  <2>. QED  BY <1>6
<1>8. StaysIn(S, n, f)
  <2>. HIDE DEF f
  <2>. QED  BY <1>1, <1>2, <1>3, <1>7 DEF base, StaysIn
<1>9. \A i \in 0 .. n : f[i] \in S
  <2>. HIDE DEF f, n
  <2>. QED  BY <1>1, <1>8, Iterated
<1>10. Lines(text) = f[n]
  BY DEF Lines, Put
<1>11. f[0] = << <<>> >>
  <2>. HIDE DEF f
  <2>. QED  BY <1>1, <1>7
<1>12. ASSUME NEW i \in 1 .. n PROVE f[i] = NextLines(f[i - 1], text[i])
  <2>. HIDE DEF f
  <2>1. i \in 0 .. n /\ i # 0
    BY <1>1
  <2>. QED  BY <1>7, <2>1 DEF Put, NextLines
<1>. HIDE DEF f
<1>. QED  BY <1>9, <1>10, <1>11, <1>12 DEF S

\* Lines of a text with one character more.
LEMMA LinesGrow ==
    /\ Lines(<<>>) = << <<>> >>
    /\ \A text \in Text, char \in Char : Lines(Append(text, char)) = NextLines(Lines(text), char)
<1>1. Lines(<<>>) = << <<>> >>
  <2>1. <<>> \in Text /\ Len(<<>>) = 0
    BY DEF Text
  <2>. QED  BY <2>1, LinesRun
<1>2. ASSUME NEW text \in Text, NEW char \in Char
      PROVE  Lines(Append(text, char)) = NextLines(Lines(text), char)
  <2>. DEFINE more == Append(text, char)
              n == Len(text)
  <2>1. /\ n \in Nat /\ more \in Text /\ Len(more) = n + 1 /\ more[n + 1] = char
        /\ \A i \in 1 .. n : more[i] = text[i]
    BY AppendIs DEF Text
  <2>. HIDE DEF more
  <2>2. PICK f : /\ f[0] = << <<>> >> /\ \A i \in 1 .. n : f[i] = NextLines(f[i - 1], text[i])
                 /\ Lines(text) = f[n]
    BY LinesRun
  <2>3. PICK g : /\ g[0] = << <<>> >> /\ \A i \in 1 .. n + 1 : g[i] = NextLines(g[i - 1], more[i])
                 /\ Lines(more) = g[n + 1]
    BY <2>1, LinesRun
  <2>4. \A i \in 1 .. n : f[i - 1] = g[i - 1] => f[i] = g[i]
    BY <2>1, <2>2, <2>3
  <2>5. f[n] = g[n]
    <3>1. f[0] = g[0]
      BY <2>2, <2>3
    <3>. QED  BY <2>1, <2>4, <3>1, SameRun
  <2>6. n + 1 \in 1 .. n + 1 /\ (n + 1) - 1 = n
    BY <2>1
  <2>7. g[n + 1] = NextLines(g[(n + 1) - 1], more[n + 1])
    BY <2>3, <2>6
  <2>. QED  BY <2>1, <2>2, <2>3, <2>5, <2>6, <2>7 DEF more
<1>. QED  BY <1>1, <1>2

\* Joining lines, step by step.
LEMMA JoinedRun ==
    ASSUME NEW lines \in Seq(Text)
    PROVE  \E f : /\ f[0] = <<>>
                  /\ \A i \in 1 .. Len(lines) :
                        f[i] = IF i = 1 THEN lines[1] ELSE f[i - 1] \o <<Added(NL)>> \o lines[i]
                  /\ \A i \in 0 .. Len(lines) : f[i] \in Text
                  /\ Joined(lines) = f[Len(lines)]
<1>. DEFINE S == Text
            n == Len(lines)
            base == <<>>
            Put(text, i) == IF i = 1 THEN lines[1] ELSE text \o <<Added(NL)>> \o lines[i]
            Eq(g) == g = [i \in 0 .. n |-> IF i = 0 THEN <<>> ELSE Put(g[i - 1], i)]
            f == CHOOSE g : Eq(g)
            step == [i \in 1 .. n |-> [s \in S |-> Put(s, i)]]
<1>1. n \in Nat /\ base \in S
  BY DEF Text
<1>2. ASSUME NEW s \in S, NEW i \in 1 .. n PROVE Put(s, i) \in S
  <2>1. lines[1] \in Text /\ lines[i] \in Text
    BY <1>1
  <2>2. Added(NL) \in Char
    BY AddedTyped DEF Classes
  <2>. QED  BY <2>1, <2>2 DEF Text
<1>. HIDE DEF S, Put, base
<1>3. step \in [1 .. n -> [S -> S]]
  BY <1>2
<1>4. PICK g \in Runs(S, base, n, step) : TRUE
  <2>. HIDE DEF step, n
  <2>. QED  BY <1>1, <1>3, Recursion
<1>5. Eq(g)
  <2>1. /\ g \in [0 .. n -> S] /\ g[0] = base
        /\ \A i \in 1 .. n : g[i] = step[i][g[i - 1]]
    BY <1>4 DEF Runs
  <2>2. \A i \in 1 .. n : i - 1 \in 0 .. n /\ g[i - 1] \in S
    BY <1>1, <2>1
  <2>3. \A i \in 1 .. n : g[i] = Put(g[i - 1], i)
    BY <2>1, <2>2
  <2>. QED  BY <1>1, <2>1, <2>3 DEF base
<1>6. Eq(f)
  <2>. HIDE DEF Eq
  <2>. QED  BY <1>5
<1>7. StaysIn(S, n, f)
  <2>. HIDE DEF f
  <2>. QED  BY <1>1, <1>2, <1>6 DEF base, StaysIn
<1>8. \A i \in 0 .. n : f[i] \in S
  <2>. HIDE DEF f, n
  <2>. QED  BY <1>1, <1>7, Iterated
<1>9. Joined(lines) = f[n]
  BY DEF Joined, Put
<1>10. f[0] = <<>>
  <2>. HIDE DEF f
  <2>. QED  BY <1>1, <1>6
<1>11. ASSUME NEW i \in 1 .. n
       PROVE  f[i] = IF i = 1 THEN lines[1] ELSE f[i - 1] \o <<Added(NL)>> \o lines[i]
  <2>. HIDE DEF f
  <2>1. i \in 0 .. n /\ i # 0
    BY <1>1
  <2>. QED  BY <1>6, <2>1 DEF Put
<1>. HIDE DEF f
<1>. QED  BY <1>8, <1>9, <1>10, <1>11 DEF S

\* One line more.
LEMMA JoinedGrow ==
    /\ Joined(<<>>) = <<>>
    /\ \A lines \in Seq(Text), line \in Text :
          Joined(Append(lines, line)) = IF lines = <<>> THEN line ELSE Joined(lines) \o <<Added(NL)>> \o line
<1>1. Joined(<<>>) = <<>>
  <2>1. <<>> \in Seq(Text) /\ Len(<<>>) = 0
    OBVIOUS
  <2>. QED  BY <2>1, JoinedRun
<1>2. ASSUME NEW lines \in Seq(Text), NEW line \in Text
      PROVE  Joined(Append(lines, line))
               = IF lines = <<>> THEN line ELSE Joined(lines) \o <<Added(NL)>> \o line
  <2>. DEFINE more == Append(lines, line)
              n == Len(lines)
              Put(ls, text, i) == IF i = 1 THEN ls[1] ELSE text \o <<Added(NL)>> \o ls[i]
  <2>1. /\ n \in Nat /\ more \in Seq(Text) /\ Len(more) = n + 1 /\ more[n + 1] = line
        /\ \A i \in 1 .. n : more[i] = lines[i]
    BY AppendIs
  <2>. HIDE DEF more
  <2>2. PICK f : /\ f[0] = <<>> /\ \A i \in 1 .. n : f[i] = Put(lines, f[i - 1], i)
                 /\ Joined(lines) = f[n]
    BY JoinedRun
  <2>3. PICK g : /\ g[0] = <<>> /\ \A i \in 1 .. n + 1 : g[i] = Put(more, g[i - 1], i)
                 /\ Joined(more) = g[n + 1]
    BY <2>1, JoinedRun
  <2>4. ASSUME NEW i \in 1 .. n, f[i - 1] = g[i - 1] PROVE f[i] = g[i]
    <3>1. f[i] = Put(lines, f[i - 1], i) /\ g[i] = Put(more, g[i - 1], i)
      BY <2>1, <2>2, <2>3
    <3>2. 1 \in 1 .. n /\ more[i] = lines[i]
      BY <2>1
    <3>. QED  BY <2>1, <2>4, <3>1, <3>2
  <2>5. f[n] = g[n]
    <3>1. f[0] = g[0]
      BY <2>2, <2>3
    <3>. QED  BY <2>1, <2>4, <3>1, SameRun
  <2>6. n + 1 \in 1 .. n + 1 /\ (n + 1) - 1 = n /\ (n + 1 = 1 <=> lines = <<>>)
    BY <2>1
  <2>7. g[n + 1] = Put(more, g[(n + 1) - 1], n + 1)
    BY <2>3, <2>6
  <2>8. g[n + 1] = IF n + 1 = 1 THEN more[1] ELSE g[n] \o <<Added(NL)>> \o more[n + 1]
    BY <2>6, <2>7
  <2>9. n + 1 = 1 => more[1] = line
    BY <2>1
  <2>. HIDE DEF n
  <2>. QED  BY <2>1, <2>2, <2>3, <2>5, <2>6, <2>8, <2>9 DEF more
<1>. QED  BY <1>1, <1>2

\* Texts whose bare characters are the same
Alike(text) == {t \in Text : Bare(t) = Bare(text)}

\* A text that begins like another.
LEMMA StartsWithIs ==
    ASSUME NEW text \in Text, NEW prefix \in Text
    PROVE  StartsWith(text, prefix)
             <=> Len(prefix) <= Len(text) /\ \A i \in 1 .. Len(prefix) : text[i].c = prefix[i].c
<1>. DEFINE n == Len(prefix)
<1>1. ASSUME NEW t \in Text
      PROVE  /\ Chars(t) \in Seq(Classes) /\ Len(Chars(t)) = Len(t)
             /\ \A i \in 1 .. Len(t) : Chars(t)[i] = t[i].c
  <2>1. DOMAIN t = 1 .. Len(t) /\ Len(t) \in Nat /\ \A i \in 1 .. Len(t) : t[i] \in Char
    BY DEF Text
  <2>2. \A i \in 1 .. Len(t) : t[i].c \in Classes
    BY <2>1 DEF Char
  <2>3. Chars(t) \in Seq(Classes) /\ DOMAIN Chars(t) = 1 .. Len(t)
    BY <2>1, <2>2 DEF Chars
  <2>. QED  BY <2>1, <2>3 DEF Chars
<1>. DEFINE a == Chars(text)
            p == Chars(prefix)
<1>2. /\ a \in Seq(Classes) /\ Len(a) = Len(text) /\ \A i \in 1 .. Len(text) : a[i] = text[i].c
      /\ p \in Seq(Classes) /\ Len(p) = n /\ \A i \in 1 .. n : p[i] = prefix[i].c
      /\ n \in Nat /\ Len(text) \in Nat
  BY <1>1 DEF Text
<1>3. StartsWith(text, prefix) <=> n <= Len(text) /\ SubSeq(p, 1, n) = SubSeq(a, 1, n)
  BY <1>2 DEF StartsWith, IsPrefix
<1>. HIDE DEF a, p
<1>4. ASSUME n <= Len(text)
      PROVE  SubSeq(p, 1, n) = SubSeq(a, 1, n) <=> \A i \in 1 .. n : text[i].c = prefix[i].c
  <2>1. /\ SubSeq(p, 1, n) \in Seq(Classes) /\ Len(SubSeq(p, 1, n)) = n
        /\ \A i \in 1 .. n : SubSeq(p, 1, n)[i] = p[i]
    BY <1>2
  <2>2. /\ SubSeq(a, 1, n) \in Seq(Classes) /\ Len(SubSeq(a, 1, n)) = n
        /\ \A i \in 1 .. n : SubSeq(a, 1, n)[i] = a[i]
    BY <1>2, <1>4
  <2>3. \A i \in 1 .. n : a[i] = text[i].c /\ p[i] = prefix[i].c
    BY <1>2, <1>4
  <2>4. (\A i \in 1 .. n : SubSeq(p, 1, n)[i] = SubSeq(a, 1, n)[i]) => SubSeq(p, 1, n) = SubSeq(a, 1, n)
    <3>. DEFINE u == SubSeq(p, 1, n)
                v == SubSeq(a, 1, n)
    <3>. HIDE DEF u, v
    <3>1. u \in Seq(Classes) /\ v \in Seq(Classes) /\ Len(u) = n /\ Len(v) = n
      BY <2>1, <2>2 DEF u, v
    <3>2. (\A i \in 1 .. n : u[i] = v[i]) => u = v
      BY <3>1, SameSeq
    <3>. QED  BY <3>2 DEF u, v
  <2>. QED  BY <2>1, <2>2, <2>3, <2>4
<1>. QED  BY <1>3, <1>4

\* Texts of the same bare characters, one by one.
LEMMA BareSame ==
    ASSUME NEW a \in Text, NEW b \in Text, Len(a) = Len(b),
           \A i \in 1 .. Len(a) : BareOf(a[i]) = BareOf(b[i])
    PROVE  Bare(a) = Bare(b)
<1>. DEFINE n == Len(a)
<1>0. n \in Nat
  BY DEF Text
<1>1. PICK f : /\ f[0] = <<>> /\ \A i \in 1 .. n : f[i] = f[i - 1] \o BareOf(a[i])
               /\ Bare(a) = f[n]
  BY BareRuns
<1>2. PICK g : /\ g[0] = <<>> /\ \A i \in 1 .. n : g[i] = g[i - 1] \o BareOf(b[i])
               /\ Bare(b) = g[n]
  BY BareRuns
<1>3. f[0] = g[0] /\ \A i \in 1 .. n : f[i - 1] = g[i - 1] => f[i] = g[i]
  BY <1>1, <1>2
<1>4. f[n] = g[n]
  BY <1>0, <1>3, SameRun
<1>. QED  BY <1>1, <1>2, <1>4

\* A part of a text without bare characters can be left out.
LEMMA BareSkip ==
    ASSUME NEW text \in Text, NEW a \in Nat, NEW b \in Nat, a <= b, b <= Len(text),
           \A i \in a + 1 .. b : ~IsBare(text[i])
    PROVE  /\ Bare(Slice(text, 0, b)) = Bare(Slice(text, 0, a))
           /\ Bare(Slice(text, a, Len(text))) = Bare(Slice(text, b, Len(text)))
           /\ Bare(text) = Bare(Slice(text, 0, a)) \o Bare(Slice(text, b, Len(text)))
<1>0. Len(text) \in Nat
  BY DEF Text
<1>1. Bare(Slice(text, a, b)) = <<>>
  <2>. DEFINE s == Slice(text, a, b)
  <2>1. s \in Text /\ Len(s) = b - a /\ \A i \in 1 .. b - a : s[i] = text[a + i]
    BY SliceIs
  <2>. HIDE DEF s
  <2>2. ASSUME NEW i \in DOMAIN s PROVE ~IsBare(s[i])
    <3>1. i \in 1 .. b - a
      BY <2>1 DEF Text
    <3>2. a + i \in a + 1 .. b
      BY <3>1
    <3>. QED  BY <2>1, <3>1, <3>2
  <2>3. Bare(s) = <<>>
    BY <2>1, <2>2, BareNothing
  <2>. QED  BY <2>3 DEF s
<1>2. /\ Bare(Slice(text, 0, a)) \in Seq(Nat) /\ Bare(Slice(text, b, Len(text))) \in Seq(Nat)
  <2>1. 0 \in Nat /\ 0 <= a /\ a <= Len(text)
    BY <1>0
  <2>2. Slice(text, 0, a) \in Text
    BY <2>1, SliceIs
  <2>3. Slice(text, b, Len(text)) \in Text
    BY <1>0, SliceIs
  <2>. QED  BY <2>2, <2>3, BareGrows
<1>3. Bare(Slice(text, 0, b)) = Bare(Slice(text, 0, a)) \o <<>>
  <2>1. Bare(Slice(text, 0, b)) = Bare(Slice(text, 0, a)) \o Bare(Slice(text, a, b))
    BY <1>0, BareSlices
  <2>. QED  BY <1>1, <2>1
<1>4. Bare(Slice(text, a, Len(text))) = <<>> \o Bare(Slice(text, b, Len(text)))
  <2>1. Bare(Slice(text, a, Len(text))) = Bare(Slice(text, a, b)) \o Bare(Slice(text, b, Len(text)))
    BY <1>0, BareSlices
  <2>. QED  BY <1>1, <2>1
<1>5. Bare(text) = Bare(Slice(text, 0, a)) \o Bare(Slice(text, a, Len(text)))
  <2>1. Bare(Slice(text, 0, Len(text))) = Bare(Slice(text, 0, a)) \o Bare(Slice(text, a, Len(text)))
    BY <1>0, BareSlices
  <2>. QED  BY <2>1, WholeSlice
<1>6. \A s \in Seq(Nat) : s \o <<>> = s /\ <<>> \o s = s
  OBVIOUS
<1>. QED  BY <1>2, <1>3, <1>4, <1>5, <1>6

\* A line more adds its bare characters.
BareLines(lines) == Bare(Joined(lines))

\* The bare characters of lines are those of the text they join to.
LEMMA BareLinesGrow ==
    /\ BareLines(<<>>) = <<>>
    /\ \A lines \in Seq(Text) : BareLines(lines) \in Seq(Nat) /\ Joined(lines) \in Text
    /\ \A lines \in Seq(Text), line \in Text : BareLines(Append(lines, line)) = BareLines(lines) \o Bare(line)
<1>1. BareLines(<<>>) = <<>>
  BY JoinedGrow, BareGrows DEF BareLines
<1>2. ASSUME NEW lines \in Seq(Text) PROVE BareLines(lines) \in Seq(Nat) /\ Joined(lines) \in Text
  <2>1. Joined(lines) \in Text
    BY JoinedTyped
  <2>. QED  BY <2>1, BareGrows DEF BareLines
<1>3. ASSUME NEW lines \in Seq(Text), NEW line \in Text
      PROVE  BareLines(Append(lines, line)) = BareLines(lines) \o Bare(line)
  <2>0. Bare(line) \in Seq(Nat)
    BY BareGrows
  <2>1. CASE lines = <<>>
    <3>1. Joined(Append(lines, line)) = line
      BY <2>1, JoinedGrow
    <3>2. <<>> \o Bare(line) = Bare(line)
      BY <2>0
    <3>. QED  BY <1>1, <2>1, <3>1, <3>2 DEF BareLines
  <2>2. CASE lines # <<>>
    <3>1. Joined(Append(lines, line)) = Joined(lines) \o <<Added(NL)>> \o line
      BY <2>2, JoinedGrow
    <3>2. Joined(lines) \in Text /\ <<Added(NL)>> \in Text /\ Joined(lines) \o <<Added(NL)>> \in Text
      <4>1. Joined(lines) \in Seq(Char) /\ Added(NL) \in Char
        BY <1>2, AddedTyped DEF Text, Classes
      <4>. QED  BY <4>1 DEF Text
    <3>3. Bare(<<Added(NL)>>) = <<>>
      BY <3>2, BareNothing DEF Added, IsBare
    <3>4. Bare(Joined(lines) \o <<Added(NL)>>) = BareLines(lines)
      <4>1. Bare(Joined(lines) \o <<Added(NL)>>) = BareLines(lines) \o <<>>
        BY <3>2, <3>3, BareConcat DEF BareLines
      <4>2. BareLines(lines) \in Seq(Nat)
        BY <1>2
      <4>. QED  BY <4>1, <4>2
    <3>5. Bare((Joined(lines) \o <<Added(NL)>>) \o line) = Bare(Joined(lines) \o <<Added(NL)>>) \o Bare(line)
      BY <3>2, BareConcat
    <3>. QED  BY <3>1, <3>4, <3>5 DEF BareLines
  <2>. QED  BY <2>1, <2>2
<1>. QED  BY <1>1, <1>2, <1>3

\* So does a line that is put behind the last one.
LEMMA MergeLast ==
    ASSUME NEW rows \in Seq(Text), rows # <<>>, NEW line \in Text
    PROVE  /\ Append(Front(rows), Last(rows) \o line) \in Seq(Text)
           /\ BareLines(Append(Front(rows), Last(rows) \o line)) = BareLines(rows) \o Bare(line)
<1>. DEFINE a == BareLines(Front(rows))
<1>1. Front(rows) \in Seq(Text) /\ Last(rows) \in Text /\ rows = Append(Front(rows), Last(rows))
  BY FrontLast
<1>2. Last(rows) \o line \in Text
  BY <1>1 DEF Text
<1>3. Append(Front(rows), Last(rows) \o line) \in Seq(Text)
  BY <1>1, <1>2, AppendIs
<1>4. BareLines(Append(Front(rows), Last(rows) \o line)) = a \o Bare(Last(rows) \o line)
  BY <1>1, <1>2, BareLinesGrow
<1>5. Bare(Last(rows) \o line) = Bare(Last(rows)) \o Bare(line)
  BY <1>1, BareConcat
<1>6. BareLines(rows) = a \o Bare(Last(rows))
  <2>. DEFINE f == Front(rows)
              l == Last(rows)
  <2>. HIDE DEF f, l
  <2>1. rows = Append(f, l) /\ f \in Seq(Text) /\ l \in Text
    BY <1>1 DEF f, l
  <2>2. BareLines(rows) = BareLines(f) \o Bare(l)
    BY <2>1, BareLinesGrow
  <2>. QED  BY <2>2 DEF f, l
<1>7. a \in Seq(Nat) /\ Bare(Last(rows)) \in Seq(Nat) /\ Bare(line) \in Seq(Nat)
  BY <1>1, BareLinesGrow, BareGrows
<1>8. a \o (Bare(Last(rows)) \o Bare(line)) = (a \o Bare(Last(rows))) \o Bare(line)
  <2>. HIDE DEF a
  <2>. QED  BY <1>7
<1>. QED  BY <1>3, <1>4, <1>5, <1>6, <1>8

\* A text and its lines have the same bare characters.
LEMMA LinesKeep ==
    ASSUME NEW text \in Text
    PROVE  BareLines(Lines(text)) = Bare(text)
<1>. DEFINE T == {t \in Text : BareLines(Lines(t)) = Bare(t)}
<1>1. <<>> \in T
  <2>1. <<>> \in Text /\ <<>> \in Seq(Text) /\ Append(<<>>, <<>>) = << <<>> >>
    BY DEF Text
  <2>2. BareLines(<< <<>> >>) = BareLines(<<>>) \o Bare(<<>>)
    BY <2>1, BareLinesGrow
  <2>3. BareLines(<< <<>> >>) = <<>>
    BY <2>2, BareLinesGrow, BareGrows
  <2>. QED  BY <2>1, <2>3, LinesGrow, BareGrows
<1>2. ASSUME NEW t \in T, NEW char \in Char PROVE Append(t, char) \in T
  <2>. DEFINE lines == Lines(t)
  <2>1. lines \in Seq(Text) /\ lines # <<>> /\ Append(t, char) \in Text /\ <<>> \in Text
    BY LinesTyped DEF Text
  <2>2. Lines(Append(t, char)) = NextLines(lines, char) /\ Bare(Append(t, char)) = Bare(t) \o BareOf(char)
    BY LinesGrow, BareGrows
  <2>3. BareLines(lines) = Bare(t) /\ Bare(t) \in Seq(Nat)
    BY BareGrows
  <2>. HIDE DEF lines
  <2>4. CASE char.c = NL
    <3>1. BareLines(Append(lines, <<>>)) = BareLines(lines) \o Bare(<<>>)
      BY <2>1, BareLinesGrow
    <3>2. Bare(<<>>) = <<>> /\ BareOf(char) = <<>>
      BY <2>4, BareGrows DEF BareOf, IsBare
    <3>. QED  BY <2>1, <2>2, <2>3, <2>4, <3>1, <3>2 DEF NextLines, lines
  <2>5. CASE char.c # NL
    <3>. DEFINE one == <<char>>
    <3>1. one \in Text /\ Bare(one) = BareOf(char)
      <4>1. <<>> \in Text /\ Append(<<>>, char) = one /\ one \in Text
        BY DEF Text
      <4>2. Bare(one) = Bare(<<>>) \o BareOf(char)
        BY <4>1, BareGrows
      <4>3. BareOf(char) \in Seq(Nat)
        BY BareOfTyped
      <4>4. Bare(<<>>) = <<>> /\ <<>> \o BareOf(char) = BareOf(char)
        BY <4>3, BareGrows
      <4>. QED  BY <4>1, <4>2, <4>4
    <3>2. Append(Last(lines), char) = Last(lines) \o one
      <4>1. Last(lines) \in Seq(Char)
        BY <2>1, FrontLast DEF Text
      <4>. QED  BY <4>1
    <3>3. BareLines(Append(Front(lines), Last(lines) \o one)) = BareLines(lines) \o Bare(one)
      <4>. HIDE DEF one
      <4>. QED  BY <2>1, <3>1, MergeLast
    <3>. QED  BY <2>1, <2>2, <2>3, <2>5, <3>1, <3>2, <3>3 DEF NextLines, lines
  <2>. QED  BY <2>4, <2>5
<1>3. T = Text
  <2>1. T \in SUBSET Seq(Char) /\ Text = Seq(Char)
    BY DEF Text
  <2>. HIDE DEF T
  <2>. QED  BY <1>1, <1>2, <2>1, TextInduction
<1>. QED  BY <1>3

-----------------------------------------------------------------------------
(* The repair of reasoning boundaries costs line breaks at most *)

\* Mending the rows of a table, step by step.
NextRows(rows, line) ==
    IF /\ rows # <<>> /\ IsTableLine(Last(rows))
       /\ ~IsRow(Last(rows)) \/ (line # <<>> /\ ~IsTableLine(line) /\ Last(line).c = Pipe)
      THEN Append(Front(rows), Last(rows) \o line) ELSE Append(rows, line)

\* RowsMended as a recursive function.
LEMMA RowsRun ==
    ASSUME NEW text \in Text
    PROVE  \E f : /\ f[0] = <<>>
                  /\ \A i \in 1 .. Len(Lines(text)) : f[i] = NextRows(f[i - 1], Lines(text)[i])
                  /\ \A i \in 0 .. Len(Lines(text)) : f[i] \in Seq(Text)
                  /\ RowsMended(text) = Joined(f[Len(Lines(text))])
<1>. DEFINE S == Seq(Text)
            lines == Lines(text)
            n == Len(lines)
            base == <<>>
            Mend(rows, line) ==
              IF /\ rows # <<>> /\ IsTableLine(Last(rows))
                 /\ ~IsRow(Last(rows)) \/ (line # <<>> /\ ~IsTableLine(line) /\ Last(line).c = Pipe)
                THEN Append(Front(rows), Last(rows) \o line) ELSE Append(rows, line)
            Eq(g) == g = [i \in 0 .. n |-> IF i = 0 THEN <<>> ELSE Mend(g[i - 1], lines[i])]
            f == CHOOSE g : Eq(g)
            step == [i \in 1 .. n |-> [s \in S |-> Mend(s, lines[i])]]
<1>1. n \in Nat /\ base \in S /\ \A i \in 1 .. n : lines[i] \in Text
  BY LinesTyped
<1>2. ASSUME NEW s \in S, NEW line \in Text PROVE Mend(s, line) \in S
  <2>1. CASE s # <<>>
    <3>1. Len(s) \in Nat \ {0} /\ Last(s) \in Text /\ Front(s) \in Seq(Text)
      BY <2>1 DEF Last, Front
    <3>2. Last(s) \o line \in Text
      BY <3>1 DEF Text
    <3>3. Append(Front(s), Last(s) \o line) \in S /\ Append(s, line) \in S
      BY <3>1, <3>2
    <3>. QED  BY <3>3
  <2>2. CASE s = <<>>
    BY <2>2
  <2>. QED  BY <2>1, <2>2
<1>. HIDE DEF S, lines, Mend, base
<1>3. step \in [1 .. n -> [S -> S]]
  BY <1>1, <1>2
<1>4. PICK g \in Runs(S, base, n, step) : TRUE
  <2>. HIDE DEF step, n
  <2>. QED  BY <1>1, <1>3, Recursion
<1>5. Eq(g)
  <2>1. /\ g \in [0 .. n -> S] /\ g[0] = base
        /\ \A i \in 1 .. n : g[i] = step[i][g[i - 1]]
    BY <1>4 DEF Runs
  <2>2. \A i \in 1 .. n : i - 1 \in 0 .. n /\ g[i - 1] \in S
    BY <1>1, <2>1
  <2>3. \A i \in 1 .. n : g[i] = Mend(g[i - 1], lines[i])
    BY <2>1, <2>2
  <2>. QED  BY <1>1, <2>1, <2>3 DEF base
<1>6. Eq(f)
  <2>. HIDE DEF Eq
  <2>. QED  BY <1>5
<1>7. StaysIn(S, n, f)
  <2>. HIDE DEF f
  <2>. QED  BY <1>1, <1>2, <1>6 DEF base, StaysIn
<1>8. \A i \in 0 .. n : f[i] \in S
  <2>. HIDE DEF f, n
  <2>. QED  BY <1>1, <1>7, Iterated
<1>9. RowsMended(text) = Joined(f[n])
  BY DEF RowsMended, Mend, lines
<1>10. f[0] = <<>>
  <2>. HIDE DEF f
  <2>. QED  BY <1>1, <1>6
<1>11. ASSUME NEW i \in 1 .. n PROVE f[i] = NextRows(f[i - 1], lines[i])
  <2>. HIDE DEF f
  <2>1. i \in 0 .. n /\ i # 0
    BY <1>1
  <2>. QED  BY <1>6, <2>1 DEF Mend, NextRows
<1>. HIDE DEF f
<1>. QED  BY <1>8, <1>9, <1>10, <1>11 DEF S, lines

\* A line that is put to its rows adds its bare characters.
LEMMA RowsMendedKeeps ==
    ASSUME NEW text \in Text
    PROVE  RowsMended(text) \in Alike(text)
<1>. DEFINE lines == Lines(text)
            n == Len(lines)
<1>1. lines \in Seq(Text) /\ n \in Nat
  BY LinesTyped
<1>2. PICK f : /\ f[0] = <<>> /\ \A i \in 1 .. n : f[i] = NextRows(f[i - 1], lines[i])
               /\ \A i \in 0 .. n : f[i] \in Seq(Text)
               /\ RowsMended(text) = Joined(f[n])
  BY RowsRun
<1>3. BareLines(lines) = Bare(text)
  BY LinesKeep
<1>. HIDE DEF lines
<1>. DEFINE T == {i \in 0 .. n : BareLines(f[i]) = BareLines(SubSeq(lines, 1, i))}
<1>4. 0 \in T
  <2>1. SubSeq(lines, 1, 0) = <<>>
    BY <1>1, SubSeqGrows
  <2>2. 0 \in 0 .. n
    BY <1>1
  <2>. HIDE DEF n
  <2>. QED  BY <1>2, <2>1, <2>2
<1>5. ASSUME NEW i \in 1 .. n, i - 1 \in T PROVE i \in T
  <2>1. /\ i - 1 \in 0 .. n /\ i \in 0 .. n
        /\ f[i] = NextRows(f[i - 1], lines[i]) /\ f[i - 1] \in Seq(Text) /\ lines[i] \in Text
        /\ BareLines(f[i - 1]) = BareLines(SubSeq(lines, 1, i - 1))
    BY <1>1, <1>2, <1>5
  <2>2. /\ SubSeq(lines, 1, i - 1) \in Seq(Text)
        /\ SubSeq(lines, 1, i) = Append(SubSeq(lines, 1, i - 1), lines[i])
    BY <1>1, SubSeqGrows
  <2>3. BareLines(SubSeq(lines, 1, i)) = BareLines(SubSeq(lines, 1, i - 1)) \o Bare(lines[i])
    BY <2>1, <2>2, BareLinesGrow
  <2>4. BareLines(f[i]) = BareLines(f[i - 1]) \o Bare(lines[i])
    <3>1. CASE f[i] = Append(f[i - 1], lines[i])
      BY <2>1, <3>1, BareLinesGrow
    <3>2. CASE f[i - 1] # <<>> /\ f[i] = Append(Front(f[i - 1]), Last(f[i - 1]) \o lines[i])
      BY <2>1, <3>2, MergeLast
    <3>. QED  BY <2>1, <3>1, <3>2 DEF NextRows
  <2>. QED  BY <2>1, <2>3, <2>4
<1>6. n \in T
  <2>1. n \in 0 .. n
    BY <1>1
  <2>. HIDE DEF T
  <2>. QED  BY <1>1, <1>4, <1>5, <2>1, Steps
<1>7. BareLines(f[n]) = BareLines(lines)
  BY <1>1, <1>6, SubSeqGrows
<1>8. n \in 0 .. n /\ f[n] \in Seq(Text)
  BY <1>1, <1>2
<1>. HIDE DEF n
<1>. QED  BY <1>2, <1>3, <1>7, <1>8, BareLinesGrow DEF Alike, BareLines

\* Of a text that is mended, line breaks go.
LEMMA MendedKeeps ==
    ASSUME NEW delta \in Text
    PROVE  Mended(delta) \in Alike(delta)
<1>. DEFINE breaks == SingleBreaks(delta)
            i == Min(breaks)
<1>1. breaks \in SUBSET Nat /\ \A x \in breaks : x \in 1 .. Len(delta) /\ delta[x].c = NL
  BY DEF SingleBreaks, Positions, Text
<1>2. breaks # {} => i \in 1 .. Len(delta) /\ delta[i].c = NL
  BY <1>1, Least
<1>3. breaks # {} => RemoveAt(delta, i) \in Alike(delta)
  <2>. SUFFICES ASSUME breaks # {} PROVE RemoveAt(delta, i) \in Alike(delta)
    OBVIOUS
  <2>1. i \in 1 .. Len(delta) /\ delta[i].c = NL /\ Len(delta) \in Nat
    BY <1>2 DEF Text
  <2>. HIDE DEF i
  <2>2. /\ i - 1 \in Nat /\ i \in Nat /\ i - 1 <= i /\ i <= Len(delta) /\ i - 1 <= Len(delta)
        /\ 0 \in Nat /\ 0 <= i - 1
    BY <2>1
  <2>. DEFINE a == Slice(delta, 0, i - 1)
              b == Slice(delta, i, Len(delta))
  <2>3. RemoveAt(delta, i) = a \o b
    <3>1. a = SubSeq(delta, 1, i - 1)
      <4>1. Min({i - 1, Len(delta)}) = i - 1 /\ 0 + 1 = 1
        BY <2>1, <2>2, MinOfTwo
      <4>. QED  BY <4>1 DEF Slice
    <3>2. b = SubSeq(delta, i + 1, Len(delta))
      <4>1. Min({Len(delta), Len(delta)}) = Len(delta)
        BY <2>1, MinOfTwo
      <4>. QED  BY <4>1 DEF Slice
    <3>. HIDE DEF a, b
    <3>. QED  BY <3>1, <3>2 DEF RemoveAt
  <2>4. a \in Text
    BY <2>2, SliceIs
  <2>5. b \in Text
    BY <2>1, <2>2, SliceIs
  <2>6. ASSUME NEW j \in (i - 1) + 1 .. i PROVE ~IsBare(delta[j])
    <3>1. j = i
      BY <2>1
    <3>. QED  BY <2>1, <3>1 DEF IsBare
  <2>7. Bare(delta) = Bare(a) \o Bare(b)
    BY <2>2, <2>6, BareSkip
  <2>. HIDE DEF a, b
  <2>8. a \o b \in Text /\ Bare(a \o b) = Bare(a) \o Bare(b)
    BY <2>4, <2>5, BareConcat DEF Text
  <2>. QED  BY <2>3, <2>7, <2>8 DEF Alike
<1>4. \/ Mended(delta) = delta
      \/ Mended(delta) = RowsMended(delta)
      \/ breaks # {} /\ Mended(delta) = RemoveAt(delta, i)
  <2>1. CASE breaks = {}
    BY <2>1 DEF Mended
  <2>2. CASE breaks # {} /\ Cardinality(breaks) > 1
    BY <2>2 DEF Mended
  <2>3. CASE breaks # {} /\ ~(Cardinality(breaks) > 1)
    BY <2>3 DEF Mended
  <2>. QED  BY <2>1, <2>2, <2>3
<1>5. delta \in Alike(delta)
  BY DEF Alike
<1>. QED  BY <1>3, <1>4, <1>5, RowsMendedKeeps

\* A text whose end is exchanged for one like it.
LEMMA AlikeEnds ==
    ASSUME NEW a \in Text, NEW b \in Text, NEW c \in Alike(b)
    PROVE  a \o c \in Alike(a \o b)
<1>1. c \in Text /\ Bare(c) = Bare(b) /\ a \o c \in Text
  BY DEF Alike, Text
<1>2. Bare(a \o c) = Bare(a) \o Bare(c) /\ Bare(a \o b) = Bare(a) \o Bare(b)
  BY <1>1, BareConcat
<1>. QED  BY <1>1, <1>2 DEF Alike

\* So it is with the text between two reasoning blocks.
LEMMA SandwichedKeeps ==
    ASSUME NEW snapshot \in Text, NEW text \in Text
    PROVE  Sandwiched(snapshot, text).text \in Alike(text) /\ Sandwiched(snapshot, text).broken \in Text
<1>. DEFINE prefix == IF StartsWith(text, snapshot) THEN Slice(text, 0, Len(snapshot)) ELSE <<>>
            delta == Rest(text, Len(prefix))
<1>0. Len(text) \in Nat /\ Len(snapshot) \in Nat
  BY DEF Text
<1>1. PICK k \in 0 .. Len(text) : prefix = Slice(text, 0, k) /\ Len(prefix) = k
  <2>1. CASE StartsWith(text, snapshot)
    <3>1. Len(snapshot) <= Len(text) /\ 0 <= Len(snapshot) /\ 0 \in Nat
      BY <1>0, <2>1, StartsWithIs
    <3>2. Len(Slice(text, 0, Len(snapshot))) = Len(snapshot)
      <4>1. Len(Slice(text, 0, Len(snapshot))) = Len(snapshot) - 0
        BY <1>0, <3>1, SliceIs
      <4>. QED  BY <1>0, <4>1
    <3>. QED  BY <1>0, <2>1, <3>1, <3>2
  <2>2. CASE ~StartsWith(text, snapshot)
    <3>1. prefix = <<>> /\ Slice(text, 0, 0) = <<>>
      BY <2>2, WholeSlice
    <3>. QED  BY <1>0, <3>1
  <2>. QED  BY <2>1, <2>2
<1>2. prefix \in Text /\ delta = Slice(text, k, Len(text)) /\ delta \in Text /\ text = prefix \o delta
  <2>1. 0 \in Nat /\ 0 <= k /\ k <= Len(text) /\ k \in Nat
    BY <1>0
  <2>2. Slice(text, 0, k) \in Text
    BY <2>1, SliceIs
  <2>3. Slice(text, k, Len(text)) \in Text
    BY <1>0, <2>1, SliceIs
  <2>4. delta = Slice(text, k, Len(text))
    <3>. HIDE DEF prefix
    <3>. QED  BY <1>1, <2>1, WholeSlice
  <2>5. text = Slice(text, 0, k) \o Slice(text, k, Len(text))
    <3>1. Slice(text, 0, Len(text)) = Slice(text, 0, k) \o Slice(text, k, Len(text))
      BY <1>0, <2>1, SlicesJoin
    <3>. QED  BY <3>1, WholeSlice
  <2>. HIDE DEF delta, prefix
  <2>. QED  BY <1>1, <2>2, <2>3, <2>4, <2>5
<1>3. Sandwiched(snapshot, text) = IF Chars(Mended(delta)) = Chars(delta)
                                     THEN [text |-> text, broken |-> <<>>]
                                     ELSE [text |-> prefix \o Mended(delta), broken |-> delta]
  BY DEF Sandwiched
<1>. HIDE DEF prefix, delta
<1>4. prefix \o Mended(delta) \in Alike(text)
  <2>1. Mended(delta) \in Alike(delta)
    BY <1>2, MendedKeeps
  <2>2. prefix \o Mended(delta) \in Alike(prefix \o delta)
    BY <1>2, <2>1, AlikeEnds
  <2>. QED  BY <1>2, <2>2
<1>5. text \in Alike(text) /\ <<>> \in Text
  BY DEF Alike, Text
<1>6. CASE Chars(Mended(delta)) = Chars(delta)
  <2>1. Sandwiched(snapshot, text) = [text |-> text, broken |-> <<>>]
    BY <1>3, <1>6
  <2>. QED  BY <1>5, <2>1
<1>7. CASE Chars(Mended(delta)) # Chars(delta)
  <2>1. Sandwiched(snapshot, text) = [text |-> prefix \o Mended(delta), broken |-> delta]
    BY <1>3, <1>7
  <2>. DEFINE new == prefix \o Mended(delta)
  <2>2. new \in Alike(text) /\ Sandwiched(snapshot, text) = [text |-> new, broken |-> delta]
    BY <1>4, <2>1
  <2>. HIDE DEF new
  <2>3. Sandwiched(snapshot, text).text = new
    BY <2>2
  <2>4. Sandwiched(snapshot, text).broken = delta
    BY <2>2
  <2>. QED  BY <1>2, <2>2, <2>3, <2>4
<1>. QED  BY <1>6, <1>7

\* A repaired join leaves out line breaks.
LEMMA JoinsKeeps ==
    ASSUME NEW incoming \in Text, NEW prefix \in Text
    PROVE  Joins(incoming, prefix) \in Alike(incoming)
<1>. DEFINE suffix == Rest(incoming, Len(prefix))
            text == {i \in DOMAIN suffix : suffix[i].c # NL}
            rest == IF text = {} THEN <<>> ELSE Rest(suffix, Min(text) - 1)
            n == Len(incoming)
            k == Len(prefix)
<1>0. n \in Nat /\ k \in Nat
  BY DEF Text
<1>1. \/ Joins(incoming, prefix) = incoming
      \/ /\ StartsWith(incoming, prefix)
         /\ Joins(incoming, prefix) = SubSeq(incoming, 1, k) \o rest
  BY DEF Joins
<1>2. ASSUME k <= n PROVE SubSeq(incoming, 1, k) \o rest \in Alike(incoming)
  <2>1. suffix = Slice(incoming, k, n) /\ suffix \in Text
    <3>1. Slice(incoming, k, n) \in Text
      BY <1>0, <1>2, SliceIs
    <3>. QED  BY <1>0, <3>1, WholeSlice
  <2>2. SubSeq(incoming, 1, k) = Slice(incoming, 0, k) /\ Slice(incoming, 0, k) \in Text
    <3>1. Slice(incoming, 0, k) = SubSeq(incoming, 0 + 1, k)
      BY <1>0, <1>2, MinOfTwo DEF Slice
    <3>2. 0 \in Nat /\ 0 <= k
      BY <1>0
    <3>3. Slice(incoming, 0, k) \in Text
      BY <1>0, <1>2, <3>2, SliceIs
    <3>. QED  BY <3>1, <3>3
  <2>3. incoming = Slice(incoming, 0, k) \o suffix
    <3>1. Slice(incoming, 0, n) = Slice(incoming, 0, k) \o Slice(incoming, k, n)
      BY <1>0, <1>2, SlicesJoin
    <3>. QED  BY <2>1, <3>1, WholeSlice
  <2>4. rest \in Alike(suffix)
    <3>. HIDE DEF suffix
    <3>1. /\ text \in SUBSET Nat /\ \A i \in text : i \in 1 .. Len(suffix)
          /\ \A i \in 1 .. Len(suffix) : i \notin text => ~IsBare(suffix[i])
          /\ Len(suffix) \in Nat
      BY <2>1 DEF Text, IsBare
    <3>2. CASE text = {}
      <4>1. Bare(suffix) = <<>>
        BY <2>1, <3>1, <3>2, BareNothing DEF Text
      <4>2. rest = <<>> /\ <<>> \in Text
        BY <3>2 DEF Text
      <4>. QED  BY <4>1, <4>2, BareGrows DEF Alike
    <3>3. CASE text # {}
      <4>. DEFINE m == Min(text) - 1
      <4>1. /\ Min(text) \in 1 .. Len(suffix)
            /\ \A i \in text : Min(text) <= i
        BY <3>1, <3>3, Least
      <4>2. m \in Nat /\ m <= Len(suffix) /\ \A i \in 1 .. m : i \notin text
        <5>1. Min(text) \in Nat \ {0} /\ Min(text) <= Len(suffix)
          BY <3>1, <4>1
        <5>2. m \in Nat /\ m <= Len(suffix) /\ m < Min(text)
          BY <3>1, <5>1
        <5>3. ASSUME NEW i \in 1 .. m PROVE i \notin text
          <6>1. i < Min(text)
            BY <5>1, <5>2
          <6>. QED  BY <4>1, <5>1, <6>1
        <5>. QED  BY <5>2, <5>3
      <4>3. rest = Rest(suffix, m)
        BY <3>3
      <4>. HIDE DEF m, rest
      <4>4. rest = Slice(suffix, m, Len(suffix)) /\ rest \in Text
        <5>1. Slice(suffix, m, Len(suffix)) \in Text
          BY <2>1, <3>1, <4>2, SliceIs
        <5>. QED  BY <2>1, <4>2, <4>3, <5>1, WholeSlice
      <4>5. \A i \in 0 + 1 .. m : ~IsBare(suffix[i])
        BY <3>1, <4>2
      <4>6. Bare(Slice(suffix, 0, Len(suffix))) = Bare(rest)
        BY <2>1, <4>2, <4>4, <4>5, BareSkip
      <4>. QED  BY <2>1, <4>4, <4>6, WholeSlice DEF Alike
    <3>. QED  BY <3>2, <3>3
  <2>. HIDE DEF rest, suffix
  <2>5. Slice(incoming, 0, k) \o rest \in Alike(Slice(incoming, 0, k) \o suffix)
    BY <2>1, <2>2, <2>4, AlikeEnds
  <2>. QED  BY <2>2, <2>3, <2>5
<1>3. incoming \in Alike(incoming)
  BY DEF Alike
<1>. HIDE DEF rest
<1>. QED  BY <1>1, <1>2, <1>3, StartsWithIs

\* What goes where a fragment was.
LEMMA ReplacementKeeps ==
    ASSUME NEW text \in Text
    PROVE  AsReplacement(text) \in Alike(text)
<1>. DEFINE new == AsReplacement(text)
<1>1. \A char \in Char : [char EXCEPT !.c = "x"] \in Char
  BY DEF Char, Classes
<1>2. \A i \in 1 .. Len(text) : text[i] \in Char
  BY DEF Text
<1>3. new \in Text /\ Len(new) = Len(text)
      /\ \A i \in 1 .. Len(text) : new[i] = IF text[i].c = Math THEN [text[i] EXCEPT !.c = "x"] ELSE text[i]
  BY <1>1, <1>2 DEF AsReplacement, Text
<1>. HIDE DEF new
<1>4. ASSUME NEW i \in 1 .. Len(text) PROVE BareOf(new[i]) = BareOf(text[i])
  <2>1. text[i] \in Char
    BY <1>2
  <2>2. CASE text[i].c = Math
    <3>1. new[i].c = "x" /\ new[i].at = text[i].at
      BY <1>3, <2>1, <2>2 DEF Char
    <3>. QED  BY <2>2, <3>1 DEF BareOf, IsBare, NL, Fences, Fence, DiagramFence, Math
  <2>3. CASE text[i].c # Math
    BY <1>3, <2>3
  <2>. QED  BY <2>2, <2>3
<1>5. Bare(new) = Bare(text)
  BY <1>3, <1>4, BareSame
<1>. QED  BY <1>3, <1>5 DEF Alike, new

\* A replaced fragment leaves the bare characters.
LEMMA ReplacedKeeps ==
    ASSUME NEW text \in Text, NEW broken \in Text
    PROVE  Replaced(text, broken) \in Alike(text)
<1>. DEFINE n == Len(text)
            places == {i \in 0 .. n : StartsWith(Rest(text, i), broken)}
            from == Min(places)
            to == from + Len(broken)
            a == Slice(text, 0, from)
            b == Slice(text, from, to)
            c == Rest(text, to)
<1>0. n \in Nat /\ Len(broken) \in Nat
  BY DEF Text
<1>1. places \in SUBSET Nat
  BY <1>0
<1>2. ASSUME places # {}
      PROVE  a \o AsReplacement(Mended(b)) \o c \in Alike(text)
  <2>1. from \in 0 .. n /\ StartsWith(Rest(text, from), broken)
    <3>1. from \in places
      BY <1>1, <1>2, Least
    <3>. HIDE DEF from
    <3>. QED  BY <3>1
  <2>. HIDE DEF from
  <2>2. from \in Nat /\ to \in Nat /\ from <= to /\ to <= n /\ 0 \in Nat /\ 0 <= from /\ from <= n
    <3>1. from \in Nat /\ from <= n /\ to \in Nat /\ from <= to
      BY <1>0, <2>1
    <3>2. Rest(text, from) \in Text /\ Len(Rest(text, from)) = n - from
      <4>1. Slice(text, from, n) \in Text /\ Len(Slice(text, from, n)) = n - from
        <5>1. n <= Len(text)
          BY <1>0
        <5>. HIDE DEF n
        <5>. QED  BY <1>0, <3>1, <5>1, SliceIs
      <4>. QED  BY <3>1, <4>1, WholeSlice
    <3>3. Len(broken) <= n - from
      BY <2>1, <3>2, StartsWithIs
    <3>. QED  BY <1>0, <3>1, <3>3
  <2>. HIDE DEF to
  <2>3. a \in Text /\ b \in Text /\ Slice(text, to, n) \in Text
    <3>1. a \in Text
      BY <2>2, SliceIs
    <3>2. b \in Text
      BY <2>2, SliceIs
    <3>3. Slice(text, to, n) \in Text
      BY <1>0, <2>2, SliceIs
    <3>. QED  BY <3>1, <3>2, <3>3
  <2>4. c = Slice(text, to, n)
    BY <2>2, WholeSlice
  <2>5. text = (a \o b) \o c
    <3>1. Slice(text, 0, to) = a \o b
      BY <2>2, SlicesJoin
    <3>2. Slice(text, 0, n) = Slice(text, 0, to) \o Slice(text, to, n)
      BY <1>0, <2>2, SlicesJoin
    <3>. QED  BY <2>4, <3>1, <3>2, WholeSlice
  <2>. DEFINE d == AsReplacement(Mended(b))
  <2>. HIDE DEF a, b, c, n
  <2>6. d \in Text /\ Bare(d) = Bare(b)
    <3>1. Mended(b) \in Alike(b)
      BY <2>3, MendedKeeps
    <3>2. Mended(b) \in Text /\ Bare(Mended(b)) = Bare(b)
      BY <3>1 DEF Alike
    <3>3. AsReplacement(Mended(b)) \in Alike(Mended(b))
      BY <3>2, ReplacementKeeps
    <3>. QED  BY <3>2, <3>3 DEF Alike
  <2>. HIDE DEF d
  <2>7. c \in Text /\ a \o d \in Text /\ a \o b \in Text /\ (a \o d) \o c \in Text
    BY <2>3, <2>4, <2>6 DEF Text
  <2>8. Bare((a \o d) \o c) = Bare((a \o b) \o c)
    <3>1. Bare((a \o d) \o c) = (Bare(a) \o Bare(d)) \o Bare(c)
      <4>1. Bare((a \o d) \o c) = Bare(a \o d) \o Bare(c)
        BY <2>7, BareConcat
      <4>2. Bare(a \o d) = Bare(a) \o Bare(d)
        BY <2>3, <2>6, BareConcat
      <4>. QED  BY <4>1, <4>2
    <3>2. Bare((a \o b) \o c) = (Bare(a) \o Bare(b)) \o Bare(c)
      <4>1. Bare((a \o b) \o c) = Bare(a \o b) \o Bare(c)
        BY <2>7, BareConcat
      <4>2. Bare(a \o b) = Bare(a) \o Bare(b)
        BY <2>3, BareConcat
      <4>. QED  BY <4>1, <4>2
    <3>. QED  BY <2>6, <3>1, <3>2
  <2>. QED  BY <2>5, <2>7, <2>8 DEF Alike, d
<1>3. \/ Replaced(text, broken) = text
      \/ /\ places # {}
         /\ Replaced(text, broken) = a \o AsReplacement(Mended(b)) \o c
  BY DEF Replaced
<1>4. text \in Alike(text)
  BY DEF Alike
<1>. QED  BY <1>2, <1>3, <1>4

\* So do all repairs of a partial reply.
LEMMA AppliedKeeps ==
    ASSUME NEW incoming \in Text, prefixes \in Seq(Text), sandwich \in Text
    PROVE  Applied(incoming) \in Alike(incoming)
<1>. DEFINE S == Alike(incoming)
            n == Len(prefixes)
            base == incoming
            Eq(g) == g = [i \in 0 .. n |-> IF i = 0 THEN incoming ELSE Joins(g[i - 1], prefixes[i])]
            f == CHOOSE g : Eq(g)
            step == [i \in 1 .. n |-> [s \in S |-> Joins(s, prefixes[i])]]
<1>1. n \in Nat /\ base \in S /\ \A i \in 1 .. n : prefixes[i] \in Text
  BY DEF Alike
<1>2. ASSUME NEW s \in S, NEW prefix \in Text PROVE Joins(s, prefix) \in S
  BY JoinsKeeps DEF Alike
<1>. HIDE DEF S, base
<1>3. step \in [1 .. n -> [S -> S]]
  BY <1>1, <1>2
<1>4. PICK g \in Runs(S, base, n, step) : TRUE
  <2>. HIDE DEF step, n
  <2>. QED  BY <1>1, <1>3, Recursion
<1>5. Eq(g)
  <2>1. /\ g \in [0 .. n -> S] /\ g[0] = base
        /\ \A i \in 1 .. n : g[i] = step[i][g[i - 1]]
    BY <1>4 DEF Runs
  <2>2. \A i \in 1 .. n : i - 1 \in 0 .. n /\ g[i - 1] \in S
    BY <1>1, <2>1
  <2>3. \A i \in 1 .. n : g[i] = Joins(g[i - 1], prefixes[i])
    BY <2>1, <2>2
  <2>. QED  BY <1>1, <2>1, <2>3 DEF base
<1>6. Eq(f)
  <2>. HIDE DEF Eq
  <2>. QED  BY <1>5
<1>7. StaysIn(S, n, f)
  <2>. HIDE DEF f
  <2>. QED  BY <1>1, <1>2, <1>6 DEF base, StaysIn
<1>8. f[n] \in S
  <2>. HIDE DEF f, n
  <2>. QED  BY <1>1, <1>7, Iterated
<1>9. Applied(incoming) = Replaced(f[n], sandwich)
  BY DEF Applied
<1>10. f[n] \in Text /\ Bare(f[n]) = Bare(incoming)
  BY <1>8 DEF S, Alike
<1>. HIDE DEF f
<1>. QED  BY <1>9, <1>10, ReplacedKeeps DEF Alike

-----------------------------------------------------------------------------
(* Preparing a text for sending costs no character *)

\* How a text begins, and that it is one line.
Begins(text, o) == Len(o) <= Len(text) /\ \A i \in 1 .. Len(o) : text[i] = o[i]
IsFlat(o) == \A i \in 1 .. Len(o) : o[i].c # NL

\* What is put behind a text leaves its beginning.
LEMMA BeginsMore ==
    ASSUME NEW text \in Text, NEW o \in Text, Begins(text, o)
    PROVE  /\ \A char \in Char : Begins(Append(text, char), o)
           /\ \A more \in Text : Begins(text \o more, o)
<1>0. Len(text) \in Nat /\ Len(o) \in Nat /\ Len(o) <= Len(text)
  BY DEF Begins, Text
<1>1. ASSUME NEW char \in Char PROVE Begins(Append(text, char), o)
  <2>1. /\ Len(Append(text, char)) = Len(text) + 1
        /\ \A i \in 1 .. Len(text) : Append(text, char)[i] = text[i]
    BY AppendIs DEF Text
  <2>. QED  BY <1>0, <2>1 DEF Begins
<1>2. ASSUME NEW more \in Text PROVE Begins(text \o more, o)
  <2>1. /\ Len(text \o more) = Len(text) + Len(more) /\ Len(more) \in Nat
        /\ \A i \in 1 .. Len(text) : (text \o more)[i] = text[i]
    BY ConcatIs DEF Text
  <2>. QED  BY <1>0, <2>1 DEF Begins
<1>. QED  BY <1>1, <1>2

\* Blank lines that go from a formula, step by step.
LEMMA NormalizeRun ==
    ASSUME NEW text \in Text
    PROVE  \E f : /\ f[0] = <<>>
                  /\ \A i \in 1 .. Len(text) :
                        \/ f[i] = f[i - 1] /\ text[i].c = NL
                        \/ f[i] = Append(f[i - 1], text[i])
                  /\ \A i \in 0 .. Len(text) : f[i] \in Text
                  /\ NormalizeMath(text) = f[Len(text)]
<1>. DEFINE S == Text
            n == Len(text)
            base == <<>>
            inMath(i) == IsOdd({j \in Positions(text, Math) : j < i /\ ~InFence(text, j)})
            Doubled(i) == text[i].c = NL /\ i > 1 /\ text[i - 1].c = NL /\ inMath(i)
            Keep(kept, i) == IF Doubled(i) THEN kept ELSE Append(kept, text[i])
            Eq(g) == g = [i \in 0 .. n |-> IF i = 0 THEN <<>> ELSE Keep(g[i - 1], i)]
            f == CHOOSE g : Eq(g)
            step == [i \in 1 .. n |-> [s \in S |-> Keep(s, i)]]
<1>1. n \in Nat /\ base \in S
  BY DEF Text
<1>2. ASSUME NEW s \in S, NEW i \in 1 .. n PROVE Keep(s, i) \in S
  <2>1. text[i] \in Char
    BY DEF Text
  <2>2. Append(s, text[i]) \in S
    BY <2>1 DEF Text
  <2>. HIDE DEF Doubled
  <2>. QED  BY <2>2
<1>3. ASSUME NEW s, NEW i PROVE Keep(s, i) = Append(s, text[i]) \/ (Keep(s, i) = s /\ text[i].c = NL)
  <2>1. Doubled(i) => text[i].c = NL
    OBVIOUS
  <2>. HIDE DEF Doubled
  <2>. QED  BY <2>1
<1>4. NormalizeMath(text) = f[n]
  BY DEF NormalizeMath
<1>. HIDE DEF S, Keep, base
<1>5. step \in [1 .. n -> [S -> S]]
  BY <1>2
<1>6. PICK g \in Runs(S, base, n, step) : TRUE
  <2>. HIDE DEF step, n
  <2>. QED  BY <1>1, <1>5, Recursion
<1>7. Eq(g)
  <2>1. /\ g \in [0 .. n -> S] /\ g[0] = base
        /\ \A i \in 1 .. n : g[i] = step[i][g[i - 1]]
    BY <1>6 DEF Runs
  <2>2. \A i \in 1 .. n : i - 1 \in 0 .. n /\ g[i - 1] \in S
    BY <1>1, <2>1
  <2>3. \A i \in 1 .. n : g[i] = Keep(g[i - 1], i)
    BY <2>1, <2>2
  <2>. QED  BY <1>1, <2>1, <2>3 DEF base
<1>8. Eq(f)
  <2>. HIDE DEF Eq
  <2>. QED  BY <1>7
<1>9. StaysIn(S, n, f)
  <2>. HIDE DEF f
  <2>. QED  BY <1>1, <1>2, <1>8 DEF base, StaysIn
<1>10. \A i \in 0 .. n : f[i] \in S
  <2>. HIDE DEF f, n
  <2>. QED  BY <1>1, <1>9, Iterated
<1>11. f[0] = <<>>
  <2>. HIDE DEF f
  <2>. QED  BY <1>1, <1>8
<1>12. ASSUME NEW i \in 1 .. n
       PROVE  f[i] = Append(f[i - 1], text[i]) \/ (f[i] = f[i - 1] /\ text[i].c = NL)
  <2>. HIDE DEF f
  <2>1. i \in 0 .. n /\ i # 0
    BY <1>1
  <2>2. f[i] = Keep(f[i - 1], i)
    BY <1>8, <2>1
  <2>. QED  BY <1>3, <2>2
<1>. HIDE DEF f
<1>. QED  BY <1>4, <1>10, <1>11, <1>12 DEF S

\* They cost no other character, and leave how the text begins.
LEMMA NormalizeKeeps ==
    ASSUME NEW text \in Text, NEW o \in Text, IsFlat(o), Begins(text, o)
    PROVE  NormalizeMath(text) \in Alike(text) /\ Begins(NormalizeMath(text), o)
<1>. DEFINE n == Len(text)
            m == Len(o)
<1>0. n \in Nat /\ m \in Nat /\ m <= n /\ \A i \in 1 .. m : text[i] = o[i] /\ text[i].c # NL
  BY DEF Begins, IsFlat, Text
<1>1. PICK f : /\ f[0] = <<>>
               /\ \A i \in 1 .. n : \/ f[i] = f[i - 1] /\ text[i].c = NL
                                    \/ f[i] = Append(f[i - 1], text[i])
               /\ \A i \in 0 .. n : f[i] \in Text
               /\ NormalizeMath(text) = f[n]
  BY NormalizeRun
<1>. DEFINE T == {i \in 0 .. n : /\ Bare(f[i]) = Bare(SubSeq(text, 1, i))
                                 /\ i <= m => f[i] = SubSeq(text, 1, i)
                                 /\ i >= m => Begins(f[i], o)}
<1>2. 0 \in T
  <2>1. SubSeq(text, 1, 0) = <<>>
    BY SubSeqGrows DEF Text
  <2>2. 0 >= m => Begins(f[0], o)
    BY <1>0, <1>1 DEF Begins
  <2>3. f[0] = SubSeq(text, 1, 0) /\ 0 \in 0 .. n
    BY <1>0, <1>1, <2>1
  <2>. HIDE DEF n, m
  <2>. QED  BY <2>2, <2>3
<1>3. ASSUME NEW i \in 1 .. n, i - 1 \in T PROVE i \in T
  <2>1. /\ i - 1 \in 0 .. n /\ i \in 0 .. n /\ f[i - 1] \in Text /\ text[i] \in Char /\ f[i] \in Text
        /\ Bare(f[i - 1]) = Bare(SubSeq(text, 1, i - 1))
        /\ i - 1 <= m => f[i - 1] = SubSeq(text, 1, i - 1)
        /\ i - 1 >= m => Begins(f[i - 1], o)
    BY <1>0, <1>1, <1>3 DEF Text
  <2>2. SubSeq(text, 1, i - 1) \in Text /\ SubSeq(text, 1, i) = Append(SubSeq(text, 1, i - 1), text[i])
    BY SubSeqGrows DEF Text
  <2>3. /\ Bare(SubSeq(text, 1, i)) = Bare(SubSeq(text, 1, i - 1)) \o BareOf(text[i])
        /\ Bare(Append(f[i - 1], text[i])) = Bare(f[i - 1]) \o BareOf(text[i])
    BY <2>1, <2>2, BareGrows
  <2>4. Bare(f[i]) = Bare(SubSeq(text, 1, i))
    <3>1. CASE f[i] = f[i - 1] /\ text[i].c = NL
      <4>1. BareOf(text[i]) = <<>> /\ Bare(f[i - 1]) \in Seq(Nat)
        BY <2>1, <3>1, BareGrows DEF BareOf, IsBare
      <4>2. Bare(f[i - 1]) \o <<>> = Bare(f[i - 1])
        BY <4>1
      <4>. QED  BY <2>1, <2>3, <3>1, <4>1, <4>2
    <3>2. CASE f[i] = Append(f[i - 1], text[i])
      BY <2>1, <2>3, <3>2
    <3>. QED  BY <1>1, <3>1, <3>2
  <2>5. i <= m => f[i] = SubSeq(text, 1, i)
    <3>. SUFFICES ASSUME i <= m PROVE f[i] = SubSeq(text, 1, i)
      OBVIOUS
    <3>1. text[i].c # NL /\ i - 1 <= m
      BY <1>0
    <3>2. f[i] = Append(f[i - 1], text[i])
      BY <1>1, <3>1
    <3>. QED  BY <2>1, <2>2, <3>1, <3>2
  <2>6. i >= m => Begins(f[i], o)
    <3>. SUFFICES ASSUME i >= m PROVE Begins(f[i], o)
      OBVIOUS
    <3>1. CASE i = m
      <4>1. f[i] = SubSeq(text, 1, i)
        BY <1>0, <2>5, <3>1
      <4>2. Len(SubSeq(text, 1, i)) = i /\ \A j \in 1 .. i : SubSeq(text, 1, i)[j] = text[j]
        BY DEF Text
      <4>. QED  BY <1>0, <3>1, <4>1, <4>2 DEF Begins
    <3>2. CASE i # m
      <4>1. Begins(f[i - 1], o)
        BY <1>0, <2>1, <3>2
      <4>2. Begins(Append(f[i - 1], text[i]), o)
        BY <2>1, <4>1, BeginsMore
      <4>. QED  BY <1>1, <4>1, <4>2
    <3>. QED  BY <3>1, <3>2
  <2>. QED  BY <2>1, <2>4, <2>5, <2>6
<1>4. n \in T
  <2>1. n \in 0 .. n
    BY <1>0
  <2>. HIDE DEF T, n
  <2>. QED  BY <1>0, <1>2, <1>3, <2>1, Steps
<1>5. SubSeq(text, 1, n) = text
  BY SubSeqGrows DEF Text
<1>. QED  BY <1>0, <1>1, <1>4, <1>5 DEF Alike

\* How the first of some lines begins
Opens(lines, o) == lines # <<>> /\ Begins(lines[1], o)

\* Lines that are put behind leave how the first begins, and so does joining them.
LEMMA OpensMore ==
    ASSUME NEW lines \in Seq(Text), NEW o \in Text, Opens(lines, o)
    PROVE  /\ \A line \in Text : /\ Opens(Append(lines, line), o)
                                 /\ Opens(Append(Front(lines), Last(lines) \o line), o)
           /\ \A more \in Seq(Text) : Opens(lines \o more, o)
           /\ Begins(Joined(lines), o)
<1>. DEFINE n == Len(lines)
<1>0. n \in Nat \ {0} /\ lines[1] \in Text /\ Begins(lines[1], o)
  BY DEF Opens
<1>1. ASSUME NEW line \in Text PROVE Opens(Append(lines, line), o)
  <2>1. /\ Len(Append(lines, line)) = n + 1 /\ 1 \in 1 .. n
        /\ \A i \in 1 .. n : Append(lines, line)[i] = lines[i]
    BY <1>0, AppendIs
  <2>2. Append(lines, line) # <<>>
    BY <1>0, <2>1
  <2>. QED  BY <1>0, <2>1, <2>2 DEF Opens
<1>2. ASSUME NEW line \in Text PROVE Opens(Append(Front(lines), Last(lines) \o line), o)
  <2>. DEFINE f == Front(lines)
              l == Last(lines) \o line
              more == Append(f, l)
  <2>1. /\ f \in Seq(Text) /\ Len(f) = n - 1 /\ Last(lines) = lines[n] /\ Last(lines) \in Text
        /\ \A i \in 1 .. n - 1 : f[i] = lines[i]
    BY FrontLast DEF Opens
  <2>2. l \in Text
    BY <2>1 DEF Text
  <2>3. n = 1 => Begins(l, o)
    BY <1>0, <2>1, BeginsMore
  <2>. HIDE DEF f, l
  <2>4. /\ Len(more) = Len(f) + 1 /\ more[Len(f) + 1] = l
        /\ \A i \in 1 .. Len(f) : more[i] = f[i]
    BY <2>1, <2>2, AppendIs
  <2>. HIDE DEF more, n
  <2>5. CASE n = 1
    <3>1. Len(f) + 1 = 1 /\ Len(more) = 1
      BY <2>1, <2>4, <2>5
    <3>2. more[1] = l /\ more # <<>>
      BY <2>4, <3>1
    <3>. QED  BY <2>3, <2>5, <3>2 DEF Opens, f, l, more
  <2>6. CASE n # 1
    <3>1. 1 \in 1 .. n - 1 /\ 1 \in 1 .. Len(f) /\ Len(more) = n
      BY <1>0, <2>1, <2>4, <2>6
    <3>2. more[1] = lines[1] /\ more # <<>>
      BY <1>0, <2>1, <2>4, <3>1
    <3>. QED  BY <1>0, <3>2 DEF Opens, f, l, more
  <2>. QED  BY <2>5, <2>6
<1>3. ASSUME NEW more \in Seq(Text) PROVE Opens(lines \o more, o)
  <2>1. /\ Len(lines \o more) = n + Len(more) /\ Len(more) \in Nat /\ 1 \in 1 .. n
        /\ \A i \in 1 .. n : (lines \o more)[i] = lines[i]
    BY <1>0, ConcatIs
  <2>2. lines \o more # <<>>
    BY <1>0, <2>1
  <2>. QED  BY <1>0, <2>1, <2>2 DEF Opens
<1>4. Begins(Joined(lines), o)
  <2>1. PICK f : /\ f[0] = <<>>
                 /\ \A i \in 1 .. n :
                      f[i] = IF i = 1 THEN lines[1] ELSE f[i - 1] \o <<Added(NL)>> \o lines[i]
                 /\ \A i \in 0 .. n : f[i] \in Text
                 /\ Joined(lines) = f[n]
    BY JoinedRun
  <2>. DEFINE T == {i \in 0 .. n : i > 0 => Begins(f[i], o)}
  <2>2. 0 \in T
    BY <1>0
  <2>3. ASSUME NEW i \in 1 .. n, i - 1 \in T PROVE i \in T
    <3>1. i \in 0 .. n /\ i - 1 \in 0 .. n
      BY <1>0
    <3>2. CASE i = 1
      BY <1>0, <2>1, <3>1, <3>2
    <3>3. CASE i # 1
      <4>1. i - 1 > 0
        BY <3>3
      <4>2. Begins(f[i - 1], o) /\ f[i - 1] \in Text
        BY <2>1, <2>3, <3>1, <4>1
      <4>3. <<Added(NL)>> \in Text /\ lines[i] \in Text
        <5>1. Added(NL) \in Char
          BY AddedTyped DEF Classes
        <5>. QED  BY <5>1 DEF Text
      <4>4. Begins(f[i - 1] \o <<Added(NL)>>, o) /\ f[i - 1] \o <<Added(NL)>> \in Text
        BY <4>2, <4>3, BeginsMore, ConcatIs DEF Text
      <4>5. Begins((f[i - 1] \o <<Added(NL)>>) \o lines[i], o)
        BY <4>3, <4>4, BeginsMore
      <4>. QED  BY <2>1, <3>1, <3>3, <4>5
    <3>. QED  BY <3>2, <3>3
  <2>4. n \in T
    <3>1. n \in 0 .. n /\ n \in Nat
      BY <1>0
    <3>. HIDE DEF T, n
    <3>. QED  BY <2>2, <2>3, <3>1, Steps
  <2>. QED  BY <1>0, <2>1, <2>4
<1>. QED  BY <1>1, <1>2, <1>3, <1>4

\* A text that is one line.
LEMMA OneLine ==
    ASSUME NEW o \in Text, IsFlat(o)
    PROVE  Lines(o) = <<o>>
<1>. DEFINE T == {t \in Text : IsFlat(t) => Lines(t) = <<t>>}
<1>1. <<>> \in T
  BY LinesGrow DEF Text
<1>2. ASSUME NEW t \in T, NEW char \in Char PROVE Append(t, char) \in T
  <2>. DEFINE more == Append(t, char)
  <2>1. /\ more \in Text /\ Len(more) = Len(t) + 1 /\ Len(t) \in Nat /\ more[Len(t) + 1] = char
        /\ \A i \in 1 .. Len(t) : more[i] = t[i]
    BY AppendIs DEF Text
  <2>2. Lines(more) = NextLines(Lines(t), char)
    BY LinesGrow
  <2>. HIDE DEF more
  <2>3. ASSUME IsFlat(more) PROVE Lines(more) = <<more>>
    <3>1. \A i \in 1 .. Len(t) : i \in 1 .. Len(more)
      BY <2>1
    <3>2. Len(t) + 1 \in 1 .. Len(more)
      BY <2>1
    <3>3. IsFlat(t) /\ char.c # NL
      BY <2>1, <2>3, <3>1, <3>2 DEF IsFlat
    <3>4. Lines(t) = <<t>>
      BY <3>3
    <3>5. Front(<<t>>) = <<>> /\ Last(<<t>>) = t
      BY DEF Front, Last
    <3>6. Lines(more) = Append(<<>>, more)
      BY <2>2, <3>3, <3>4, <3>5 DEF NextLines, more
    <3>. QED  BY <3>6
  <2>. QED  BY <2>1, <2>3 DEF more
<1>3. T = Text
  <2>1. T \in SUBSET Seq(Char) /\ Text = Seq(Char)
    BY DEF Text
  <2>. HIDE DEF T
  <2>. QED  BY <1>1, <1>2, <2>1, TextInduction
<1>. QED  BY <1>3

\* A text that begins like another is that one and a rest.
LEMMA BeginsIs ==
    ASSUME NEW text \in Text, NEW o \in Text, Begins(text, o)
    PROVE  \E z \in Text : text = o \o z
<1>. DEFINE z == Slice(text, Len(o), Len(text))
            a == Slice(text, 0, Len(o))
<1>1. Len(o) \in Nat /\ Len(text) \in Nat /\ Len(o) <= Len(text) /\ 0 <= Len(o) /\ 0 \in Nat
  BY DEF Begins, Text
<1>2. a \in Text /\ z \in Text
  BY <1>1, SliceIs
<1>3. text = a \o z
  <2>1. Slice(text, 0, Len(text)) = a \o z
    BY <1>1, SlicesJoin
  <2>. QED  BY <2>1, WholeSlice
<1>4. a = o
  <2>1. Len(a) = Len(o) - 0 /\ \A i \in 1 .. Len(o) - 0 : a[i] = text[0 + i]
    BY <1>1, SliceIs
  <2>. HIDE DEF a
  <2>2. Len(a) = Len(o) /\ \A i \in 1 .. Len(o) : a[i] = o[i]
    BY <1>1, <2>1 DEF Begins
  <2>. QED  BY <1>2, <2>2, SameSeq DEF Text
<1>. HIDE DEF z
<1>. QED  BY <1>2, <1>3, <1>4

\* What is on the first line of a text is so of its lines.
LEMMA LinesOpen ==
    ASSUME NEW text \in Text, NEW o \in Text, IsFlat(o), Begins(text, o)
    PROVE  Opens(Lines(text), o)
<1>. DEFINE T == {z \in Text : Opens(Lines(o \o z), o)}
<1>1. <<>> \in T
  <2>1. o \o <<>> = o /\ <<>> \in Text
    BY DEF Text
  <2>2. Lines(o) = <<o>>
    BY OneLine
  <2>3. Begins(o, o)
    BY DEF Begins, Text
  <2>. QED  BY <2>1, <2>2, <2>3 DEF Opens
<1>2. ASSUME NEW z \in T, NEW char \in Char PROVE Append(z, char) \in T
  <2>. DEFINE lines == Lines(o \o z)
  <2>1. Append(z, char) \in Text /\ o \o z \in Text /\ o \o Append(z, char) = Append(o \o z, char)
    BY DEF Text
  <2>2. Lines(o \o Append(z, char)) = NextLines(lines, char)
    BY <2>1, LinesGrow
  <2>3. lines \in Seq(Text) /\ lines # <<>> /\ Opens(lines, o)
    BY <2>1, LinesTyped
  <2>. HIDE DEF lines
  <2>4. CASE char.c = NL
    <3>1. <<>> \in Text
      BY DEF Text
    <3>. QED  BY <2>1, <2>2, <2>3, <2>4, <3>1, OpensMore DEF NextLines
  <2>5. CASE char.c # NL
    <3>1. <<char>> \in Text /\ Append(Last(lines), char) = Last(lines) \o <<char>>
      <4>1. Last(lines) \in Seq(Char)
        BY <2>3, FrontLast DEF Text
      <4>. QED  BY <4>1 DEF Text
    <3>2. Opens(Append(Front(lines), Last(lines) \o <<char>>), o)
      BY <2>3, <3>1, OpensMore
    <3>. QED  BY <2>1, <2>2, <2>5, <3>1, <3>2 DEF NextLines
  <2>. QED  BY <2>4, <2>5
<1>3. T = Text
  <2>1. T \in SUBSET Seq(Char) /\ Text = Seq(Char)
    BY DEF Text
  <2>. HIDE DEF T
  <2>. QED  BY <1>1, <1>2, <2>1, TextInduction
<1>4. PICK z \in Text : text = o \o z
  BY BeginsIs
<1>. QED  BY <1>3, <1>4

\* Lines behind lines.
LEMMA BareLinesConcat ==
    ASSUME NEW a \in Seq(Text), NEW b \in Seq(Text)
    PROVE  BareLines(a \o b) = BareLines(a) \o BareLines(b)
<1>. DEFINE T == {t \in Seq(Text) : BareLines(a \o t) = BareLines(a) \o BareLines(t)}
<1>1. <<>> \in T
  <2>1. a \o <<>> = a /\ <<>> \in Seq(Text)
    OBVIOUS
  <2>2. BareLines(a) \in Seq(Nat) /\ BareLines(<<>>) = <<>>
    BY BareLinesGrow
  <2>. QED  BY <2>1, <2>2
<1>2. ASSUME NEW t \in T, NEW line \in Text PROVE Append(t, line) \in T
  <2>1. /\ Append(t, line) \in Seq(Text) /\ a \o t \in Seq(Text)
        /\ a \o Append(t, line) = Append(a \o t, line)
    OBVIOUS
  <2>2. /\ BareLines(a \o Append(t, line)) = BareLines(a \o t) \o Bare(line)
        /\ BareLines(Append(t, line)) = BareLines(t) \o Bare(line)
    BY <2>1, BareLinesGrow
  <2>3. BareLines(a) \in Seq(Nat) /\ BareLines(t) \in Seq(Nat) /\ Bare(line) \in Seq(Nat)
    BY BareLinesGrow, BareGrows
  <2>4. (BareLines(a) \o BareLines(t)) \o Bare(line) = BareLines(a) \o (BareLines(t) \o Bare(line))
    BY <2>3
  <2>. QED  BY <2>1, <2>2, <2>4
<1>3. T = Seq(Text)
  <2>1. T \in SUBSET Seq(Text)
    OBVIOUS
  <2>. HIDE DEF T
  <2>. QED  BY <1>1, <1>2, <2>1, TextInduction
<1>. QED  BY <1>3

\* The rows of a torn table, step by step.
HealedRow(rows, line) ==
    IF line = <<>> THEN rows
    ELSE IF rows # <<>> /\ ~(Last(Last(rows)).c = Pipe /\ Head(line).c = Pipe)
      THEN Append(Front(rows), Last(rows) \o line) ELSE Append(rows, line)

\* Healed as a recursive function.
LEMMA HealedRun ==
    ASSUME NEW region \in Seq(Text)
    PROVE  \E f : /\ f[0] = <<>>
                  /\ \A i \in 1 .. Len(region) : f[i] = HealedRow(f[i - 1], region[i])
                  /\ \A i \in 0 .. Len(region) : f[i] \in Seq(Text)
                  /\ Healed(region) \in {region, f[Len(region)]}
<1>. DEFINE S == Seq(Text)
            n == Len(region)
            base == <<>>
            Merge(rows, line) ==
              IF line = <<>> THEN rows
              ELSE IF rows # <<>> /\ ~(Last(Last(rows)).c = Pipe /\ Head(line).c = Pipe)
                THEN Append(Front(rows), Last(rows) \o line) ELSE Append(rows, line)
            Eq(g) == g = [i \in 0 .. n |-> IF i = 0 THEN <<>> ELSE Merge(g[i - 1], region[i])]
            f == CHOOSE g : Eq(g)
            step == [i \in 1 .. n |-> [s \in S |-> Merge(s, region[i])]]
<1>1. n \in Nat /\ base \in S /\ \A i \in 1 .. n : region[i] \in Text
  OBVIOUS
<1>2. ASSUME NEW s \in S, NEW line \in Text PROVE Merge(s, line) \in S
  <2>1. CASE s # <<>>
    <3>1. Len(s) \in Nat \ {0} /\ Last(s) \in Text /\ Front(s) \in Seq(Text)
      BY <2>1 DEF Last, Front
    <3>2. Last(s) \o line \in Text
      BY <3>1 DEF Text
    <3>3. Append(Front(s), Last(s) \o line) \in S /\ Append(s, line) \in S
      BY <3>1, <3>2
    <3>. QED  BY <3>3
  <2>2. CASE s = <<>>
    BY <2>2
  <2>. QED  BY <2>1, <2>2
<1>3. Healed(region) \in {region, f[n]}
  BY DEF Healed
<1>. HIDE DEF S, Merge, base
<1>4. step \in [1 .. n -> [S -> S]]
  BY <1>1, <1>2
<1>5. PICK g \in Runs(S, base, n, step) : TRUE
  <2>. HIDE DEF step, n
  <2>. QED  BY <1>1, <1>4, Recursion
<1>6. Eq(g)
  <2>1. /\ g \in [0 .. n -> S] /\ g[0] = base
        /\ \A i \in 1 .. n : g[i] = step[i][g[i - 1]]
    BY <1>5 DEF Runs
  <2>2. \A i \in 1 .. n : i - 1 \in 0 .. n /\ g[i - 1] \in S
    BY <1>1, <2>1
  <2>3. \A i \in 1 .. n : g[i] = Merge(g[i - 1], region[i])
    BY <2>1, <2>2
  <2>. QED  BY <1>1, <2>1, <2>3 DEF base
<1>7. Eq(f)
  <2>. HIDE DEF Eq
  <2>. QED  BY <1>6
<1>8. StaysIn(S, n, f)
  <2>. HIDE DEF f
  <2>. QED  BY <1>1, <1>2, <1>7 DEF base, StaysIn
<1>9. \A i \in 0 .. n : f[i] \in S
  <2>. HIDE DEF f, n
  <2>. QED  BY <1>1, <1>8, Iterated
<1>10. f[0] = <<>>
  <2>. HIDE DEF f
  <2>. QED  BY <1>1, <1>7
<1>11. ASSUME NEW i \in 1 .. n PROVE f[i] = HealedRow(f[i - 1], region[i])
  <2>. HIDE DEF f
  <2>1. i \in 0 .. n /\ i # 0
    BY <1>1
  <2>. QED  BY <1>7, <2>1 DEF Merge, HealedRow
<1>. HIDE DEF f
<1>. QED  BY <1>3, <1>9, <1>10, <1>11 DEF S

\* A table that is healed keeps its characters and how it begins.
LEMMA HealedKeeps ==
    ASSUME NEW region \in Seq(Text)
    PROVE  /\ Healed(region) \in Seq(Text) /\ BareLines(Healed(region)) = BareLines(region)
           /\ \A o \in Text : o # <<>> /\ Opens(region, o) => Opens(Healed(region), o)
<1>. DEFINE n == Len(region)
<1>0. n \in Nat /\ \A i \in 1 .. n : region[i] \in Text
  OBVIOUS
<1>1. PICK f : /\ f[0] = <<>>
               /\ \A i \in 1 .. n : f[i] = HealedRow(f[i - 1], region[i])
               /\ \A i \in 0 .. n : f[i] \in Seq(Text)
               /\ Healed(region) \in {region, f[n]}
  BY HealedRun
<1>. DEFINE Kept(i) == BareLines(f[i]) = BareLines(SubSeq(region, 1, i))
            Opened1(i) == \A o \in Text : i > 0 /\ o # <<>> /\ Opens(region, o) => Opens(f[i], o)
            T == {i \in 0 .. n : Kept(i) /\ Opened1(i)}
<1>2. 0 \in T
  <2>1. f[0] = SubSeq(region, 1, 0)
    BY <1>1, SubSeqGrows
  <2>2. 0 \in 0 .. n
    BY <1>0
  <2>3. Kept(0) /\ Opened1(0)
    BY <2>1
  <2>. HIDE DEF Kept, Opened1
  <2>. QED  BY <2>2, <2>3
<1>3. ASSUME NEW i \in 1 .. n, i - 1 \in T PROVE i \in T
  <2>. DEFINE rows == f[i - 1]
              line == region[i]
              new == f[i]
  <2>1. /\ i - 1 \in 0 .. n /\ i \in 0 .. n /\ rows \in Seq(Text) /\ line \in Text /\ new \in Seq(Text)
        /\ Kept(i - 1) /\ Opened1(i - 1) /\ new = HealedRow(rows, line)
    BY <1>0, <1>1, <1>3
  <2>2. BareLines(SubSeq(region, 1, i)) = BareLines(SubSeq(region, 1, i - 1)) \o Bare(line)
    <3>1. /\ SubSeq(region, 1, i - 1) \in Seq(Text)
          /\ SubSeq(region, 1, i) = Append(SubSeq(region, 1, i - 1), region[i])
      BY SubSeqGrows
    <3>. QED  BY <2>1, <3>1, BareLinesGrow
  <2>. HIDE DEF rows, line, new
  <2>3. \/ line = <<>> /\ new = rows
        \/ line # <<>> /\ rows # <<>> /\ new = Append(Front(rows), Last(rows) \o line)
        \/ line # <<>> /\ new = Append(rows, line)
    BY <2>1 DEF HealedRow
  <2>4. BareLines(new) = BareLines(rows) \o Bare(line)
    <3>1. CASE line = <<>> /\ new = rows
      <4>1. BareLines(rows) \in Seq(Nat) /\ Bare(<<>>) = <<>>
        BY <2>1, BareLinesGrow, BareGrows
      <4>. QED  BY <3>1, <4>1
    <3>2. CASE rows # <<>> /\ new = Append(Front(rows), Last(rows) \o line)
      BY <2>1, <3>2, MergeLast
    <3>3. CASE new = Append(rows, line)
      BY <2>1, <3>3, BareLinesGrow
    <3>. QED  BY <2>3, <3>1, <3>2, <3>3
  <2>5. Kept(i)
    BY <2>1, <2>2, <2>4 DEF rows, new
  <2>6. Opened1(i)
    <3>. SUFFICES ASSUME NEW o \in Text, o # <<>>, Opens(region, o) PROVE Opens(new, o)
      BY DEF new
    <3>1. CASE i = 1
      <4>1. rows = <<>> /\ line = region[1] /\ Begins(line, o)
        BY <1>1, <3>1 DEF rows, line, Opens
      <4>2. line # <<>>
        BY <4>1 DEF Begins, Text
      <4>3. new = Append(<<>>, line)
        BY <2>3, <4>1, <4>2
      <4>4. new # <<>> /\ new[1] = line
        BY <4>3
      <4>. QED  BY <4>1, <4>4 DEF Opens
    <3>2. CASE i # 1
      <4>1. i - 1 > 0
        BY <3>2
      <4>2. Opens(rows, o)
        BY <2>1, <4>1 DEF rows
      <4>. QED  BY <2>1, <2>3, <4>2, OpensMore
    <3>. QED  BY <3>1, <3>2
  <2>. QED  BY <2>1, <2>5, <2>6
<1>4. n \in T
  <2>1. n \in 0 .. n
    BY <1>0
  <2>. HIDE DEF T, n
  <2>. QED  BY <1>0, <1>2, <1>3, <2>1, Steps
<1>5. SubSeq(region, 1, n) = region /\ f[n] \in Seq(Text)
  BY <1>0, <1>1, SubSeqGrows
<1>6. ASSUME NEW o \in Text, o # <<>>, Opens(region, o) PROVE Opens(f[n], o)
  <2>1. n > 0
    BY <1>0, <1>6 DEF Opens
  <2>. QED  BY <1>4, <1>6, <2>1
<1>. HIDE DEF Opened1, n
<1>. QED  BY <1>1, <1>4, <1>5, <1>6

\* Tables that are healed, region by region, step by step.
Regions == [out : Seq(Text), region : Seq(Text)]

\* One line more, which goes on with a region, ends it or is outside of all.
NextRegion(acc, lines, inside, i) ==
    IF i \notin inside THEN [out |-> Append(acc.out, lines[i]), region |-> <<>>]
    ELSE IF i < Len(lines) /\ i + 1 \in inside THEN [acc EXCEPT !.region = Append(@, lines[i])]
    ELSE [out |-> acc.out \o Healed(Append(acc.region, lines[i])), region |-> <<>>]

\* Each step leaves lines.
LEMMA NextRegionTyped ==
    ASSUME NEW acc \in Regions, NEW lines \in Seq(Text), NEW inside, NEW i \in 1 .. Len(lines)
    PROVE  NextRegion(acc, lines, inside, i) \in Regions
<1>1. acc.out \in Seq(Text) /\ acc.region \in Seq(Text) /\ <<>> \in Seq(Text) /\ lines[i] \in Text
  BY DEF Regions
<1>2. Append(acc.out, lines[i]) \in Seq(Text) /\ Append(acc.region, lines[i]) \in Seq(Text)
  BY <1>1
<1>3. Healed(Append(acc.region, lines[i])) \in Seq(Text)
  BY <1>2, HealedKeeps
<1>4. acc.out \o Healed(Append(acc.region, lines[i])) \in Seq(Text)
  BY <1>1, <1>3
<1>. QED  BY <1>1, <1>2, <1>4 DEF NextRegion, Regions

\* SanitizeTables as a recursive function.
LEMMA SanitizeRun ==
    ASSUME NEW text \in Text
    PROVE  LET lines == Lines(text)
               n == Len(lines)
           IN  \E f, inside, out :
                  /\ f[0] = [out |-> <<>>, region |-> <<>>]
                  /\ \A i \in 1 .. n : f[i] = NextRegion(f[i - 1], lines, inside, i)
                  /\ \A i \in 0 .. n : f[i] \in Regions
                  /\ out = f[n].out /\ SanitizeTables(text) \in {text, Joined(out)}
<1>. DEFINE S == Regions
            lines == Lines(text)
            n == Len(lines)
            base == [out |-> <<>>, region |-> <<>>]
            piped == {i \in DOMAIN lines : HasPipe(lines[i])}
            inRegion(i) == /\ \E j \in piped : j <= i /\ \A k \in j .. i : k \in piped \/ lines[k] = <<>>
                           /\ \E j \in piped : j >= i /\ \A k \in i .. j : k \in piped \/ lines[k] = <<>>
            inside == {i \in 1 .. n : inRegion(i)}
            Put(acc, i) ==
              IF ~inRegion(i) THEN [out |-> Append(acc.out, lines[i]), region |-> <<>>]
              ELSE IF i < n /\ inRegion(i + 1)
                THEN [acc EXCEPT !.region = Append(@, lines[i])]
                ELSE [out |-> acc.out \o Healed(Append(acc.region, lines[i])), region |-> <<>>]
            Eq(g) == g = [i \in 0 .. n |->
                            IF i = 0 THEN [out |-> <<>>, region |-> <<>>] ELSE Put(g[i - 1], i)]
            f == CHOOSE g : Eq(g)
            step == [i \in 1 .. n |-> [s \in S |-> Put(s, i)]]
<1>1. n \in Nat /\ base \in S /\ lines \in Seq(Text) /\ \A i \in 1 .. n : lines[i] \in Text
  BY LinesTyped DEF Regions
<1>2. SanitizeTables(text) = text \/ SanitizeTables(text) = Joined(f[n].out)
  BY DEF SanitizeTables
<1>. HIDE DEF inRegion, lines
<1>3. ASSUME NEW s, NEW i \in 1 .. n
      PROVE  Put(s, i) = NextRegion(s, lines, inside, i)
  <2>1. i \in inside <=> inRegion(i)
    OBVIOUS
  <2>2. (i < n /\ i + 1 \in inside) <=> (i < n /\ inRegion(i + 1))
    <3>1. i < n => i + 1 \in 1 .. n
      BY <1>1
    <3>. HIDE DEF n
    <3>. QED  BY <3>1
  <2>. HIDE DEF inside
  <2>3. CASE ~inRegion(i)
    BY <2>1, <2>3 DEF NextRegion
  <2>4. CASE inRegion(i) /\ (i < n /\ inRegion(i + 1))
    BY <2>1, <2>2, <2>4 DEF NextRegion
  <2>5. CASE inRegion(i) /\ ~(i < n /\ inRegion(i + 1))
    BY <2>1, <2>2, <2>5 DEF NextRegion
  <2>. QED  BY <2>3, <2>4, <2>5
<1>. HIDE DEF inside, Put, S, base
<1>4. ASSUME NEW s \in S, NEW i \in 1 .. n PROVE Put(s, i) \in S
  BY <1>1, <1>3, NextRegionTyped DEF S
<1>5. step \in [1 .. n -> [S -> S]]
  BY <1>4
<1>6. PICK g \in Runs(S, base, n, step) : TRUE
  <2>. HIDE DEF step, n
  <2>. QED  BY <1>1, <1>5, Recursion
<1>7. Eq(g)
  <2>1. /\ g \in [0 .. n -> S] /\ g[0] = base
        /\ \A i \in 1 .. n : g[i] = step[i][g[i - 1]]
    BY <1>6 DEF Runs
  <2>2. ASSUME NEW i \in 1 .. n PROVE i - 1 \in 0 .. n /\ g[i - 1] \in S
    <3>1. i - 1 \in 0 .. n
      BY <1>1
    <3>. HIDE DEF n
    <3>. QED  BY <2>1, <3>1
  <2>3. \A i \in 1 .. n : g[i] = Put(g[i - 1], i)
    BY <2>1, <2>2
  <2>. QED  BY <1>1, <2>1, <2>3 DEF base
<1>8. Eq(f)
  <2>. HIDE DEF Eq
  <2>. QED  BY <1>7
<1>9. f[0] = base
  <2>. HIDE DEF f
  <2>. QED  BY <1>1, <1>8 DEF base
<1>10. ASSUME NEW i \in 1 .. n PROVE f[i] = Put(f[i - 1], i)
  <2>. HIDE DEF f
  <2>1. i \in 0 .. n /\ i # 0
    BY <1>1
  <2>. QED  BY <1>8, <2>1
<1>. HIDE DEF f
<1>11. StaysIn(S, n, f)
  BY <1>1, <1>4, <1>9, <1>10 DEF StaysIn
<1>12. \A i \in 0 .. n : f[i] \in S
  <2>. HIDE DEF n
  <2>. QED  BY <1>1, <1>11, Iterated
<1>13. \A i \in 1 .. n : f[i] = NextRegion(f[i - 1], lines, inside, i)
  BY <1>3, <1>10
<1>14. f[0] = [out |-> <<>>, region |-> <<>>]
  BY <1>9 DEF base
<1>15. \E h, q, r :
                 /\ h[0] = [out |-> <<>>, region |-> <<>>]
                 /\ \A i \in 1 .. n : h[i] = NextRegion(h[i - 1], lines, q, i)
                 /\ \A i \in 0 .. n : h[i] \in Regions
                 /\ r = h[n].out /\ SanitizeTables(text) \in {text, Joined(r)}
  <2>. HIDE DEF n
  <2>. QED  BY <1>2, <1>12, <1>13, <1>14 DEF S
<1>. QED  BY <1>15 DEF lines

\* Tables that are healed keep their characters, and a text how it begins.
LEMMA SanitizeKeeps ==
    ASSUME NEW text \in Text, NEW o \in Text, IsFlat(o), Begins(text, o)
    PROVE  SanitizeTables(text) \in Alike(text) /\ (o # <<>> => Begins(SanitizeTables(text), o))
<1>. DEFINE lines == Lines(text)
            n == Len(lines)
<1>1. lines \in Seq(Text) /\ n \in Nat \ {0} /\ \A i \in 1 .. n : lines[i] \in Text
  BY LinesTyped
<1>2. Opens(lines, o) /\ BareLines(lines) = Bare(text)
  BY LinesOpen, LinesKeep
<1>3. PICK f, inside, final :
                  /\ f[0] = [out |-> <<>>, region |-> <<>>]
                  /\ \A i \in 1 .. n : f[i] = NextRegion(f[i - 1], lines, inside, i)
                  /\ \A i \in 0 .. n : f[i] \in Regions
                  /\ final = f[n].out /\ SanitizeTables(text) \in {text, Joined(final)}
  BY SanitizeRun
<1>. HIDE DEF lines
<1>. DEFINE Kept(i) == BareLines(f[i].out) \o BareLines(f[i].region) = BareLines(SubSeq(lines, 1, i))
            Going(i) == f[i].region # <<>> => i < n /\ i + 1 \in inside
            Begun(i) == i > 0 /\ o # <<>> => \/ Opens(f[i].out, o)
                                             \/ f[i].out = <<>> /\ Opens(f[i].region, o)
            T == {i \in 0 .. n : Kept(i) /\ Going(i) /\ Begun(i)}
<1>4. 0 \in T
  <2>1. f[0].out = <<>> /\ f[0].region = <<>> /\ SubSeq(lines, 1, 0) = <<>> /\ 0 \in 0 .. n
    BY <1>1, <1>3, SubSeqGrows
  <2>2. <<>> \o <<>> = <<>> /\ BareLines(<<>>) = <<>>
    BY BareLinesGrow
  <2>3. Kept(0)
    BY <2>1, <2>2
  <2>4. Going(0) /\ Begun(0)
    BY <2>1
  <2>. HIDE DEF Kept, Going, Begun
  <2>. QED  BY <2>1, <2>3, <2>4
<1>5. ASSUME NEW i \in 1 .. n, i - 1 \in T PROVE i \in T
  <2>. DEFINE out == f[i - 1].out
              region == f[i - 1].region
              line == lines[i]
  <2>1. /\ i - 1 \in 0 .. n /\ i \in 0 .. n /\ line \in Text
        /\ f[i] = NextRegion(f[i - 1], lines, inside, i)
        /\ f[i - 1] \in Regions
        /\ BareLines(out) \o BareLines(region) = BareLines(SubSeq(lines, 1, i - 1))
        /\ i - 1 > 0 /\ o # <<>> => Opens(out, o) \/ (out = <<>> /\ Opens(region, o))
    BY <1>1, <1>3, <1>5
  <2>2. BareLines(SubSeq(lines, 1, i)) = BareLines(SubSeq(lines, 1, i - 1)) \o Bare(line)
    <3>1. /\ SubSeq(lines, 1, i - 1) \in Seq(Text)
          /\ SubSeq(lines, 1, i) = Append(SubSeq(lines, 1, i - 1), lines[i])
      BY <1>1, SubSeqGrows
    <3>. QED  BY <2>1, <3>1, BareLinesGrow
  <2>0. region # <<>> => i \in inside
    <3>1. (i - 1) + 1 = i /\ Going(i - 1)
      BY <1>1, <1>5
    <3>. QED  BY <3>1
  <2>3. i = 1 => out = <<>> /\ region = <<>> /\ Begins(line, o)
    BY <1>2, <1>3 DEF Opens
  <2>4. /\ out \in Seq(Text) /\ region \in Seq(Text)
        /\ f[i - 1] = [out |-> out, region |-> region]
    BY <2>1 DEF Regions
  <2>. HIDE DEF out, region, line
  <2>. DEFINE all == Append(region, line)
  <2>5. all \in Seq(Text) /\ all # <<>> /\ (region = <<>> => all[1] = line)
    <3>1. /\ all \in Seq(Text) /\ Len(all) = Len(region) + 1
          /\ all[Len(region) + 1] = line /\ Len(region) \in Nat
      BY <2>1, <2>4, AppendIs
    <3>2. region = <<>> => Len(region) + 1 = 1
      BY <2>4
    <3>3. all # <<>>
      BY <3>1
    <3>. QED  BY <3>1, <3>2, <3>3
  <2>6. /\ BareLines(out) \in Seq(Nat) /\ BareLines(region) \in Seq(Nat) /\ Bare(line) \in Seq(Nat)
        /\ BareLines(all) = BareLines(region) \o Bare(line)
        /\ (BareLines(out) \o BareLines(region)) \o Bare(line) = BareLines(out) \o BareLines(all)
    <3>1. BareLines(out) \in Seq(Nat) /\ BareLines(region) \in Seq(Nat) /\ Bare(line) \in Seq(Nat)
      BY <2>1, <2>4, BareLinesGrow, BareGrows
    <3>2. BareLines(all) = BareLines(region) \o Bare(line)
      BY <2>1, <2>4, BareLinesGrow
    <3>3. (BareLines(out) \o BareLines(region)) \o Bare(line)
            = BareLines(out) \o (BareLines(region) \o Bare(line))
      BY <3>1
    <3>. QED  BY <3>1, <3>2, <3>3
  <2>7. o # <<>> => Opens(out, o) \/ (out = <<>> /\ Opens(all, o))
    <3>. SUFFICES ASSUME o # <<>> PROVE Opens(out, o) \/ (out = <<>> /\ Opens(all, o))
      OBVIOUS
    <3>1. CASE i = 1
      BY <2>3, <2>5, <3>1 DEF Opens
    <3>2. CASE i # 1
      <4>1. i - 1 > 0
        BY <3>2
      <4>. QED  BY <2>1, <2>4, <4>1, OpensMore
    <3>. QED  BY <3>1, <3>2
  <2>. HIDE DEF all
  <2>8. \/ i \in inside /\ i < n /\ i + 1 \in inside /\ f[i] = [out |-> out, region |-> all]
        \/ f[i] = [out |-> out \o Healed(all), region |-> <<>>]
        \/ i \notin inside /\ f[i] = [out |-> Append(out, line), region |-> <<>>]
    <3>. DEFINE acc == [out |-> out, region |-> region]
    <3>1. /\ acc.out = out /\ acc.region = region
          /\ [acc EXCEPT !.region = Append(@, line)] = [out |-> out, region |-> all]
      BY DEF all
    <3>2. f[i] = NextRegion(acc, lines, inside, i)
      BY <2>1, <2>4
    <3>. HIDE DEF acc
    <3>3. CASE i \notin inside
      BY <3>1, <3>2, <3>3 DEF NextRegion, line
    <3>4. CASE i \in inside /\ (i < n /\ i + 1 \in inside)
      BY <3>1, <3>2, <3>4 DEF NextRegion, line
    <3>5. CASE i \in inside /\ ~(i < n /\ i + 1 \in inside)
      BY <3>1, <3>2, <3>5 DEF NextRegion, all, line
    <3>. QED  BY <3>3, <3>4, <3>5
  <2>9. ASSUME i < n, i + 1 \in inside, f[i] = [out |-> out, region |-> all] PROVE i \in T
    <3>1. f[i].out = out /\ f[i].region = all
      BY <2>9
    <3>2. Kept(i)
      BY <2>1, <2>2, <2>6, <3>1 DEF out, region
    <3>3. Going(i) /\ Begun(i)
      BY <2>7, <2>9, <3>1
    <3>. HIDE DEF Kept, Going, Begun
    <3>. QED  BY <2>1, <3>2, <3>3
  <2>10. ASSUME f[i] = [out |-> out \o Healed(all), region |-> <<>>] PROVE i \in T
    <3>1. f[i].out = out \o Healed(all) /\ f[i].region = <<>>
      BY <2>10
    <3>2. /\ Healed(all) \in Seq(Text) /\ BareLines(Healed(all)) = BareLines(all)
          /\ o # <<>> /\ Opens(all, o) => Opens(Healed(all), o)
      BY <2>5, HealedKeeps
    <3>3. BareLines(out \o Healed(all)) = BareLines(out) \o BareLines(all)
      BY <2>4, <3>2, BareLinesConcat
    <3>4. BareLines(out \o Healed(all)) \o <<>> = BareLines(out \o Healed(all))
      <4>1. out \o Healed(all) \in Seq(Text)
        BY <2>4, <3>2
      <4>2. BareLines(out \o Healed(all)) \in Seq(Nat)
        BY <4>1, BareLinesGrow
      <4>. QED  BY <4>2
    <3>5. Kept(i)
      BY <2>1, <2>2, <2>6, <3>1, <3>3, <3>4, BareLinesGrow DEF out, region
    <3>6. o # <<>> => Opens(out \o Healed(all), o)
      <4>1. out = <<>> => out \o Healed(all) = Healed(all)
        BY <3>2
      <4>. QED  BY <2>4, <2>7, <3>2, <4>1, OpensMore
    <3>7. Going(i) /\ Begun(i)
      BY <3>1, <3>6
    <3>. HIDE DEF Kept, Going, Begun
    <3>. QED  BY <2>1, <3>5, <3>7
  <2>11. ASSUME i \notin inside, f[i] = [out |-> Append(out, line), region |-> <<>>] PROVE i \in T
    <3>1. f[i].out = Append(out, line) /\ f[i].region = <<>> /\ region = <<>>
      BY <2>0, <2>11 DEF region
    <3>2. all = <<line>> /\ BareLines(region) = <<>> /\ BareLines(out) \o <<>> = BareLines(out)
      BY <2>6, <3>1, BareLinesGrow DEF all
    <3>3. BareLines(Append(out, line)) = BareLines(out) \o Bare(line)
      BY <2>1, <2>4, BareLinesGrow
    <3>4. BareLines(Append(out, line)) \o <<>> = BareLines(Append(out, line))
      BY <2>6, <3>3
    <3>5. BareLines(out) = BareLines(SubSeq(lines, 1, i - 1))
      <4>1. BareLines(out) \o BareLines(region) = BareLines(SubSeq(lines, 1, i - 1))
        BY <2>1 DEF out, region
      <4>. QED  BY <3>2, <4>1
    <3>6. Kept(i)
      BY <2>2, <3>1, <3>2, <3>3, <3>4, <3>5
    <3>7. o # <<>> => Opens(Append(out, line), o)
      <4>1. out = <<>> => Append(out, line) = all
        BY <3>2
      <4>. QED  BY <2>1, <2>4, <2>7, <4>1, OpensMore
    <3>8. Going(i) /\ Begun(i)
      BY <3>1, <3>7
    <3>. HIDE DEF Kept, Going, Begun
    <3>. QED  BY <2>1, <3>6, <3>8
  <2>. HIDE DEF T
  <2>. QED  BY <2>8, <2>9, <2>10, <2>11
<1>6. n \in T
  <2>1. n \in 0 .. n /\ n \in Nat
    BY <1>1
  <2>. HIDE DEF T, n
  <2>. QED  BY <1>4, <1>5, <2>1, Steps
<1>7. n \in 0 .. n /\ n > 0 /\ ~(n < n)
  BY <1>1
<1>8. f[n] \in Regions /\ final \in Seq(Text)
  BY <1>3, <1>7 DEF Regions
<1>9. f[n].region = <<>> /\ SubSeq(lines, 1, n) = lines
  BY <1>1, <1>6, <1>7, SubSeqGrows
<1>10. BareLines(final) = BareLines(lines)
  <2>1. BareLines(final) \o BareLines(<<>>) = BareLines(lines)
    BY <1>6, <1>9, <1>3
  <2>2. BareLines(<<>>) = <<>> /\ BareLines(final) \in Seq(Nat)
    BY <1>8, BareLinesGrow
  <2>. QED  BY <2>1, <2>2
<1>11. o # <<>> => Opens(final, o)
  <2>1. o # <<>> => Opens(final, o) \/ Opens(<<>>, o)
    BY <1>6, <1>7, <1>9, <1>3
  <2>. QED  BY <2>1 DEF Opens
<1>12. text \in Alike(text)
  BY DEF Alike
<1>13. Joined(final) \in Alike(text) /\ (o # <<>> => Begins(Joined(final), o))
  <2>. HIDE DEF n
  <2>1. Joined(final) \in Text
    BY <1>8, BareLinesGrow
  <2>2. Bare(Joined(final)) = Bare(text)
    BY <1>2, <1>10 DEF BareLines
  <2>. QED  BY <1>8, <1>11, <2>1, <2>2, OpensMore DEF Alike
<1>. HIDE DEF n
<1>. QED  BY <1>12, <1>13, <1>3

\* Preparing a text for sending costs no character.
LEMMA PreparedKeeps ==
    ASSUME NEW text \in Text, NEW o \in Text, IsFlat(o), Begins(text, o)
    PROVE  Prepared(text) \in Alike(text) /\ (o # <<>> => Begins(Prepared(text), o))
<1>. DEFINE mid == NormalizeMath(text)
<1>1. mid \in Text /\ Bare(mid) = Bare(text) /\ Begins(mid, o)
  BY NormalizeKeeps DEF Alike
<1>. HIDE DEF mid
<1>2. SanitizeTables(mid) \in Alike(mid) /\ (o # <<>> => Begins(SanitizeTables(mid), o))
  BY <1>1, SanitizeKeeps
<1>. QED  BY <1>1, <1>2 DEF Alike, Prepared, mid

-----------------------------------------------------------------------------
(* Chunks that are the text but for fences *)

\* The line that opens a fence, or nothing
IsMark(o) == o = <<>> \/ (IsFlat(o) /\ o[1].c \in Fences)

\* A chunk that has the bare characters of a text, behind a mark at most
Dressed(chunk, text) ==
    \E o, z \in Text : chunk = o \o z /\ IsFlat(o) /\ IsMark(o) /\ Bare(z) = Bare(text)

\* The fence a text ends in is such a line.
LEMMA FenceAtIsMark ==
    ASSUME NEW text \in Text
    PROVE  FenceAt(text, <<>>) \in Text /\ IsMark(FenceAt(text, <<>>)) /\ IsFlat(FenceAt(text, <<>>))
<1>. DEFINE fences == FenceLines(text)
            f == Max(fences)
<1>1. /\ fences \in SUBSET Nat
      /\ \A x \in fences : x \in 1 .. Len(text) /\ x <= Len(text) /\ text[x].c \in Fences
  BY DEF FenceLines, LineStarts, Text
<1>2. fences # {} => f \in 1 .. Len(text) /\ text[f].c \in Fences
  <2>1. Len(text) \in Nat
    BY DEF Text
  <2>. QED  BY <1>1, <2>1, Greatest
<1>3. fences # {} => LineAt(text, f) \in Text /\ IsFlat(LineAt(text, f)) /\ IsMark(LineAt(text, f))
  <2>. SUFFICES ASSUME fences # {}
                PROVE  LineAt(text, f) \in Text /\ IsFlat(LineAt(text, f)) /\ IsMark(LineAt(text, f))
    OBVIOUS
  <2>. HIDE DEF f
  <2>. DEFINE end == LineEnd(text, f)
              to == IF text[end].c = NL THEN end - 1 ELSE end
              line == Slice(text, f - 1, to)
  <2>1. /\ f \in 1 .. Len(text) /\ end \in f .. Len(text) /\ Len(text) \in Nat
        /\ \A j \in f .. Len(text) : text[j].c = NL => end <= j
    BY <1>2, LineEndIs DEF Text
  <2>. HIDE DEF end
  <2>2. text[f].c # NL /\ text[f].c \in Fences
    BY <1>2 DEF Fences, Fence, DiagramFence, NL
  <2>3. to \in f .. Len(text) /\ \A j \in f .. to : text[j].c # NL
    <3>1. \A j \in f .. end - 1 : text[j].c # NL
      <4>. TAKE j \in f .. end - 1
      <4>1. j \in f .. Len(text) /\ ~(end <= j)
        BY <2>1
      <4>. QED  BY <2>1, <4>1
    <3>2. CASE text[end].c = NL
      <4>1. end # f
        BY <2>2, <3>2
      <4>. QED  BY <2>1, <3>1, <3>2, <4>1
    <3>3. CASE text[end].c # NL
      <4>1. \A j \in f .. end : j \in f .. end - 1 \/ j = end
        BY <2>1
      <4>. QED  BY <2>1, <3>1, <3>3, <4>1
    <3>. QED  BY <3>2, <3>3
  <2>. HIDE DEF to
  <2>4. f - 1 \in Nat /\ to \in Nat /\ f - 1 <= to /\ to <= Len(text)
    BY <2>1, <2>3
  <2>5. /\ line \in Text /\ Len(line) = to - (f - 1)
        /\ \A i \in 1 .. to - (f - 1) : line[i] = text[(f - 1) + i]
    BY <2>4, SliceIs
  <2>. HIDE DEF line
  <2>6. \A i \in 1 .. Len(line) : line[i] = text[(f - 1) + i] /\ (f - 1) + i \in f .. to
    BY <2>1, <2>3, <2>5
  <2>7. 1 \in 1 .. Len(line) /\ (f - 1) + 1 = f
    BY <2>1, <2>3, <2>5
  <2>8. IsFlat(line) /\ line[1].c \in Fences
    BY <2>2, <2>3, <2>6, <2>7 DEF IsFlat
  <2>. QED  BY <2>5, <2>8 DEF IsMark, LineAt, line, to, end
<1>4. <<>> \in Text /\ IsMark(<<>>) /\ IsFlat(<<>>)
  BY DEF Text, IsMark, IsFlat
<1>5. FenceAt(text, <<>>) = <<>> \/ (fences # {} /\ FenceAt(text, <<>>) = LineAt(text, f))
  BY DEF FenceAt
<1>. HIDE DEF f, fences
<1>. QED  BY <1>3, <1>4, <1>5

\* A line break that is added is no bare character.
LEMMA AddedBreak == <<Added(NL)>> \in Text /\ Bare(<<Added(NL)>>) = <<>>
<1>1. <<Added(NL)>> \in Text
  <2>1. Added(NL) \in Char
    BY AddedTyped DEF Classes
  <2>. QED  BY <2>1 DEF Text
<1>. QED  BY <1>1, BareNothing DEF Added, IsBare

\* A chunk is dressed when a fence is opened before it, or closed behind it.
LEMMA Undressed ==
    ASSUME NEW text \in Text
    PROVE  Dressed(text, text)
<1>1. <<>> \in Text /\ text = <<>> \o text /\ IsFlat(<<>>) /\ IsMark(<<>>)
  BY DEF Text, IsFlat, IsMark
<1>. QED  BY <1>1 DEF Dressed

\* A chunk before which a fence is opened is dressed.
LEMMA OpenedDressed ==
    ASSUME NEW o \in Text, IsMark(o), NEW text \in Text
    PROVE  Opened(o, text) \in Text /\ Dressed(Opened(o, text), text)
<1>. DEFINE z == <<Added(NL)>> \o text
<1>1. z \in Text /\ Bare(z) = <<>> \o Bare(text)
  BY AddedBreak, BareConcat, ConcatIs DEF Text
<1>2. Bare(z) = Bare(text)
  <2>1. Bare(text) \in Seq(Nat)
    BY BareGrows
  <2>. QED  BY <1>1, <2>1
<1>3. Opened(o, text) = o \o z
  BY AddedBreak DEF Opened, Text
<1>4. IsFlat(o)
  BY DEF IsMark, IsFlat
<1>. HIDE DEF z
<1>. QED  BY <1>1, <1>2, <1>3, <1>4, ConcatIs DEF Dressed, Text

\* A dressed chunk behind which a fence is closed is dressed.
LEMMA ClosedDressed ==
    ASSUME NEW chunk \in Text, NEW text \in Text, Dressed(chunk, text)
    PROVE  Closed(chunk) \in Text /\ Dressed(Closed(chunk), text)
<1>1. PICK o, z \in Text : chunk = o \o z /\ IsFlat(o) /\ IsMark(o) /\ Bare(z) = Bare(text)
  BY DEF Dressed
<1>. DEFINE tail == IF Last(chunk).c = NL THEN <<Added(Fence)>> ELSE <<Added(NL), Added(Fence)>>
<1>2. tail \in Text /\ \A i \in DOMAIN tail : ~IsBare(tail[i])
  <2>1. Added(Fence) \in Char /\ Added(NL) \in Char
    BY AddedTyped DEF Classes, Fences
  <2>2. ~IsBare(Added(Fence)) /\ ~IsBare(Added(NL))
    BY DEF Added, IsBare, Fences
  <2>. QED  BY <2>1, <2>2 DEF Text
<1>3. Closed(chunk) = chunk \o tail
  <2>1. Added(Fence) \in Char /\ Added(NL) \in Char
    BY AddedTyped DEF Classes, Fences
  <2>2. Append(chunk, Added(NL)) \o <<Added(Fence)>> = chunk \o <<Added(NL), Added(Fence)>>
    BY <2>1 DEF Text
  <2>. QED  BY <2>2 DEF Closed
<1>. HIDE DEF tail
<1>4. z \o tail \in Text /\ Bare(z \o tail) = Bare(z)
  <2>1. Bare(z \o tail) = Bare(z) \o <<>>
    BY <1>2, BareNothing, BareConcat
  <2>2. Bare(z) \in Seq(Nat)
    BY BareGrows
  <2>. QED  BY <1>2, <2>1, <2>2, ConcatIs DEF Text
<1>5. chunk \o tail = o \o (z \o tail)
  BY <1>1, <1>2 DEF Text
<1>6. chunk \o tail \in Text
  BY <1>2, ConcatIs DEF Text
<1>. QED  BY <1>1, <1>3, <1>4, <1>5, <1>6 DEF Dressed

\* The default chunker goes on, and never behind the end.
LEMMA NextCutIs ==
    ASSUME NEW text \in Text, NEW from \in 0 .. Len(text), from # Len(text)
    PROVE  NextCut(text, from) \in from + 1 .. Len(text)
<1>. DEFINE breaks == {i \in from + 1 .. from + MaxChars : text[i].c = NL}
<1>1. Len(text) \in Nat /\ MaxChars \in Nat \ {0} /\ from < Len(text)
  BY StreamedConstants DEF Text
<1>2. breaks \in SUBSET Nat /\ \A x \in breaks : x \in from + 1 .. from + MaxChars
  BY <1>1
<1>3. breaks # {} => Max(breaks) \in from + 1 .. from + MaxChars
  <2>. HIDE DEF breaks
  <2>1. from + MaxChars \in Nat /\ \A x \in breaks : x <= from + MaxChars
    BY <1>1, <1>2
  <2>2. breaks # {} => Max(breaks) \in breaks
    BY <1>2, <2>1, Greatest
  <2>. QED  BY <1>2, <2>2
<1>. HIDE DEF breaks
<1>4. NextCut(text, from) = IF Len(text) - from <= MaxChars THEN Len(text)
                            ELSE IF breaks # {} THEN Max(breaks) ELSE from + MaxChars
  BY DEF NextCut, breaks
<1>. QED  BY <1>1, <1>3, <1>4

\* Where a chunk begins
CutBefore(cuts, i) == IF i = 1 THEN 0 ELSE cuts[i - 1]
LastCut(cuts) == IF cuts = <<>> THEN 0 ELSE Last(cuts)

\* Cuts that rise, and stay within the text
Rises(text, cuts) ==
    /\ cuts \in Seq(Nat)
    /\ \A i \in 1 .. Len(cuts) : CutBefore(cuts, i) < cuts[i] /\ cuts[i] <= Len(text)

\* Its cuts rise up to the end of the text.
LEMMA DefaultCutsRise ==
    ASSUME NEW text \in Text
    PROVE  Rises(text, DefaultCuts(text)) /\ LastCut(DefaultCuts(text)) = Len(text)
<1>. DEFINE S == {cuts \in Seq(Nat) : Rises(text, cuts)}
            n == Len(text)
            base == <<>>
            Add(cuts) ==
              LET from == IF cuts = <<>> THEN 0 ELSE Last(cuts) IN
              IF from = Len(text) THEN cuts ELSE Append(cuts, NextCut(text, from))
            Eq(g) == g = [i \in 0 .. n |-> IF i = 0 THEN <<>> ELSE Add(g[i - 1])]
            f == CHOOSE g : Eq(g)
            step == [i \in 1 .. n |-> [s \in S |-> Add(s)]]
<1>1. n \in Nat /\ base \in S /\ LastCut(base) = 0
  BY DEF Text, Rises, LastCut
<1>2. ASSUME NEW s \in S
      PROVE  Add(s) \in S /\ LastCut(s) \in 0 .. n
             /\ (LastCut(Add(s)) = n \/ LastCut(Add(s)) > LastCut(s))
  <2>. DEFINE from == LastCut(s)
              more == Append(s, NextCut(text, from))
  <2>1. s \in Seq(Nat) /\ Rises(text, s) /\ Len(s) \in Nat
    OBVIOUS
  <2>2. s # <<>> => Len(s) \in 1 .. Len(s) /\ Last(s) = s[Len(s)] /\ Last(s) \in Nat /\ Last(s) <= n
    <3>. SUFFICES ASSUME s # <<>>
                  PROVE  Len(s) \in 1 .. Len(s) /\ Last(s) = s[Len(s)] /\ Last(s) \in Nat /\ Last(s) <= n
      OBVIOUS
    <3>1. Len(s) \in 1 .. Len(s) /\ Last(s) = s[Len(s)] /\ Last(s) \in Nat
      BY <2>1 DEF Last
    <3>. QED  BY <2>1, <3>1 DEF Rises
  <2>3. from \in 0 .. n
    BY <1>1, <2>2 DEF LastCut
  <2>4. Add(s) = IF from = n THEN s ELSE more
    BY DEF LastCut
  <2>5. ASSUME from # n PROVE more \in S /\ LastCut(more) > from
    <3>. DEFINE next == NextCut(text, from)
    <3>1. next \in from + 1 .. n
      BY <2>3, <2>5, NextCutIs
    <3>. HIDE DEF next
    <3>2. next \in Nat /\ from < next /\ next <= n
      BY <1>1, <2>3, <3>1
    <3>3. /\ more \in Seq(Nat) /\ Len(more) = Len(s) + 1 /\ \A i \in 1 .. Len(s) : more[i] = s[i]
          /\ more[Len(s) + 1] = next
      BY <2>1, <3>2, AppendIs DEF next
    <3>. HIDE DEF more
    <3>4. ASSUME NEW i \in 1 .. Len(more) PROVE CutBefore(more, i) < more[i] /\ more[i] <= n
      <4>1. CASE i = Len(s) + 1
        <5>1. CutBefore(more, i) = from
          <6>1. CASE s = <<>>
            BY <4>1, <6>1 DEF CutBefore, LastCut
          <6>2. CASE s # <<>>
            <7>1. i # 1 /\ i - 1 = Len(s)
              BY <2>1, <2>2, <4>1, <6>2
            <7>. QED  BY <2>2, <3>3, <6>2, <7>1 DEF CutBefore, LastCut
          <6>. QED  BY <6>1, <6>2
        <5>. QED  BY <3>2, <3>3, <4>1, <5>1
      <4>2. CASE i # Len(s) + 1
        <5>1. i \in 1 .. Len(s) /\ (i # 1 => i - 1 \in 1 .. Len(s))
          BY <2>1, <3>3, <4>2
        <5>2. CutBefore(more, i) = CutBefore(s, i) /\ more[i] = s[i]
          BY <3>3, <5>1 DEF CutBefore
        <5>. QED  BY <2>1, <5>1, <5>2 DEF Rises
      <4>. QED  BY <4>1, <4>2
    <3>5. more # <<>> /\ Last(more) = next
      <4>1. Len(more) # 0 /\ Last(more) = more[Len(more)]
        BY <2>1, <3>3 DEF Last
      <4>. QED  BY <3>3, <4>1
    <3>. QED  BY <3>2, <3>3, <3>4, <3>5 DEF Rises, LastCut
  <2>. HIDE DEF from, more, Add
  <2>6. CASE from = n
    BY <2>1, <2>3, <2>4, <2>6 DEF from
  <2>7. CASE from # n
    BY <2>3, <2>4, <2>5, <2>7 DEF from
  <2>. QED  BY <2>6, <2>7
<1>3. DefaultCuts(text) = f[n]
  BY DEF DefaultCuts
<1>. HIDE DEF S, Add, base
<1>4. step \in [1 .. n -> [S -> S]]
  BY <1>2
<1>5. PICK g \in Runs(S, base, n, step) : TRUE
  <2>. HIDE DEF step, n
  <2>. QED  BY <1>1, <1>4, Recursion
<1>6. Eq(g)
  <2>1. /\ g \in [0 .. n -> S] /\ g[0] = base
        /\ \A i \in 1 .. n : g[i] = step[i][g[i - 1]]
    BY <1>5 DEF Runs
  <2>2. \A i \in 1 .. n : i - 1 \in 0 .. n /\ g[i - 1] \in S
    BY <1>1, <2>1
  <2>3. \A i \in 1 .. n : g[i] = Add(g[i - 1])
    BY <2>1, <2>2
  <2>. QED  BY <1>1, <2>1, <2>3 DEF base
<1>7. Eq(f)
  <2>. HIDE DEF Eq
  <2>. QED  BY <1>6
<1>8. f[0] = base
  <2>. HIDE DEF f
  <2>. QED  BY <1>1, <1>7 DEF base
<1>9. ASSUME NEW i \in 1 .. n PROVE f[i] = Add(f[i - 1])
  <2>. HIDE DEF f
  <2>1. i \in 0 .. n /\ i # 0
    BY <1>1
  <2>. QED  BY <1>7, <2>1
<1>. HIDE DEF f
<1>10. StaysIn(S, n, f)
  BY <1>1, <1>2, <1>8, <1>9 DEF StaysIn
<1>11. \A i \in 0 .. n : f[i] \in S
  <2>. HIDE DEF n
  <2>. QED  BY <1>1, <1>10, Iterated
<1>. DEFINE T == {i \in 0 .. n : i <= LastCut(f[i])}
<1>12. 0 \in T
  BY <1>1, <1>8
<1>13. ASSUME NEW i \in 1 .. n, i - 1 \in T PROVE i \in T
  <2>1. i - 1 \in 0 .. n /\ i \in 0 .. n /\ f[i - 1] \in S /\ f[i] \in S /\ f[i] = Add(f[i - 1])
    BY <1>1, <1>9, <1>11
  <2>2. LastCut(f[i - 1]) \in 0 .. n /\ LastCut(f[i]) \in 0 .. n
    BY <1>2, <2>1
  <2>3. LastCut(f[i]) = n \/ LastCut(f[i]) > LastCut(f[i - 1])
    BY <1>2, <2>1
  <2>. QED  BY <1>13, <2>1, <2>2, <2>3
<1>14. n \in T
  <2>1. n \in 0 .. n
    BY <1>1
  <2>. HIDE DEF T, n
  <2>. QED  BY <1>1, <1>12, <1>13, <2>1, Steps
<1>15. f[n] \in S /\ LastCut(f[n]) \in 0 .. n
  <2>1. n \in 0 .. n
    BY <1>1
  <2>. QED  BY <1>2, <1>11, <2>1
<1>. QED  BY <1>1, <1>3, <1>14, <1>15 DEF S

\* The chunks are what lies between the offsets end, which rise from the beginning
\* of the text to its end.
Reaches(text, chunks, end) ==
    /\ chunks \in Seq(Text)
    /\ end[0] = 0 /\ end[Len(chunks)] = Len(text)
    /\ \A i \in 0 .. Len(chunks) : end[i] \in 0 .. Len(text)
    /\ \A i \in 1 .. Len(chunks) : end[i - 1] <= end[i]

\* What lies between two of them
Between(text, end, i) == Slice(text, end[i - 1], end[i])

\* So they are but for fences: the last is not closed.
Cutting(text, chunks, end) ==
    /\ Reaches(text, chunks, end)
    /\ \A i \in 1 .. Len(chunks) : Dressed(chunks[i], Between(text, end, i))
    /\ LET n == Len(chunks)
           last == Between(text, end, n)
       IN  n # 0 => chunks[n] = last \/ \E o \in Text : o # <<>> /\ IsMark(o) /\ chunks[n] = Opened(o, last)

\* Two offsets that follow each other, and the text between them.
LEMMA BetweenTyped ==
    ASSUME NEW text \in Text, NEW chunks, NEW end, Reaches(text, chunks, end), NEW i \in 1 .. Len(chunks)
    PROVE  /\ end[i - 1] \in Nat /\ end[i] \in Nat /\ end[i - 1] <= end[i] /\ end[i] <= Len(text)
           /\ Between(text, end, i) \in Text
<1>1. chunks \in Seq(Text) /\ Len(chunks) \in Nat
  BY DEF Reaches
<1>2. i - 1 \in 0 .. Len(chunks) /\ i \in 0 .. Len(chunks)
  BY <1>1
<1>3. end[i - 1] \in 0 .. Len(text) /\ end[i] \in 0 .. Len(text) /\ end[i - 1] <= end[i] /\ Len(text) \in Nat
  BY <1>2 DEF Reaches, Text
<1>4. end[i - 1] \in Nat /\ end[i] \in Nat /\ end[i] <= Len(text)
  BY <1>3
<1>. QED  BY <1>3, <1>4, SliceIs DEF Between

\* Chunks without fences.
LEMMA PlainCutting ==
    ASSUME NEW text \in Text, NEW chunks, NEW end, Reaches(text, chunks, end),
           \A i \in 1 .. Len(chunks) : chunks[i] = Between(text, end, i)
    PROVE  Cutting(text, chunks, end)
<1>1. \A i \in 1 .. Len(chunks) : Dressed(chunks[i], Between(text, end, i))
  BY BetweenTyped, Undressed
<1>2. Len(chunks) # 0 => Len(chunks) \in 1 .. Len(chunks)
  BY DEF Reaches
<1>. QED  BY <1>1, <1>2 DEF Cutting

\* The default chunker.
LEMMA DefaultReaches ==
    ASSUME NEW text \in Text
    PROVE  \E end : /\ Reaches(text, DefaultChunks(text), end)
                    /\ \A i \in 1 .. Len(DefaultChunks(text)) :
                         /\ DefaultChunks(text)[i] = Between(text, end, i)
                         /\ end[i] = DefaultCuts(text)[i]
<1>. DEFINE cuts == DefaultCuts(text)
            chunks == DefaultChunks(text)
            n == Len(cuts)
            end == [i \in 0 .. n |-> IF i = 0 THEN 0 ELSE cuts[i]]
            From(i) == IF i = 1 THEN 0 ELSE cuts[i - 1]
<1>1. cuts \in Seq(Nat) /\ Rises(text, cuts) /\ LastCut(cuts) = Len(text) /\ n \in Nat /\ Len(text) \in Nat
  BY DefaultCutsRise, DefaultCutsTyped DEF Text
<1>2. chunks \in Seq(Text) /\ Len(chunks) = n
  BY DefaultChunksTyped
<1>3. chunks = [i \in DOMAIN cuts |-> Slice(text, From(i), cuts[i])]
  BY DEF DefaultChunks
<1>. HIDE DEF cuts, chunks
<1>4. end[0] = 0 /\ \A i \in 1 .. n : end[i] = cuts[i] /\ end[i - 1] = CutBefore(cuts, i)
  <2>1. end[0] = 0
    BY <1>1
  <2>2. ASSUME NEW i \in 1 .. n PROVE end[i] = cuts[i] /\ end[i - 1] = CutBefore(cuts, i)
    <3>1. i \in 0 .. n /\ i - 1 \in 0 .. n /\ i # 0 /\ (i - 1 = 0 <=> i = 1)
      BY <1>1
    <3>. HIDE DEF n
    <3>. QED  BY <3>1 DEF CutBefore
  <2>. QED  BY <2>1, <2>2
<1>. HIDE DEF end
<1>5. ASSUME NEW i \in 1 .. n PROVE end[i - 1] < end[i] /\ end[i] <= Len(text) /\ end[i] \in Nat
  BY <1>1, <1>4 DEF Rises
<1>6. \A i \in 0 .. n : end[i] \in 0 .. Len(text)
  <2>. TAKE i \in 0 .. n
  <2>1. CASE i = 0
    BY <1>1, <1>4, <2>1
  <2>2. CASE i # 0
    <3>1. i \in 1 .. n
      BY <1>1, <2>2
    <3>. QED  BY <1>1, <1>5, <3>1
  <2>. QED  BY <2>1, <2>2
<1>7. \A i \in 1 .. n : end[i - 1] <= end[i]
  <2>. TAKE i \in 1 .. n
  <2>1. i - 1 \in 0 .. n /\ i \in 0 .. n
    BY <1>1
  <2>2. end[i - 1] \in Nat /\ end[i] \in Nat
    BY <1>1, <1>6, <2>1
  <2>. QED  BY <1>5, <2>2
<1>8. end[n] = Len(text)
  <2>1. CASE n = 0
    <3>1. cuts = <<>>
      BY <1>1, <2>1
    <3>. QED  BY <1>1, <1>4, <2>1, <3>1 DEF LastCut
  <2>2. CASE n # 0
    <3>1. n \in 1 .. n /\ cuts # <<>> /\ Last(cuts) = cuts[n]
      BY <1>1, <2>2 DEF Last
    <3>. QED  BY <1>1, <1>4, <3>1 DEF LastCut
  <2>. QED  BY <2>1, <2>2
<1>9. \A i \in 1 .. n : chunks[i] = Between(text, end, i)
  <2>. TAKE i \in 1 .. n
  <2>1. i \in DOMAIN cuts
    BY <1>1
  <2>2. chunks[i] = Slice(text, From(i), cuts[i])
    BY <1>3, <2>1
  <2>. QED  BY <1>4, <2>2 DEF Between, CutBefore
<1>10. Reaches(text, chunks, end)
  BY <1>2, <1>4, <1>6, <1>7, <1>8 DEF Reaches
<1>. QED  BY <1>2, <1>4, <1>9, <1>10 DEF chunks, cuts

\* The host's chunker adds fences where it cuts inside a code block.
LEMMA HostCutting ==
    ASSUME NEW text \in Text
    PROVE  \E end : Cutting(text, HostChunks(text), end)
<1>. DEFINE chunks == DefaultChunks(text)
            n == Len(chunks)
            opener(i) == IF i = 0 THEN <<>> ELSE FenceAt(Slice(text, 0, DefaultCuts(text)[i]), <<>>)
            Chunk(i) == IF opener(i - 1) # <<>> THEN Opened(opener(i - 1), chunks[i]) ELSE chunks[i]
            Decorated(i) == IF i < n /\ opener(i) # <<>> THEN Closed(Chunk(i)) ELSE Chunk(i)
            host == HostChunks(text)
<1>1. PICK end : /\ Reaches(text, chunks, end)
                 /\ \A i \in 1 .. n : chunks[i] = Between(text, end, i) /\ end[i] = DefaultCuts(text)[i]
  BY DefaultReaches
<1>2. host = [i \in DOMAIN chunks |-> Decorated(i)] /\ host \in Seq(Text)
  BY HostChunksTyped DEF HostChunks
<1>3. chunks \in Seq(Text) /\ n \in Nat /\ DOMAIN chunks = 1 .. n
  BY <1>1 DEF Reaches
<1>. HIDE DEF chunks, host
<1>4. Len(host) = n /\ \A i \in 1 .. n : host[i] = Decorated(i)
  <2>. HIDE DEF Decorated, n
  <2>1. DOMAIN host = 1 .. n /\ DOMAIN host = 1 .. Len(host) /\ Len(host) \in Nat
    BY <1>2, <1>3
  <2>. QED  BY <1>2, <1>3, <2>1, SameDomain
<1>5. ASSUME NEW i \in 0 .. n PROVE opener(i) \in Text /\ IsMark(opener(i))
  <2>1. CASE i = 0
    BY <2>1 DEF Text, IsMark
  <2>2. CASE i # 0
    <3>1. i \in 1 .. n
      BY <1>3, <2>2
    <3>2. DefaultCuts(text)[i] \in Nat
      BY <1>1, <3>1, BetweenTyped
    <3>3. Slice(text, 0, DefaultCuts(text)[i]) \in Text
      BY <3>2, SliceTyped DEF Text
    <3>. QED  BY <2>2, <3>3, FenceAtIsMark
  <2>. QED  BY <2>1, <2>2
<1>. HIDE DEF opener
<1>6. ASSUME NEW i \in 1 .. n
      PROVE  /\ Chunk(i) \in Text /\ Dressed(Chunk(i), chunks[i])
             /\ \/ Chunk(i) = chunks[i]
                \/ \E o \in Text : o # <<>> /\ IsMark(o) /\ Chunk(i) = Opened(o, chunks[i])
  <2>1. i - 1 \in 0 .. n /\ chunks[i] \in Text
    BY <1>3
  <2>2. opener(i - 1) \in Text /\ IsMark(opener(i - 1))
    BY <1>5, <2>1
  <2>3. CASE opener(i - 1) = <<>>
    BY <2>1, <2>3, Undressed
  <2>4. CASE opener(i - 1) # <<>>
    BY <2>1, <2>2, <2>4, OpenedDressed
  <2>. QED  BY <2>3, <2>4
<1>. HIDE DEF Chunk
<1>7. ASSUME NEW i \in 1 .. n PROVE Dressed(host[i], chunks[i])
  <2>1. Chunk(i) \in Text /\ Dressed(Chunk(i), chunks[i]) /\ chunks[i] \in Text
    BY <1>3, <1>6
  <2>2. Dressed(Closed(Chunk(i)), chunks[i])
    BY <2>1, ClosedDressed
  <2>. QED  BY <1>4, <2>1, <2>2
<1>8. n # 0 => host[n] = Chunk(n) /\ n \in 1 .. n
  <2>. SUFFICES ASSUME n # 0 PROVE host[n] = Chunk(n) /\ n \in 1 .. n
    OBVIOUS
  <2>1. n \in 1 .. n /\ ~(n < n)
    BY <1>3
  <2>. QED  BY <1>4, <2>1
<1>9. Reaches(text, host, end)
  <2>. HIDE DEF n
  <2>1. Reaches(text, chunks, end) /\ Len(chunks) = n
    BY <1>1 DEF n
  <2>. QED  BY <1>2, <1>4, <2>1 DEF Reaches
<1>. HIDE DEF Decorated
<1>10. Cutting(text, host, end)
  <2>1. \A i \in 1 .. n : chunks[i] = Between(text, end, i)
    BY <1>1
  <2>. HIDE DEF n
  <2>2. \A i \in 1 .. Len(host) : Dressed(host[i], Between(text, end, i))
    BY <1>4, <1>7, <2>1
  <2>3. n # 0 => \/ host[n] = Between(text, end, n)
                 \/ \E o \in Text : o # <<>> /\ IsMark(o) /\ host[n] = Opened(o, Between(text, end, n))
    BY <1>6, <1>8, <2>1
  <2>. QED  BY <1>4, <1>9, <2>2, <2>3 DEF Cutting
<1>. QED  BY <1>10 DEF host

\* Whatever the chunker, its chunks are the text but for fences.
LEMMA RawCutting ==
    ASSUME NEW text \in Text
    PROVE  \E end : Cutting(text, RawChunks(text), end)
<1>1. CASE chunker = "default"
  <2>1. RawChunks(text) = DefaultChunks(text)
    BY <1>1 DEF RawChunks
  <2>. QED  BY <2>1, DefaultReaches, PlainCutting
<1>2. CASE chunker # "default"
  <2>. DEFINE raw == HostChunks(text)
              chunks == ChunkAware(text, raw)
              end == ChunkEnds(chunks)
  <2>1. RawChunks(text) = chunks /\ raw \in Seq(Text)
    BY <1>2, HostChunksTyped DEF RawChunks
  <2>. HIDE DEF raw
  <2>2. CASE Len(raw) - 1 <= 0 \/ AtomicBlocks(text) = {}
    <3>1. chunks = raw
      BY <2>2 DEF ChunkAware
    <3>. QED  BY <2>1, <3>1, HostCutting DEF raw
  <2>3. CASE ~(Len(raw) - 1 <= 0) /\ AtomicBlocks(text) # {}
    <3>1. PICK Stops : /\ Laid(text, chunks, Len(text), Stops)
                       /\ \A e \in Stops : e \in 0 .. Len(text)
      BY <2>1, <2>3, ChunkAwareLaid
    <3>. HIDE DEF chunks
    <3>2. /\ chunks \in Seq(Text) /\ end[Len(chunks)] = Len(text) /\ end[0] = 0
          /\ \A i \in 1 .. Len(chunks) : /\ chunks[i] = Between(text, end, i)
                                         /\ end[i] = end[i - 1] + Len(chunks[i])
      BY <3>1, EndsAre DEF Laid, Between
    <3>3. ASSUME NEW i \in 0 .. Len(chunks) PROVE end[i] \in 0 .. Len(text)
      <4>1. CASE i = 0
        BY <3>2, <4>1 DEF Text
      <4>2. CASE i # 0
        <5>1. i \in 1 .. Len(chunks)
          BY <3>2, <4>2
        <5>. QED  BY <3>1, <5>1 DEF Laid
      <4>. QED  BY <4>1, <4>2
    <3>4. ASSUME NEW i \in 1 .. Len(chunks) PROVE end[i - 1] <= end[i]
      <4>1. i - 1 \in 0 .. Len(chunks) /\ chunks[i] \in Text
        BY <3>2
      <4>2. end[i - 1] \in Nat /\ Len(chunks[i]) \in Nat
        BY <3>3, <4>1 DEF Text
      <4>. QED  BY <3>2, <4>2
    <3>. HIDE DEF end
    <3>5. Cutting(text, chunks, end)
      BY <3>2, <3>3, <3>4, PlainCutting DEF Reaches
    <3>. QED  BY <2>1, <3>5
  <2>. QED  BY <2>2, <2>3
<1>. QED  BY <1>1, <1>2

-----------------------------------------------------------------------------
(* The repair across messages *)

\* A chunk that opens a fence itself
HasOpening(chunk) ==
    LET text == {i \in DOMAIN chunk : chunk[i].c # NL} IN
    text # {} /\ chunk[Min(text)].c \in Fences

\* A chunk that does not begin with a fence bears no mark.
LEMMA NoOpening ==
    ASSUME NEW chunk \in Text, NEW text \in Text, Dressed(chunk, text), ~HasOpening(chunk)
    PROVE  Bare(chunk) = Bare(text)
<1>1. PICK o, z \in Text : chunk = o \o z /\ IsFlat(o) /\ IsMark(o) /\ Bare(z) = Bare(text)
  BY DEF Dressed
<1>2. o = <<>>
  <2>. SUFFICES ASSUME o # <<>> PROVE FALSE
    OBVIOUS
  <2>. DEFINE T == {i \in DOMAIN chunk : chunk[i].c # NL}
  <2>1. o[1].c \in Fences /\ Len(o) \in Nat /\ Len(o) # 0 /\ Len(z) \in Nat
    BY <1>1 DEF IsMark, Text
  <2>2. 1 \in 1 .. Len(o)
    BY <2>1
  <2>3. chunk[1] = o[1] /\ Len(chunk) = Len(o) + Len(z)
    BY <1>1, <2>2, ConcatIs DEF Text
  <2>4. 1 \in DOMAIN chunk
    BY <2>1, <2>3 DEF Text
  <2>5. T \in SUBSET Nat /\ 1 \in T /\ \A i \in T : 1 <= i
    BY <2>1, <2>3, <2>4 DEF Text, Fences, Fence, DiagramFence, NL
  <2>6. Min(T) \in T /\ Min(T) <= 1
    <3>. HIDE DEF T
    <3>. QED  BY <2>5, Least
  <2>7. Min(T) = 1
    <3>. HIDE DEF T
    <3>1. Min(T) \in Nat /\ 1 <= Min(T)
      BY <2>5, <2>6
    <3>. QED  BY <2>6, <3>1
  <2>8. T # {} /\ chunk[Min(T)].c \in Fences
    BY <2>1, <2>3, <2>5, <2>7
  <2>. QED  BY <2>8 DEF HasOpening
<1>3. chunk = z
  BY <1>1, <1>2 DEF Text
<1>. QED  BY <1>1, <1>3

\* Repairing chunks, step by step.
NextRepaired(acc, chunks, initial, i) ==
    LET ends == FenceAt(chunks[i], acc.opener)
        out == IF acc.opener # <<>> /\ ~HasOpening(chunks[i])
                 THEN Opened(acc.opener, chunks[i]) ELSE chunks[i]
    IN  IF ends # <<>> /\ i < Len(chunks)
          THEN [out |-> Append(acc.out, Closed(out)), opener |-> initial]
          ELSE [out |-> Append(acc.out, out), opener |-> ends]

\* What Repaired keeps from chunk to chunk.
Repairs == [out : Seq(Text), opener : Text]

\* Each step of the repair leaves texts.
LEMMA NextRepairedTyped ==
    ASSUME NEW acc \in Repairs, NEW chunks \in Seq(Text), NEW initial \in Text, NEW i \in 1 .. Len(chunks)
    PROVE  NextRepaired(acc, chunks, initial, i) \in Repairs
<1>. DEFINE ends == FenceAt(chunks[i], acc.opener)
            out == IF acc.opener # <<>> /\ ~HasOpening(chunks[i])
                     THEN Opened(acc.opener, chunks[i]) ELSE chunks[i]
<1>1. acc.out \in Seq(Text) /\ acc.opener \in Text /\ chunks[i] \in Text
  BY DEF Repairs
<1>2. ends \in Text
  BY <1>1, FenceAtTyped
<1>3. Opened(acc.opener, chunks[i]) \in Text
  BY <1>1, AddedBreak DEF Opened, Text
<1>4. out \in Text
  BY <1>1, <1>3
<1>. HIDE DEF ends, out
<1>5. Closed(out) \in Text
  BY <1>4, Undressed, ClosedDressed
<1>6. Append(acc.out, Closed(out)) \in Seq(Text) /\ Append(acc.out, out) \in Seq(Text)
  BY <1>1, <1>4, <1>5
<1>. QED  BY <1>2, <1>6 DEF NextRepaired, Repairs, ends, out

\* Repaired as a recursive function.
LEMMA RepairedRun ==
    ASSUME NEW chunks \in Seq(Text), NEW initial \in Text, initial # <<>>
    PROVE  \E f : /\ f[0] = [out |-> <<>>, opener |-> initial]
                  /\ \A i \in 1 .. Len(chunks) : f[i] = NextRepaired(f[i - 1], chunks, initial, i)
                  /\ \A i \in 0 .. Len(chunks) : f[i] \in Repairs
                  /\ Repaired(chunks, initial) = f[Len(chunks)].out
<1>. DEFINE S == Repairs
            n == Len(chunks)
            base == [out |-> <<>>, opener |-> initial]
            Put(acc, i) == NextRepaired(acc, chunks, initial, i)
            Eq(g) == g = [i \in 0 .. n |->
                            IF i = 0 THEN [out |-> <<>>, opener |-> initial] ELSE Put(g[i - 1], i)]
            f == CHOOSE g : Eq(g)
            step == [i \in 1 .. n |-> [s \in S |-> Put(s, i)]]
<1>1. n \in Nat /\ base \in S
  BY DEF Repairs
<1>2. ASSUME NEW s \in S, NEW i \in 1 .. n PROVE Put(s, i) \in S
  BY NextRepairedTyped
<1>3. Repaired(chunks, initial) = f[n].out
  BY DEF Repaired, NextRepaired, HasOpening
<1>. HIDE DEF S, Put, base
<1>4. step \in [1 .. n -> [S -> S]]
  BY <1>2
<1>5. PICK g \in Runs(S, base, n, step) : TRUE
  <2>. HIDE DEF step, n
  <2>. QED  BY <1>1, <1>4, Recursion
<1>6. Eq(g)
  <2>1. /\ g \in [0 .. n -> S] /\ g[0] = base
        /\ \A i \in 1 .. n : g[i] = step[i][g[i - 1]]
    BY <1>5 DEF Runs
  <2>2. \A i \in 1 .. n : i - 1 \in 0 .. n /\ g[i - 1] \in S
    BY <1>1, <2>1
  <2>3. \A i \in 1 .. n : g[i] = Put(g[i - 1], i)
    BY <2>1, <2>2
  <2>. QED  BY <1>1, <2>1, <2>3 DEF base
<1>7. Eq(f)
  <2>. HIDE DEF Eq
  <2>. QED  BY <1>6
<1>8. f[0] = base
  <2>. HIDE DEF f
  <2>. QED  BY <1>1, <1>7 DEF base
<1>9. ASSUME NEW i \in 1 .. n PROVE f[i] = Put(f[i - 1], i)
  <2>. HIDE DEF f
  <2>1. i \in 0 .. n /\ i # 0
    BY <1>1
  <2>. QED  BY <1>7, <2>1
<1>. HIDE DEF f
<1>10. StaysIn(S, n, f)
  BY <1>1, <1>2, <1>8, <1>9 DEF StaysIn
<1>11. \A i \in 0 .. n : f[i] \in S
  <2>. HIDE DEF n
  <2>. QED  BY <1>1, <1>10, Iterated
<1>. QED  BY <1>3, <1>8, <1>9, <1>11 DEF S, base, Put

\* The repair adds fences, and nothing that can be read.
LEMMA RepairedDressed ==
    ASSUME NEW chunks \in Seq(Text), NEW initial \in Text, IsMark(initial), NEW texts,
           \A i \in 1 .. Len(chunks) : texts[i] \in Text /\ Dressed(chunks[i], texts[i])
    PROVE  /\ Repaired(chunks, initial) \in Seq(Text)
           /\ Len(Repaired(chunks, initial)) = Len(chunks)
           /\ \A i \in 1 .. Len(chunks) : Dressed(Repaired(chunks, initial)[i], texts[i])
<1>1. CASE initial = <<>>
  BY <1>1 DEF Repaired
<1>2. CASE initial # <<>>
  <2>. DEFINE n == Len(chunks)
  <2>1. PICK f : /\ f[0] = [out |-> <<>>, opener |-> initial]
                 /\ \A i \in 1 .. n : f[i] = NextRepaired(f[i - 1], chunks, initial, i)
                 /\ \A i \in 0 .. n : f[i] \in Repairs
                 /\ Repaired(chunks, initial) = f[n].out
    BY <1>2, RepairedRun
  <2>. DEFINE Fine(out) == \A j \in 1 .. Len(out) : Dressed(out[j], texts[j])
              T == {i \in 0 .. n : /\ Len(f[i].out) = i /\ Fine(f[i].out)
                                   /\ f[i].opener = initial \/ f[i].opener = <<>> \/ i = n}
  <2>2. n \in Nat
    OBVIOUS
  <2>3. 0 \in T
    BY <2>1, <2>2
  <2>4. ASSUME NEW i \in 1 .. n, i - 1 \in T PROVE i \in T
    <3>. DEFINE acc == f[i - 1]
                chunk == chunks[i]
                ends == FenceAt(chunk, acc.opener)
                out == IF acc.opener # <<>> /\ ~HasOpening(chunk) THEN Opened(acc.opener, chunk) ELSE chunk
                last == IF ends # <<>> /\ i < n THEN Closed(out) ELSE out
    <3>1. i - 1 \in 0 .. n /\ i \in 0 .. n /\ i - 1 # n /\ chunk \in Text /\ texts[i] \in Text
          /\ (i - 1) + 1 = i /\ (~(i < n) => i = n)
      BY <2>2
    <3>2. /\ acc.out \in Seq(Text) /\ acc.opener \in Text /\ Len(acc.out) = i - 1 /\ Fine(acc.out)
          /\ acc.opener = initial \/ acc.opener = <<>>
      BY <2>1, <2>4, <3>1 DEF Repairs
    <3>3. out \in Text /\ Dressed(out, texts[i])
      <4>1. CASE acc.opener # <<>> /\ ~HasOpening(chunk)
        <5>1. Bare(chunk) = Bare(texts[i])
          BY <3>1, <4>1, NoOpening
        <5>2. Opened(initial, chunk) \in Text /\ Dressed(Opened(initial, chunk), chunk)
          BY <3>1, OpenedDressed
        <5>3. out = Opened(initial, chunk)
          BY <3>2, <4>1
        <5>. QED  BY <5>1, <5>2, <5>3 DEF Dressed
      <4>2. CASE ~(acc.opener # <<>> /\ ~HasOpening(chunk))
        BY <3>1, <4>2
      <4>. QED  BY <4>1, <4>2
    <3>4. f[i].out = Append(acc.out, last) /\ (i < n => f[i].opener = initial \/ f[i].opener = <<>>)
      <4>1. f[i] = IF ends # <<>> /\ i < n
                     THEN [out |-> Append(acc.out, Closed(out)), opener |-> initial]
                     ELSE [out |-> Append(acc.out, out), opener |-> ends]
        BY <2>1 DEF NextRepaired
      <4>. HIDE DEF out, ends, n
      <4>2. CASE ends # <<>> /\ i < n
        BY <4>1, <4>2
      <4>3. CASE ~(ends # <<>> /\ i < n)
        BY <4>1, <4>3
      <4>. QED  BY <4>2, <4>3
    <3>. HIDE DEF out
    <3>5. last \in Text /\ Dressed(last, texts[i])
      BY <3>1, <3>3, ClosedDressed
    <3>. HIDE DEF last, acc, Fine
    <3>6. /\ Append(acc.out, last) \in Seq(Text) /\ Len(Append(acc.out, last)) = i
          /\ \A j \in 1 .. i - 1 : Append(acc.out, last)[j] = acc.out[j]
          /\ Append(acc.out, last)[i] = last
      BY <3>1, <3>2, <3>5, AppendIs
    <3>7. Fine(Append(acc.out, last))
      <4>. SUFFICES ASSUME NEW j \in 1 .. i PROVE Dressed(Append(acc.out, last)[j], texts[j])
        BY <3>6 DEF Fine
      <4>1. CASE j = i
        BY <3>5, <3>6, <4>1
      <4>2. CASE j # i
        <5>1. j \in 1 .. i - 1 /\ j \in 1 .. Len(acc.out)
          BY <3>1, <3>2, <4>2
        <5>. QED  BY <3>2, <3>6, <5>1 DEF Fine
      <4>. QED  BY <4>1, <4>2
    <3>. HIDE DEF n
    <3>. QED  BY <3>1, <3>4, <3>6, <3>7
  <2>5. n \in T
    <3>1. n \in 0 .. n
      BY <2>2
    <3>. HIDE DEF T, n
    <3>. QED  BY <2>2, <2>3, <2>4, <3>1, Steps
  <2>6. n \in 0 .. n
    BY <2>2
  <2>7. f[n].out \in Seq(Text)
    BY <2>1, <2>6 DEF Repairs
  <2>. QED  BY <2>1, <2>5, <2>7
<1>. QED  BY <1>1, <1>2

-----------------------------------------------------------------------------
(* What the client has been given *)

\* What stands in a sequence, and that nothing stands there twice
Values(s) == {s[p] : p \in 1 .. Len(s)}
Distinct(s) == \A p, q \in 1 .. Len(s) : s[p] = s[q] => p = q

\* The two parts of a sequence.
LEMMA PartsApart ==
    ASSUME NEW s \in Seq(Nat), NEW t \in Seq(Nat)
    PROVE  /\ Values(s \o t) = Values(s) \cup Values(t)
           /\ Distinct(s \o t) => Distinct(s) /\ Distinct(t) /\ Values(s) \cap Values(t) = {}
<1>. DEFINE u == s \o t
            m == Len(s)
            n == Len(t)
<1>1. m \in Nat /\ n \in Nat /\ Len(u) = m + n
  OBVIOUS
<1>2. \A p \in 1 .. m : p \in 1 .. m + n /\ u[p] = s[p]
  OBVIOUS
<1>3. \A p \in 1 .. n : m + p \in 1 .. m + n /\ u[m + p] = t[p]
  OBVIOUS
<1>4. \A p \in 1 .. m + n : p \in 1 .. m \/ \E q \in 1 .. n : p = m + q
  <2>. TAKE p \in 1 .. m + n
  <2>1. CASE p <= m
    BY <1>1, <2>1
  <2>2. CASE p > m
    <3>1. p - m \in 1 .. n /\ p = m + (p - m)
      BY <1>1, <2>2
    <3>. QED  BY <3>1
  <2>. QED  BY <1>1, <2>1, <2>2
<1>. HIDE DEF u, m, n
<1>5. Values(u) = Values(s) \cup Values(t)
  <2>1. \A x \in Values(u) : x \in Values(s) \cup Values(t)
    <3>. SUFFICES ASSUME NEW p \in 1 .. m + n PROVE u[p] \in Values(s) \cup Values(t)
      BY <1>1 DEF Values
    <3>1. CASE p \in 1 .. m
      BY <1>2, <3>1 DEF Values, m
    <3>2. ASSUME NEW q \in 1 .. n, p = m + q PROVE u[p] \in Values(s) \cup Values(t)
      BY <1>3, <3>2 DEF Values, n
    <3>. QED  BY <1>4, <3>1, <3>2
  <2>2. \A x \in Values(s) : x \in Values(u)
    BY <1>1, <1>2 DEF Values, m
  <2>3. \A x \in Values(t) : x \in Values(u)
    BY <1>1, <1>3 DEF Values, n
  <2>. QED  BY <2>1, <2>2, <2>3
<1>6. ASSUME Distinct(u) PROVE Distinct(s) /\ Distinct(t) /\ Values(s) \cap Values(t) = {}
  <2>0. \A p, q \in 1 .. m + n : u[p] = u[q] => p = q
    BY <1>1, <1>6 DEF Distinct
  <2>1. Distinct(s)
    BY <1>2, <2>0 DEF Distinct, m
  <2>2. Distinct(t)
    <3>. SUFFICES ASSUME NEW p \in 1 .. n, NEW q \in 1 .. n, t[p] = t[q] PROVE p = q
      BY DEF Distinct, n
    <3>1. m + p = m + q
      BY <1>3, <2>0
    <3>. QED  BY <1>1, <3>1
  <2>3. ASSUME NEW p \in 1 .. m, NEW q \in 1 .. n PROVE s[p] # t[q]
    <3>1. p # m + q
      BY <1>1
    <3>. QED  BY <1>2, <1>3, <2>0, <3>1
  <2>4. Values(s) \cap Values(t) = {}
    BY <2>3 DEF Values, m, n
  <2>. QED  BY <2>1, <2>2, <2>4
<1>. QED  BY <1>5, <1>6 DEF u

\* A sequence is told from another by what comes behind the same beginning.
LEMMA SameBehind ==
    ASSUME NEW a \in Seq(Nat), NEW s \in Seq(Nat), NEW t \in Seq(Nat), a \o s = a \o t
    PROVE  s = t
<1>1. /\ Len(a \o s) = Len(a) + Len(s) /\ \A i \in 1 .. Len(s) : (a \o s)[Len(a) + i] = s[i]
      /\ Len(a \o t) = Len(a) + Len(t) /\ \A i \in 1 .. Len(t) : (a \o t)[Len(a) + i] = t[i]
  BY ConcatIs
<1>2. Len(s) = Len(t)
  BY <1>1
<1>. QED  BY <1>1, <1>2, SameSeq

\* Where bare characters stand is where they stem from, if these are distinct.
LEMMA BareDistinct ==
    ASSUME NEW text \in Text, Distinct(Bare(text)),
           NEW i \in 1 .. Len(text), NEW j \in 1 .. Len(text), IsBare(text[i]), IsBare(text[j]),
           text[i].at = text[j].at
    PROVE  i = j
<1>1. /\ Place(text, i) \in 1 .. Len(Bare(text)) /\ Bare(text)[Place(text, i)] = text[i].at
      /\ Place(text, j) \in 1 .. Len(Bare(text)) /\ Bare(text)[Place(text, j)] = text[j].at
  BY PlaceIs
<1>2. Place(text, i) = Place(text, j)
  BY <1>1 DEF Distinct
<1>3. ~(i < j) /\ ~(j < i)
  BY <1>1, <1>2, PlacesRise
<1>. QED  BY <1>3

\* A reader finds the characters of a piece in what is sent for it, and no other.
LEMMA PreparedReads ==
    ASSUME NEW d \in Text, NEW y \in Text, Dressed(d, y)
    PROVE  /\ Prepared(d) \in Text
           /\ \A i \in Readable(Prepared(d)) : Prepared(d)[i].at \in Ats(y)
           /\ \A at \in Ats(y) : \E i \in DOMAIN Prepared(d) : Prepared(d)[i].at = at
           /\ Distinct(Bare(y)) => \A i, j \in Readable(Prepared(d)) :
                                      Prepared(d)[i].at = Prepared(d)[j].at => i = j
<1>1. PICK o, z \in Text : d = o \o z /\ IsFlat(o) /\ IsMark(o) /\ Bare(z) = Bare(y)
  BY DEF Dressed
<1>. DEFINE P == Prepared(d)
            m == Len(o)
<1>2. Begins(d, o) /\ m \in Nat
  BY <1>1, ConcatIs DEF Begins, Text
<1>3. P \in Alike(d) /\ (o # <<>> => Begins(P, o))
  BY <1>1, <1>2, PreparedKeeps
<1>. HIDE DEF P
<1>4. P \in Text /\ Bare(P) = Bare(o) \o Bare(z)
  BY <1>1, <1>3, BareConcat DEF Alike
<1>5. Begins(P, o)
  <2>1. CASE o = <<>>
    BY <1>4, <2>1 DEF Begins, Text
  <2>. QED  BY <1>3, <2>1
<1>6. PICK w \in Text : P = o \o w
  BY <1>4, <1>5, BeginsIs
<1>7. Bare(w) = Bare(y)
  <2>1. Bare(o) \o Bare(w) = Bare(o) \o Bare(z)
    BY <1>4, <1>6, BareConcat
  <2>2. Bare(o) \in Seq(Nat) /\ Bare(w) \in Seq(Nat) /\ Bare(z) \in Seq(Nat)
    BY BareGrows
  <2>3. Bare(w) = Bare(z)
    BY <2>1, <2>2, SameBehind
  <2>. QED  BY <1>1, <2>3
<1>8. /\ Len(P) = m + Len(w) /\ Len(w) \in Nat
      /\ \A i \in 1 .. m : P[i] = o[i]
      /\ \A k \in 1 .. Len(w) : P[m + k] = w[k]
  BY <1>6, ConcatIs DEF Text
<1>9. ASSUME NEW i \in Readable(P)
      PROVE  \E k \in 1 .. Len(w) : i = m + k /\ w[k] = P[i] /\ IsBare(w[k])
  <2>1. /\ i \in 1 .. Len(P) /\ IsBare(P[i])
        /\ \A f \in FenceLines(P) : i \notin f .. LineEnd(P, f)
    BY <1>4 DEF Readable, IsBare, Text
  <2>2. m < i
    <3>1. CASE o = <<>>
      BY <2>1, <3>1
    <3>2. CASE o # <<>>
      <4>1. o[1].c \in Fences /\ m # 0
        BY <1>1, <3>2 DEF IsMark, Text
      <4>2. 1 \in 1 .. m /\ 1 \in 1 .. Len(P)
        BY <1>2, <1>8, <4>1
      <4>3. 1 \in FenceLines(P)
        BY <1>4, <1>8, <4>1, <4>2 DEF FenceLines, LineStarts, Text
      <4>4. LineEnd(P, 1) \in 1 .. Len(P) /\ (LineEnd(P, 1) < Len(P) => P[LineEnd(P, 1)].c = NL)
        BY <1>4, <4>2, LineEndIs
      <4>5. LineEnd(P, 1) >= m
        <5>. SUFFICES ASSUME LineEnd(P, 1) < m PROVE FALSE
          BY <1>2, <4>4
        <5>1. LineEnd(P, 1) \in 1 .. m /\ LineEnd(P, 1) < Len(P)
          BY <1>2, <1>8, <4>4
        <5>2. o[LineEnd(P, 1)].c = NL
          BY <1>8, <4>4, <5>1
        <5>. QED  BY <1>1, <5>1, <5>2 DEF IsFlat
      <4>6. i \notin 1 .. LineEnd(P, 1)
        BY <2>1, <4>3
      <4>. QED  BY <1>2, <2>1, <4>4, <4>5, <4>6
    <3>. QED  BY <3>1, <3>2
  <2>3. i - m \in 1 .. Len(w) /\ m + (i - m) = i
    BY <1>2, <1>8, <2>1, <2>2
  <2>. QED  BY <1>8, <2>1, <2>3
<1>10. \A i \in Readable(P) : P[i].at \in Ats(y)
  <2>. TAKE i \in Readable(P)
  <2>1. PICK k \in 1 .. Len(w) : i = m + k /\ w[k] = P[i] /\ IsBare(w[k])
    BY <1>9
  <2>2. w[k].at \in Ats(w)
    BY <2>1, AtsOf
  <2>. QED  BY <1>7, <2>1, <2>2 DEF Ats
<1>11. \A at \in Ats(y) : \E i \in DOMAIN P : P[i].at = at
  <2>. TAKE at \in Ats(y)
  <2>1. at \in Ats(w)
    BY <1>7 DEF Ats
  <2>2. PICK k \in 1 .. Len(w) : IsBare(w[k]) /\ w[k].at = at
    BY <2>1, AtsOf
  <2>3. m + k \in DOMAIN P
    BY <1>2, <1>4, <1>8 DEF Text
  <2>. QED  BY <1>8, <2>2, <2>3
<1>12. ASSUME Distinct(Bare(y)), NEW i \in Readable(P), NEW j \in Readable(P), P[i].at = P[j].at
       PROVE  i = j
  <2>1. PICK k \in 1 .. Len(w) : i = m + k /\ w[k] = P[i] /\ IsBare(w[k])
    BY <1>9
  <2>2. PICK l \in 1 .. Len(w) : j = m + l /\ w[l] = P[j] /\ IsBare(w[l])
    BY <1>9
  <2>3. k = l
    BY <1>7, <1>12, <2>1, <2>2, BareDistinct
  <2>. QED  BY <2>1, <2>2, <2>3
<1>. QED  BY <1>4, <1>10, <1>11, <1>12 DEF P

\* Whence the characters of some texts stem
Told(texts) == UNION {{texts[k][i].at : i \in DOMAIN texts[k]} : k \in DOMAIN texts}

\* A reader finds each of ats once at most, and nothing else.
Once(texts, ats) ==
    /\ \A k \in DOMAIN texts : \A i \in Readable(texts[k]) : texts[k][i].at \in ats
    /\ \A k, l \in DOMAIN texts : \A i \in Readable(texts[k]), j \in Readable(texts[l]) :
          texts[k][i].at = texts[l][j].at => k = l /\ i = j

\* Sending chunks, step by step.
NextSent(texts, chunk) == IF IsBlank(chunk) THEN texts ELSE Append(texts, Prepared(chunk))

\* One chunk more is sent.
LEMMA SendOne ==
    ASSUME NEW texts \in Seq(Text), NEW d \in Text, NEW y \in Text, Dressed(d, y)
    PROVE  /\ NextSent(texts, d) \in Seq(Text)
           /\ Told(texts) \cup Ats(y) \subseteq Told(NextSent(texts, d))
           /\ \A ats : Once(texts, ats) /\ ats \cap Ats(y) = {} /\ Distinct(Bare(y))
                         => Once(NextSent(texts, d), ats \cup Ats(y))
<1>1. CASE IsBlank(d)
  <2>1. PICK o, z \in Text : d = o \o z /\ Bare(z) = Bare(y)
    BY DEF Dressed
  <2>2. Bare(d) = <<>>
    BY <1>1, BareNothing DEF IsBlank, IsBare
  <2>3. Bare(o) \o Bare(y) = <<>> /\ Bare(o) \in Seq(Nat) /\ Bare(y) \in Seq(Nat)
    BY <2>1, <2>2, BareConcat, BareGrows
  <2>4. Len(Bare(o)) + Len(Bare(y)) = 0 /\ Len(Bare(o)) \in Nat /\ Len(Bare(y)) \in Nat
    BY <2>3, ConcatIs
  <2>5. Ats(y) = {}
    BY <2>4 DEF Ats
  <2>6. NextSent(texts, d) = texts
    BY <1>1 DEF NextSent
  <2>7. \A ats : ats \cup Ats(y) = ats
    BY <2>5
  <2>. QED  BY <2>5, <2>6, <2>7
<1>2. CASE ~IsBlank(d)
  <2>. DEFINE P == Prepared(d)
              more == Append(texts, P)
              n == Len(texts)
  <2>1. NextSent(texts, d) = more
    BY <1>2 DEF NextSent
  <2>2. /\ P \in Text
        /\ \A i \in Readable(P) : P[i].at \in Ats(y)
        /\ \A at \in Ats(y) : \E i \in DOMAIN P : P[i].at = at
        /\ Distinct(Bare(y)) => \A i, j \in Readable(P) : P[i].at = P[j].at => i = j
    BY PreparedReads
  <2>. HIDE DEF P
  <2>3. /\ more \in Seq(Text) /\ Len(more) = n + 1 /\ n \in Nat
        /\ \A k \in 1 .. n : more[k] = texts[k]
        /\ more[n + 1] = P
    BY <2>2, AppendIs
  <2>. HIDE DEF more
  <2>4. DOMAIN texts = 1 .. n /\ DOMAIN more = 1 .. n + 1
    BY <2>3
  <2>5. \A k \in 1 .. n + 1 : k \in 1 .. n \/ k = n + 1
    BY <2>3
  <2>6. \A k \in 1 .. n : k \in 1 .. n + 1 /\ k # n + 1
    BY <2>3
  <2>7. n + 1 \in 1 .. n + 1
    BY <2>3
  <2>. HIDE DEF n
  <2>8. Told(texts) \cup Ats(y) \subseteq Told(more)
    <3>1. ASSUME NEW k \in 1 .. n, NEW i \in DOMAIN texts[k] PROVE texts[k][i].at \in Told(more)
      BY <2>3, <2>4, <2>6 DEF Told
    <3>2. Told(texts) \subseteq Told(more)
      BY <2>4, <3>1 DEF Told
    <3>3. ASSUME NEW at \in Ats(y) PROVE at \in Told(more)
      <4>1. PICK i \in DOMAIN P : P[i].at = at
        BY <2>2
      <4>. QED  BY <2>3, <2>4, <2>7, <4>1 DEF Told
    <3>. QED  BY <3>2, <3>3
  <2>9. ASSUME NEW ats, Once(texts, ats), ats \cap Ats(y) = {}, Distinct(Bare(y))
        PROVE  Once(more, ats \cup Ats(y))
    <3>1. ASSUME NEW k \in 1 .. n + 1, NEW i \in Readable(more[k])
          PROVE  more[k][i].at \in ats \cup Ats(y) /\ (k = n + 1 => more[k][i].at \notin ats)
                 /\ (k # n + 1 => more[k][i].at \in ats)
      <4>1. CASE k = n + 1
        BY <2>2, <2>3, <2>9, <4>1
      <4>2. CASE k # n + 1
        BY <2>3, <2>4, <2>5, <2>9, <4>2 DEF Once
      <4>. QED  BY <4>1, <4>2
    <3>2. ASSUME NEW k \in 1 .. n + 1, NEW l \in 1 .. n + 1,
                 NEW i \in Readable(more[k]), NEW j \in Readable(more[l]), more[k][i].at = more[l][j].at
          PROVE  k = l /\ i = j
      <4>1. CASE k = n + 1 /\ l = n + 1
        BY <2>2, <2>3, <2>9, <3>2, <4>1
      <4>2. CASE k # n + 1 /\ l # n + 1
        BY <2>3, <2>4, <2>5, <2>9, <3>2, <4>2 DEF Once
      <4>3. k = n + 1 <=> l = n + 1
        BY <3>1, <3>2
      <4>. QED  BY <4>1, <4>2, <4>3
    <3>. QED  BY <2>4, <3>1, <3>2 DEF Once
  <2>. QED  BY <2>1, <2>3, <2>8, <2>9
<1>. QED  BY <1>1, <1>2

\* Sends as a recursive function.
LEMMA SendsRun ==
    ASSUME NEW chunks \in Seq(Text), sent \in Seq(Text), Sends(chunks)
    PROVE  \E f : /\ f[0] = sent
                  /\ \A i \in 1 .. Len(chunks) : f[i] = NextSent(f[i - 1], chunks[i])
                  /\ \A i \in 0 .. Len(chunks) : f[i] \in Seq(Text)
                  /\ sent' = f[Len(chunks)]
<1>. DEFINE S == Seq(Text)
            n == Len(chunks)
            base == sent
            Put(texts, chunk) == IF IsBlank(chunk) THEN texts ELSE Append(texts, Prepared(chunk))
            Eq(g) == g = [i \in 0 .. n |-> IF i = 0 THEN sent ELSE Put(g[i - 1], chunks[i])]
            f == CHOOSE g : Eq(g)
            step == [i \in 1 .. n |-> [s \in S |-> Put(s, chunks[i])]]
<1>1. n \in Nat /\ base \in S
  OBVIOUS
<1>2. ASSUME NEW s \in S, NEW i \in 1 .. n PROVE Put(s, chunks[i]) \in S
  <2>1. chunks[i] \in Text /\ <<>> \in Text /\ IsFlat(<<>>) /\ Begins(chunks[i], <<>>)
    BY DEF Text, IsFlat, Begins
  <2>2. Prepared(chunks[i]) \in Text
    BY <2>1, PreparedKeeps DEF Alike
  <2>. QED  BY <2>2
<1>3. sent' = f[n]
  BY DEF Sends
<1>. HIDE DEF S, Put, base
<1>4. step \in [1 .. n -> [S -> S]]
  BY <1>2
<1>5. PICK g \in Runs(S, base, n, step) : TRUE
  <2>. HIDE DEF step, n
  <2>. QED  BY <1>1, <1>4, Recursion
<1>6. Eq(g)
  <2>1. /\ g \in [0 .. n -> S] /\ g[0] = base
        /\ \A i \in 1 .. n : g[i] = step[i][g[i - 1]]
    BY <1>5 DEF Runs
  <2>2. \A i \in 1 .. n : i - 1 \in 0 .. n /\ g[i - 1] \in S
    <3>. HIDE DEF n
    <3>. QED  BY <1>1, <2>1
  <2>3. \A i \in 1 .. n : g[i] = Put(g[i - 1], chunks[i])
    BY <2>1, <2>2
  <2>. QED  BY <1>1, <2>1, <2>3 DEF base
<1>7. Eq(f)
  <2>. HIDE DEF Eq
  <2>. QED  BY <1>6
<1>8. f[0] = base
  <2>. HIDE DEF f
  <2>. QED  BY <1>1, <1>7 DEF base
<1>9. ASSUME NEW i \in 1 .. n PROVE f[i] = Put(f[i - 1], chunks[i])
  <2>. HIDE DEF f
  <2>1. i \in 0 .. n /\ i # 0
    BY <1>1
  <2>. QED  BY <1>7, <2>1
<1>. HIDE DEF f
<1>10. StaysIn(S, n, f)
  BY <1>1, <1>2, <1>8, <1>9 DEF StaysIn
<1>11. \A i \in 0 .. n : f[i] \in S
  <2>. HIDE DEF n
  <2>. QED  BY <1>1, <1>10, Iterated
<1>. QED  BY <1>3, <1>8, <1>9, <1>11 DEF S, base, Put, NextSent

\* The parts of a text whose bare characters are distinct have none in common.
LEMMA AtsSlices ==
    ASSUME NEW text \in Text, NEW a \in Nat, NEW b \in Nat, NEW c \in Nat, a <= b, b <= c, c <= Len(text)
    PROVE  /\ Ats(Slice(text, a, c)) = Ats(Slice(text, a, b)) \cup Ats(Slice(text, b, c))
           /\ Distinct(Bare(Slice(text, a, c))) =>
                /\ Distinct(Bare(Slice(text, a, b))) /\ Distinct(Bare(Slice(text, b, c)))
                /\ Ats(Slice(text, a, b)) \cap Ats(Slice(text, b, c)) = {}
<1>1. Bare(Slice(text, a, c)) = Bare(Slice(text, a, b)) \o Bare(Slice(text, b, c))
  BY BareSlices
<1>2. Slice(text, a, b) \in Text /\ Slice(text, b, c) \in Text
  BY SliceTyped DEF Text
<1>3. Bare(Slice(text, a, b)) \in Seq(Nat) /\ Bare(Slice(text, b, c)) \in Seq(Nat)
  BY <1>2, BareGrows
<1>4. \A t : Ats(t) = Values(Bare(t))
  BY DEF Ats, Values
<1>5. PICK s \in Seq(Nat) : s = Bare(Slice(text, a, b))
  BY <1>3
<1>6. PICK t \in Seq(Nat) : t = Bare(Slice(text, b, c))
  BY <1>3
<1>7. /\ Values(s \o t) = Values(s) \cup Values(t)
      /\ Distinct(s \o t) => Distinct(s) /\ Distinct(t) /\ Values(s) \cap Values(t) = {}
  BY PartsApart
<1>. QED  BY <1>1, <1>4, <1>5, <1>6, <1>7

\* The chunks are sent, each once.
LEMMA SendAll ==
    ASSUME NEW text \in Text, NEW chunks \in Seq(Text), NEW end, sent \in Seq(Text), Sends(chunks),
           end[0] = 0,
           \A i \in 1 .. Len(chunks) :
              /\ end[i - 1] \in Nat /\ end[i] \in Nat /\ end[i - 1] <= end[i] /\ end[i] <= Len(text)
              /\ Dressed(chunks[i], Between(text, end, i))
    PROVE  LET all == Ats(Slice(text, 0, end[Len(chunks)])) IN
           /\ sent' \in Seq(Text)
           /\ Told(sent) \cup all \subseteq Told(sent')
           /\ \A ats : Once(sent, ats) /\ ats \cap Ats(text) = {} /\ Distinct(Bare(text))
                         => Once(sent', ats \cup all)
<1>. DEFINE n == Len(chunks)
            All(i) == Ats(Slice(text, 0, end[i]))
<1>1. n \in Nat /\ Len(text) \in Nat
  BY DEF Text
<1>2. PICK f : /\ f[0] = sent
               /\ \A i \in 1 .. n : f[i] = NextSent(f[i - 1], chunks[i])
               /\ \A i \in 0 .. n : f[i] \in Seq(Text)
               /\ sent' = f[n]
  BY SendsRun
<1>3. All(0) = {}
  <2>1. Slice(text, 0, 0) = <<>>
    BY WholeSlice
  <2>. QED  BY <2>1, BareGrows DEF Ats
<1>4. ASSUME NEW i \in 1 .. n
      PROVE  /\ Between(text, end, i) \in Text
             /\ All(i) = All(i - 1) \cup Ats(Between(text, end, i))
             /\ Ats(Between(text, end, i)) \subseteq Ats(text)
             /\ Distinct(Bare(text)) => /\ Distinct(Bare(Between(text, end, i)))
                                        /\ All(i - 1) \cap Ats(Between(text, end, i)) = {}
  <2>. DEFINE a == end[i - 1]
              b == end[i]
              c == Len(text)
  <2>1. /\ a \in Nat /\ b \in Nat /\ a <= b /\ b <= c /\ c \in Nat /\ c <= Len(text)
        /\ 0 \in Nat /\ 0 <= a /\ 0 <= b
    BY <1>1
  <2>. HIDE DEF a, b, c
  <2>2. Slice(text, a, b) \in Text
    BY <2>1, SliceTyped DEF Text
  <2>3. /\ Ats(Slice(text, 0, b)) = Ats(Slice(text, 0, a)) \cup Ats(Slice(text, a, b))
        /\ Distinct(Bare(Slice(text, 0, b))) => /\ Distinct(Bare(Slice(text, a, b)))
                                                /\ Ats(Slice(text, 0, a)) \cap Ats(Slice(text, a, b)) = {}
    <3>1. b <= Len(text)
      BY <2>1 DEF c
    <3>. QED  BY <2>1, <3>1, AtsSlices
  <2>4. /\ Ats(Slice(text, 0, c)) = Ats(Slice(text, 0, b)) \cup Ats(Slice(text, b, c))
        /\ Distinct(Bare(Slice(text, 0, c))) => Distinct(Bare(Slice(text, 0, b)))
    BY <2>1, AtsSlices
  <2>5. Slice(text, 0, c) = text
    BY WholeSlice DEF c
  <2>. QED  BY <2>2, <2>3, <2>4, <2>5 DEF a, b, Between
<1>. HIDE DEF All
<1>. DEFINE T == {i \in 0 .. n : Told(sent) \cup All(i) \subseteq Told(f[i])}
<1>5. 0 \in T
  BY <1>1, <1>2, <1>3
<1>6. ASSUME NEW i \in 1 .. n
      PROVE  /\ i - 1 \in 0 .. n /\ i \in 0 .. n
             /\ f[i] \in Seq(Text)
             /\ Told(f[i - 1]) \cup Ats(Between(text, end, i)) \subseteq Told(f[i])
             /\ \A ats : Once(f[i - 1], ats) /\ ats \cap Ats(Between(text, end, i)) = {}
                           /\ Distinct(Bare(Between(text, end, i)))
                           => Once(f[i], ats \cup Ats(Between(text, end, i)))
  <2>1. i - 1 \in 0 .. n /\ i \in 0 .. n
    BY <1>1
  <2>2. f[i - 1] \in Seq(Text) /\ chunks[i] \in Text /\ f[i] = NextSent(f[i - 1], chunks[i])
    BY <1>2, <2>1
  <2>3. Between(text, end, i) \in Text /\ Dressed(chunks[i], Between(text, end, i))
    BY <1>4
  <2>. QED  BY <2>1, <2>2, <2>3, SendOne
<1>7. ASSUME NEW i \in 1 .. n, i - 1 \in T PROVE i \in T
  <2>1. Told(sent) \cup All(i - 1) \subseteq Told(f[i - 1])
    BY <1>7
  <2>2. All(i) = All(i - 1) \cup Ats(Between(text, end, i))
    BY <1>4
  <2>3. i \in 0 .. n /\ Told(f[i - 1]) \cup Ats(Between(text, end, i)) \subseteq Told(f[i])
    BY <1>6
  <2>4. Told(sent) \cup All(i) \subseteq Told(f[i])
    BY <2>1, <2>2, <2>3
  <2>. QED  BY <2>3, <2>4
<1>8. n \in T
  <2>1. n \in 0 .. n
    BY <1>1
  <2>. HIDE DEF T, n
  <2>. QED  BY <1>1, <1>5, <1>7, <2>1, Steps
<1>9. ASSUME NEW ats, Once(sent, ats), ats \cap Ats(text) = {}, Distinct(Bare(text))
      PROVE  Once(sent', ats \cup All(n))
  <2>. DEFINE R == {i \in 0 .. n : Once(f[i], ats \cup All(i))}
  <2>1. 0 \in R
    <3>1. ats \cup All(0) = ats
      BY <1>3
    <3>2. f[0] = sent
      BY <1>2
    <3>3. Once(f[0], ats \cup All(0))
      BY <1>9, <3>1, <3>2
    <3>4. 0 \in 0 .. n
      BY <1>1
    <3>. QED  BY <3>3, <3>4
  <2>2. ASSUME NEW i \in 1 .. n, i - 1 \in R PROVE i \in R
    <3>1. Once(f[i - 1], ats \cup All(i - 1))
      BY <2>2
    <3>2. (ats \cup All(i - 1)) \cap Ats(Between(text, end, i)) = {} /\ Distinct(Bare(Between(text, end, i)))
      BY <1>4, <1>9
    <3>3. Once(f[i], (ats \cup All(i - 1)) \cup Ats(Between(text, end, i)))
      BY <1>6, <3>1, <3>2
    <3>4. (ats \cup All(i - 1)) \cup Ats(Between(text, end, i)) = ats \cup All(i)
      BY <1>4
    <3>. QED  BY <1>6, <3>3, <3>4
  <2>3. n \in R
    <3>1. n \in 0 .. n
      BY <1>1
    <3>. HIDE DEF R, n
    <3>. QED  BY <1>1, <2>1, <2>2, <3>1, Steps
  <2>. QED  BY <1>2, <2>3
<1>10. sent' \in Seq(Text)
  <2>1. n \in 0 .. n
    BY <1>1
  <2>. QED  BY <1>2, <2>1
<1>. QED  BY <1>2, <1>8, <1>9, <1>10 DEF All

-----------------------------------------------------------------------------
(* The cursor *)

\* A chunk that begins with the line of a fence
HasLine(chunk) == chunk # <<>> /\ Head(chunk).c \in Fences /\ Positions(chunk, NL) # {}

\* The body of a chunk is a part of it; what lies behind it cannot be read.
LEMMA StrippedIs ==
    ASSUME NEW chunk \in Text
    PROVE  LET from == IF HasLine(chunk) THEN LineEnd(chunk, 1) ELSE 0
               body == Stripped(chunk)
           IN  /\ from \in 0 .. Len(chunk)
               /\ body \in Text /\ from + Len(body) <= Len(chunk)
               /\ \A k \in 1 .. Len(body) : body[k] = chunk[from + k]
               /\ \A j \in from + Len(body) + 1 .. Len(chunk) : ~IsBare(chunk[j])
<1>. DEFINE from == IF HasLine(chunk) THEN LineEnd(chunk, 1) ELSE 0
            rest == IF HasLine(chunk) THEN Rest(chunk, LineEnd(chunk, 1)) ELSE chunk
            n == Len(rest)
            closing == {i \in Positions(rest, NL) :
                          /\ ClassAt(rest, i + 1) = Fence
                          /\ IsBlank(Rest(rest, i + 1))}
            body == Stripped(chunk)
<1>1. body = IF closing = {} THEN rest ELSE SubSeq(rest, 1, Min(closing) - 1)
  BY DEF Stripped, HasLine
<1>2. from \in 0 .. Len(chunk) /\ from \in Nat /\ Len(chunk) \in Nat
  <2>1. Len(chunk) \in Nat
    BY DEF Text
  <2>2. HasLine(chunk) => 1 \in 1 .. Len(chunk)
    BY DEF HasLine, Text
  <2>3. HasLine(chunk) => LineEnd(chunk, 1) \in 1 .. Len(chunk)
    BY <2>2, LineEndIs
  <2>. QED  BY <2>1, <2>3
<1>3. rest \in Text /\ n = Len(chunk) - from /\ \A i \in 1 .. n : rest[i] = chunk[from + i]
  <2>1. rest = Slice(chunk, from, Len(chunk))
    BY WholeSlice DEF Rest
  <2>. HIDE DEF rest
  <2>2. from <= Len(chunk) /\ Len(chunk) <= Len(chunk)
    BY <1>2
  <2>. HIDE DEF from
  <2>. QED  BY <1>2, <2>1, <2>2, SliceIs
<1>. HIDE DEF from, rest, body
<1>4. closing \in SUBSET Nat /\ \A i \in closing : i \in 1 .. n /\ i + 1 \in 1 .. n
  <2>1. ASSUME NEW i \in closing PROVE i \in 1 .. n /\ i + 1 \in 1 .. n
    <3>1. i \in 1 .. n /\ ClassAt(rest, i + 1) = Fence
      BY <1>3 DEF Positions, Text
    <3>2. i + 1 \in DOMAIN rest
      BY <3>1 DEF ClassAt, Fence
    <3>. QED  BY <1>3, <3>1, <3>2 DEF Text
  <2>. QED  BY <2>1
<1>5. n \in Nat
  BY <1>3 DEF Text
<1>6. \E m \in 0 .. n : /\ body \in Text /\ Len(body) = m
                        /\ \A k \in 1 .. m : body[k] = rest[k]
                        /\ \A j \in m + 1 .. n : ~IsBare(rest[j])
  <2>1. CASE closing = {}
    <3>1. body = rest /\ n \in 0 .. n /\ \A j \in n + 1 .. n : FALSE
      BY <1>1, <1>5, <2>1
    <3>. QED  BY <1>3, <3>1
  <2>2. CASE closing # {}
    <3>. DEFINE i == Min(closing)
                m == i - 1
    <3>1. i \in closing
      <4>. HIDE DEF closing
      <4>. QED  BY <1>4, <2>2, Least
    <3>2. rest[i].c = NL /\ ClassAt(rest, i + 1) = Fence /\ IsBlank(Rest(rest, i + 1))
      BY <3>1 DEF Positions
    <3>3. i \in 1 .. n /\ i + 1 \in 1 .. n
      BY <1>4, <3>1
    <3>4. body = SubSeq(rest, 1, i - 1)
      BY <1>1, <2>2
    <3>. HIDE DEF i, closing
    <3>5. rest[i + 1].c = Fence
      <4>1. i + 1 \in DOMAIN rest
        BY <1>3, <3>3 DEF Text
      <4>. QED  BY <3>2, <4>1 DEF ClassAt
    <3>6. m \in 0 .. n /\ m \in Nat /\ i = m + 1
      BY <1>5, <3>3
    <3>7. body \in Text /\ Len(body) = m /\ \A k \in 1 .. m : body[k] = rest[k]
      BY <1>3, <1>5, <3>4, <3>6 DEF Text
    <3>8. ASSUME NEW j \in i .. n PROVE ~IsBare(rest[j])
      <4>1. CASE j = i
        BY <3>2, <4>1 DEF IsBare
      <4>2. CASE j = i + 1
        BY <3>5, <4>2 DEF IsBare, Fences
      <4>3. CASE j # i /\ j # i + 1
        <5>1. j - (i + 1) \in 1 .. n - (i + 1) /\ (i + 1) + (j - (i + 1)) = j
          BY <1>5, <3>3, <4>3
        <5>2. i + 1 \in Nat /\ n \in Nat /\ i + 1 <= n /\ n <= Len(rest)
          BY <1>5, <3>3
        <5>3. /\ Rest(rest, i + 1) \in Text /\ Len(Rest(rest, i + 1)) = n - (i + 1)
              /\ \A k \in 1 .. n - (i + 1) : Rest(rest, i + 1)[k] = rest[(i + 1) + k]
          BY <1>3, <5>2, SliceIs DEF Rest
        <5>4. Rest(rest, i + 1)[j - (i + 1)] = rest[j]
          BY <5>1, <5>3
        <5>5. j - (i + 1) \in DOMAIN Rest(rest, i + 1)
          BY <5>1, <5>3 DEF Text
        <5>6. rest[j].c = NL
          BY <3>2, <5>4, <5>5 DEF IsBlank
        <5>. QED  BY <5>6 DEF IsBare
      <4>. QED  BY <4>1, <4>2, <4>3
    <3>9. m + 1 .. n = i .. n
      BY <3>6
    <3>. HIDE DEF m
    <3>. QED  BY <3>6, <3>7, <3>8, <3>9
  <2>. QED  BY <2>1, <2>2
<1>7. PICK m \in 0 .. n : /\ body \in Text /\ Len(body) = m
                          /\ \A k \in 1 .. m : body[k] = rest[k]
                          /\ \A j \in m + 1 .. n : ~IsBare(rest[j])
  BY <1>6
<1>8. from + m <= Len(chunk)
  BY <1>2, <1>3, <1>5
<1>9. ASSUME NEW k \in 1 .. m PROVE body[k] = chunk[from + k]
  <2>1. k \in 1 .. n
    BY <1>5
  <2>. QED  BY <1>3, <1>7, <2>1
<1>10. ASSUME NEW j \in from + m + 1 .. Len(chunk) PROVE ~IsBare(chunk[j])
  <2>1. j - from \in m + 1 .. n /\ j - from \in 1 .. n /\ from + (j - from) = j
    BY <1>2, <1>3, <1>5
  <2>2. rest[j - from] = chunk[from + (j - from)]
    BY <1>3, <2>1
  <2>3. ~IsBare(rest[j - from])
    BY <1>7, <2>1
  <2>. QED  BY <2>1, <2>2, <2>3
<1>. QED  BY <1>2, <1>7, <1>8, <1>9, <1>10 DEF body, from

\* The body of the last chunk is a part of the text, from where the chunk begins
\* or from behind a line that looks like a fence there.
LEMMA LastBody ==
    ASSUME NEW text \in Text, NEW raw, NEW end, Cutting(text, raw, end), Len(raw) > 1
    PROVE  LET a == end[Len(raw) - 1]
               body == Stripped(Last(raw))
           IN  /\ a \in 0 .. Len(text) /\ body \in Text
               /\ \E p \in a .. Len(text) :
                    /\ p + Len(body) <= Len(text)
                    /\ \A k \in 1 .. Len(body) : body[k] = text[p + k]
                    /\ \A j \in p + Len(body) + 1 .. Len(text) : ~IsBare(text[j])
                    /\ p # a => /\ text[a + 1].c \in Fences /\ \A k \in a + 1 .. p - 1 : text[k].c # NL
                                /\ Last(raw) = Slice(text, a, Len(text))
<1>. DEFINE n == Len(raw)
            a == end[n - 1]
            chunk == Last(raw)
            body == Stripped(chunk)
            last == Slice(text, a, Len(text))
            from == IF HasLine(chunk) THEN LineEnd(chunk, 1) ELSE 0
<1>1. /\ raw \in Seq(Text) /\ n \in Nat /\ n \in 1 .. n /\ n - 1 \in 0 .. n /\ n # 0
      /\ chunk = raw[n] /\ chunk \in Text /\ Len(text) \in Nat
  BY DEF Cutting, Reaches, Last, Text
<1>2. a \in 0 .. Len(text) /\ end[n] = Len(text) /\ Between(text, end, n) = last
  BY <1>1 DEF Cutting, Reaches, Between
<1>3. chunk = last \/ \E o \in Text : o # <<>> /\ IsMark(o) /\ chunk = Opened(o, last)
  BY <1>1, <1>2 DEF Cutting
<1>. HIDE DEF n, a, chunk
<1>4. last \in Text /\ Len(last) = Len(text) - a /\ \A k \in 1 .. Len(text) - a : last[k] = text[a + k]
  <2>1. a \in Nat /\ a <= Len(text)
    BY <1>1, <1>2
  <2>2. Len(text) <= Len(text)
    BY <1>1
  <2>. QED  BY <1>1, <2>1, <2>2, SliceIs
<1>5. /\ from \in 0 .. Len(chunk)
      /\ body \in Text /\ from + Len(body) <= Len(chunk)
      /\ \A k \in 1 .. Len(body) : body[k] = chunk[from + k]
      /\ \A j \in from + Len(body) + 1 .. Len(chunk) : ~IsBare(chunk[j])
  BY <1>1, StrippedIs
<1>. DEFINE m == Len(body)
            Found(p) == /\ p \in a .. Len(text) /\ p + m <= Len(text)
                        /\ \A k \in 1 .. m : body[k] = text[p + k]
                        /\ \A j \in p + m + 1 .. Len(text) : ~IsBare(text[j])
                        /\ p # a => /\ text[a + 1].c \in Fences /\ \A k \in a + 1 .. p - 1 : text[k].c # NL
                                    /\ chunk = last
<1>6. m \in Nat
  BY <1>5 DEF Text
<1>. HIDE DEF body, m, last
<1>7. ASSUME chunk = last PROVE \E p : Found(p)
  <2>. DEFINE p == a + from
  <2>1. /\ p \in a .. Len(text) /\ p + m <= Len(text) /\ from \in Nat /\ a \in Nat
    <3>. HIDE DEF from
    <3>. QED  BY <1>1, <1>2, <1>4, <1>5, <1>6, <1>7 DEF m
  <2>2. ASSUME NEW k \in 1 .. m PROVE body[k] = text[p + k]
    <3>. HIDE DEF from
    <3>1. from + k \in 1 .. Len(text) - a /\ a + (from + k) = p + k
      BY <1>1, <1>6, <2>1
    <3>. QED  BY <1>4, <1>5, <1>7, <3>1 DEF m
  <2>3. ASSUME NEW j \in p + m + 1 .. Len(text) PROVE ~IsBare(text[j])
    <3>. HIDE DEF from
    <3>1. j - a \in from + m + 1 .. Len(chunk) /\ j - a \in 1 .. Len(text) - a /\ a + (j - a) = j
      BY <1>1, <1>4, <1>6, <1>7, <2>1
    <3>2. ~IsBare(chunk[j - a])
      BY <1>5, <3>1 DEF m
    <3>3. chunk[j - a] = text[j]
      BY <1>4, <1>7, <3>1
    <3>. QED  BY <3>2, <3>3
  <2>4. ASSUME p # a PROVE text[a + 1].c \in Fences /\ \A k \in a + 1 .. p - 1 : text[k].c # NL
    <3>1. HasLine(chunk) /\ from = LineEnd(chunk, 1)
      BY <2>1, <2>4
    <3>2. 1 \in 1 .. Len(chunk) /\ Head(chunk) = chunk[1]
      BY <1>1, <3>1 DEF HasLine, Text
    <3>3. text[a + 1].c \in Fences
      BY <1>4, <1>7, <3>1, <3>2 DEF HasLine
    <3>4. \A j \in 1 .. Len(chunk) : chunk[j].c = NL => from <= j
      BY <1>1, <3>1, <3>2, LineEndIs
    <3>. HIDE DEF from
    <3>5. ASSUME NEW k \in a + 1 .. p - 1 PROVE text[k].c # NL
      <4>1. k - a \in 1 .. Len(text) - a /\ ~(from <= k - a) /\ a + (k - a) = k /\ k - a \in 1 .. Len(chunk)
        BY <1>1, <1>4, <1>7, <2>1
      <4>2. chunk[k - a] = text[k]
        BY <1>4, <1>7, <4>1
      <4>. QED  BY <3>4, <4>1, <4>2
    <3>. QED  BY <3>3, <3>5
  <2>. HIDE DEF p, from
  <2>. QED  BY <1>7, <2>1, <2>2, <2>3, <2>4
<1>8. ASSUME NEW o \in Text, o # <<>>, IsMark(o), chunk = Opened(o, last) PROVE Found(a)
  <2>. DEFINE b == Len(o) + 1
              head == Append(o, Added(NL))
  <2>1. /\ head \in Text /\ Len(head) = b /\ head[b] = Added(NL) /\ \A k \in 1 .. Len(o) : head[k] = o[k]
        /\ Len(o) \in Nat /\ Len(o) # 0 /\ Len(last) \in Nat
    <3>1. Added(NL) \in Char
      BY AddedTyped DEF Classes
    <3>. QED  BY <1>4, <1>8, <3>1, AppendIs DEF Text
  <2>2. chunk = head \o last
    <3>1. Added(NL) \in Char
      BY AddedTyped DEF Classes
    <3>2. o \o <<Added(NL)>> = head
      BY <3>1 DEF Text
    <3>. QED  BY <1>4, <1>8, <3>1, <3>2 DEF Opened, Text
  <2>. HIDE DEF head
  <2>3. /\ Len(chunk) = b + Len(last) /\ \A k \in 1 .. b : chunk[k] = head[k]
        /\ \A k \in 1 .. Len(last) : chunk[b + k] = last[k]
    <3>. HIDE DEF b
    <3>0. head \in Text /\ last \in Text
      BY <1>4, <2>1
    <3>1. head \in Seq(Char) /\ last \in Seq(Char)
      BY <3>0 DEF Text
    <3>2. /\ Len(head \o last) = Len(head) + Len(last)
          /\ \A k \in 1 .. Len(head) : (head \o last)[k] = head[k]
          /\ \A k \in 1 .. Len(last) : (head \o last)[Len(head) + k] = last[k]
      BY <3>1, ConcatIs
    <3>. QED  BY <2>1, <2>2, <3>2
  <2>4. b \in 1 .. Len(chunk) /\ 1 \in 1 .. b /\ chunk[b].c = NL /\ 1 \in 1 .. Len(chunk) /\ b \in Nat
    <3>1. b \in 1 .. b /\ b \in 1 .. Len(chunk) /\ 1 \in 1 .. b /\ 1 \in 1 .. Len(chunk)
      BY <2>1, <2>3
    <3>. QED  BY <2>1, <2>3, <3>1 DEF Added
  <2>5. chunk[1].c \in Fences /\ \A k \in 1 .. b - 1 : chunk[k].c # NL
    <3>1. IsFlat(o) /\ o[1].c \in Fences
      BY <1>8 DEF IsMark
    <3>2. ASSUME NEW k \in 1 .. b - 1 PROVE chunk[k] = o[k] /\ k \in 1 .. Len(o)
      <4>1. k \in 1 .. Len(o) /\ k \in 1 .. b
        BY <2>1
      <4>. QED  BY <2>1, <2>3, <4>1
    <3>3. 1 \in 1 .. b - 1
      BY <2>1
    <3>. QED  BY <3>1, <3>2, <3>3 DEF IsFlat
  <2>6. HasLine(chunk)
    <3>1. b \in Positions(chunk, NL)
      BY <1>1, <2>4 DEF Positions, Text
    <3>2. chunk # <<>> /\ Head(chunk) = chunk[1]
      BY <1>1, <2>4 DEF Text
    <3>. QED  BY <2>5, <3>1, <3>2 DEF HasLine
  <2>7. from = b
    <3>1. LineEnd(chunk, 1) \in 1 .. Len(chunk) /\ LineEnd(chunk, 1) <= b
          /\ (LineEnd(chunk, 1) < Len(chunk) => chunk[LineEnd(chunk, 1)].c = NL)
      BY <1>1, <2>4, LineEndIs
    <3>2. ~(LineEnd(chunk, 1) < b)
      <4>1. LineEnd(chunk, 1) < b => LineEnd(chunk, 1) \in 1 .. b - 1 /\ LineEnd(chunk, 1) < Len(chunk)
        BY <2>1, <2>3, <2>4, <3>1
      <4>. QED  BY <2>5, <3>1, <4>1
    <3>. QED  BY <2>4, <2>6, <3>1, <3>2
  <2>. HIDE DEF from, b
  <2>8. a \in a .. Len(text) /\ a + m <= Len(text) /\ m <= Len(last) /\ a \in Nat
    BY <1>1, <1>2, <1>4, <1>5, <1>6, <2>1, <2>3, <2>4, <2>7 DEF m
  <2>9. ASSUME NEW k \in 1 .. m PROVE body[k] = text[a + k]
    <3>1. k \in 1 .. Len(last) /\ k \in 1 .. Len(text) - a
      BY <1>4, <1>6, <2>1, <2>8
    <3>. QED  BY <1>4, <1>5, <2>3, <2>7, <3>1 DEF m
  <2>10. ASSUME NEW j \in a + m + 1 .. Len(text) PROVE ~IsBare(text[j])
    <3>1. /\ b + (j - a) \in from + m + 1 .. Len(chunk) /\ j - a \in 1 .. Len(last)
          /\ j - a \in 1 .. Len(text) - a /\ a + (j - a) = j
      BY <1>1, <1>4, <1>6, <2>1, <2>3, <2>4, <2>7, <2>8
    <3>2. ~IsBare(chunk[b + (j - a)])
      BY <1>5, <3>1 DEF m
    <3>3. chunk[b + (j - a)] = text[j]
      BY <1>4, <2>3, <3>1
    <3>. QED  BY <3>2, <3>3
  <2>. QED  BY <2>8, <2>9, <2>10
<1>9. \E p : Found(p)
  <2>. HIDE DEF Found
  <2>. QED  BY <1>3, <1>7, <1>8
<1>. QED  BY <1>2, <1>5, <1>9 DEF body, last, m, chunk, a, n

\* A text is found within another.
LEMMA FoundAt ==
    ASSUME NEW text \in Text, NEW body \in Text, NEW p \in 0 .. Len(text)
    PROVE  StartsWith(Rest(text, p), body)
             <=> p + Len(body) <= Len(text) /\ \A k \in 1 .. Len(body) : text[p + k].c = body[k].c
<1>1. p \in Nat /\ p <= Len(text) /\ Len(text) \in Nat /\ Len(text) <= Len(text) /\ Len(body) \in Nat
  BY DEF Text
<1>2. /\ Rest(text, p) \in Text /\ Len(Rest(text, p)) = Len(text) - p
      /\ \A k \in 1 .. Len(text) - p : Rest(text, p)[k] = text[p + k]
  BY <1>1, SliceIs DEF Rest
<1>3. StartsWith(Rest(text, p), body)
        <=> Len(body) <= Len(text) - p /\ \A k \in 1 .. Len(body) : Rest(text, p)[k].c = body[k].c
  BY <1>2, StartsWithIs
<1>4. Len(body) <= Len(text) - p <=> p + Len(body) <= Len(text)
  BY <1>1
<1>5. ASSUME Len(body) <= Len(text) - p, NEW k \in 1 .. Len(body)
      PROVE  Rest(text, p)[k] = text[p + k]
  <2>1. k \in 1 .. Len(text) - p
    BY <1>1, <1>5
  <2>. QED  BY <1>2, <2>1
<1>. QED  BY <1>3, <1>4, <1>5

\* The cursor stays, or moves to where the last chunk begins, or behind a line of
\* it that looks like a fence there.
LEMMA CursorLands ==
    ASSUME NEW text \in Text, NEW raw, NEW end, Cutting(text, raw, end), Len(raw) > 1
    PROVE  LET a == end[Len(raw) - 1]
               off == OffsetOfLast(text, raw)
           IN  /\ a \in 0 .. Len(text) /\ off \in 0 .. Len(text)
               /\ off # 0 =>
                    /\ a <= off
                    /\ \A j \in a + 1 .. off : IsBare(text[j]) =>
                         /\ text[a + 1].c \in Fences /\ \A k \in a + 1 .. j - 1 : text[k].c # NL
                         /\ Last(raw) = Slice(text, a, Len(text))
<1>. DEFINE a == end[Len(raw) - 1]
            off == OffsetOfLast(text, raw)
            body == Stripped(Last(raw))
            m == Len(body)
            n == Len(text)
            places == {i \in 0 .. n : StartsWith(Rest(text, i), body)}
            top == Max(places)
<1>1. /\ a \in 0 .. n /\ body \in Text /\ n \in Nat
      /\ \E p \in a .. n :
           /\ p + m <= n
           /\ \A k \in 1 .. m : body[k] = text[p + k]
           /\ \A j \in p + m + 1 .. n : ~IsBare(text[j])
           /\ p # a => /\ text[a + 1].c \in Fences /\ \A k \in a + 1 .. p - 1 : text[k].c # NL
                       /\ Last(raw) = Slice(text, a, n)
  BY LastBody DEF Text
<1>2. off = IF Len(raw) <= 1 \/ body = <<>> \/ places = {} THEN 0 ELSE top
  BY DEF OffsetOfLast
<1>. HIDE DEF a, body, off
<1>3. PICK p \in a .. n :
           /\ p + m <= n
           /\ \A k \in 1 .. m : body[k] = text[p + k]
           /\ \A j \in p + m + 1 .. n : ~IsBare(text[j])
           /\ p # a => /\ text[a + 1].c \in Fences /\ \A k \in a + 1 .. p - 1 : text[k].c # NL
                       /\ Last(raw) = Slice(text, a, n)
  BY <1>1
<1>4. m \in Nat /\ p \in 0 .. n /\ p \in Nat /\ a \in Nat
  BY <1>1, <1>3 DEF Text
<1>5. p \in places
  BY <1>1, <1>3, <1>4, FoundAt
<1>6. top \in 0 .. n /\ p <= top /\ top + m <= n /\ \A k \in 1 .. m : text[top + k].c = body[k].c
  <2>1. places \in SUBSET Nat /\ \A x \in places : x \in 0 .. n /\ x <= n
    BY <1>1
  <2>2. top \in places /\ \A x \in places : x <= top
    <3>. HIDE DEF places, n
    <3>. QED  BY <1>1, <1>5, <2>1, Greatest
  <2>. HIDE DEF top
  <2>3. top \in 0 .. n /\ StartsWith(Rest(text, top), body)
    BY <2>2
  <2>. QED  BY <1>1, <1>5, <2>2, <2>3, FoundAt
<1>. HIDE DEF top, places, m, n
\* The greatest bare character behind p would have a greater one where the body is found again.
<1>7. ASSUME p < top, NEW j \in p + 1 .. n, IsBare(text[j]) PROVE FALSE
  <2>. DEFINE T == {i \in p + 1 .. n : IsBare(text[i])}
  <2>1. T \in SUBSET Nat /\ j \in T /\ \A x \in T : x <= n
    BY <1>1, <1>4, <1>7
  <2>2. PICK g \in T : \A x \in T : x <= g
    <3>1. Max(T) \in T /\ \A x \in T : x <= Max(T)
      <4>. HIDE DEF T
      <4>. QED  BY <1>1, <2>1, Greatest
    <3>. QED  BY <3>1
  <2>3. g \in p + 1 .. n /\ IsBare(text[g])
    OBVIOUS
  <2>4. g \notin p + m + 1 .. n
    BY <1>3, <2>3 DEF m, n
  <2>5. g - p \in 1 .. m /\ p + (g - p) = g
    BY <1>1, <1>4, <2>3, <2>4
  <2>6. text[top + (g - p)].c = text[g].c
    <3>1. text[top + (g - p)].c = body[g - p].c
      BY <1>6, <2>5
    <3>2. body[g - p] = text[p + (g - p)]
      BY <1>3, <2>5 DEF m
    <3>. QED  BY <2>5, <3>1, <3>2
  <2>7. top + (g - p) \in p + 1 .. n /\ top + (g - p) > g
    BY <1>1, <1>4, <1>6, <1>7, <2>3, <2>5
  <2>8. top + (g - p) \in T
    BY <2>3, <2>6, <2>7 DEF IsBare
  <2>. HIDE DEF T
  <2>9. top + (g - p) <= g
    BY <2>2, <2>8
  <2>. QED  BY <1>4, <1>6, <2>3, <2>7, <2>9
<1>8. off \in 0 .. n
  BY <1>1, <1>2, <1>6
<1>9. ASSUME off # 0
      PROVE  /\ a <= off
             /\ \A j \in a + 1 .. off : IsBare(text[j]) =>
                  /\ text[a + 1].c \in Fences /\ \A k \in a + 1 .. j - 1 : text[k].c # NL
                  /\ Last(raw) = Slice(text, a, n)
  <2>1. off = top
    BY <1>2, <1>9
  <2>2. a <= off
    BY <1>3, <1>4, <1>6, <2>1
  <2>3. ASSUME NEW j \in a + 1 .. off, IsBare(text[j])
        PROVE  p # a /\ j \in a + 1 .. p
    <3>1. j \in a + 1 .. n /\ j \in Nat
      BY <1>1, <1>4, <1>8
    <3>2. j <= p
      <4>. SUFFICES ASSUME p < j PROVE FALSE
        BY <1>4, <3>1
      <4>1. p < top /\ j \in p + 1 .. n
        BY <1>1, <1>4, <1>6, <2>1, <3>1
      <4>. QED  BY <1>7, <2>3, <4>1
    <3>. QED  BY <1>4, <3>1, <3>2
  <2>4. ASSUME NEW j \in a + 1 .. off, IsBare(text[j])
        PROVE  /\ text[a + 1].c \in Fences /\ \A k \in a + 1 .. j - 1 : text[k].c # NL
               /\ Last(raw) = Slice(text, a, n)
    <3>1. p # a /\ j \in a + 1 .. p
      BY <2>3, <2>4
    <3>2. \A k \in a + 1 .. j - 1 : k \in a + 1 .. p - 1
      BY <1>4, <3>1
    <3>. QED  BY <1>3, <3>1, <3>2 DEF n
  <2>. QED  BY <2>2, <2>4
<1>. QED  BY <1>1, <1>8, <1>9 DEF a, off, n

-----------------------------------------------------------------------------
(* The text that comes in *)

\* No two characters of the message are at the same place.
LEMMA MessageDistinct ==
    ASSUME NEW text \in Text, \A i \in 1 .. Len(text) : text[i].at = i
    PROVE  Distinct(Bare(text))
<1>. DEFINE n == Len(text)
<1>1. n \in Nat
  BY DEF Text
<1>2. PICK f : /\ f[0] = <<>> /\ \A i \in 1 .. n : f[i] = f[i - 1] \o BareOf(text[i])
               /\ \A i \in 0 .. n : f[i] \in Seq(Nat)
               /\ Bare(text) = f[n]
  BY BareRuns
<1>. DEFINE Low(s, i) == \A p \in 1 .. Len(s) : s[p] <= i
            T == {i \in 0 .. n : Distinct(f[i]) /\ Low(f[i], i)}
<1>3. 0 \in T
  BY <1>1, <1>2 DEF Distinct
<1>4. ASSUME NEW i \in 1 .. n, i - 1 \in T PROVE i \in T
  <2>. DEFINE s == f[i - 1]
  <2>1. /\ i - 1 \in 0 .. n /\ i \in 0 .. n /\ s \in Seq(Nat) /\ f[i] = s \o BareOf(text[i])
        /\ Distinct(s) /\ Low(s, i - 1) /\ text[i].at = i /\ i \in Nat
    <3>1. i - 1 \in 0 .. n /\ i \in 0 .. n /\ i \in Nat
      BY <1>1
    <3>2. text[i].at = i
      OBVIOUS
    <3>3. Distinct(s) /\ Low(s, i - 1)
      BY <1>4
    <3>4. s \in Seq(Nat) /\ f[i] = s \o BareOf(text[i])
      <4>. HIDE DEF n
      <4>. QED  BY <1>2, <3>1
    <3>. QED  BY <3>1, <3>2, <3>3, <3>4
  <2>. HIDE DEF s
  <2>2. CASE BareOf(text[i]) = <<>>
    <3>1. f[i] = s
      BY <2>1, <2>2
    <3>2. Low(s, i)
      BY <2>1
    <3>. QED  BY <2>1, <3>1, <3>2
  <2>3. CASE BareOf(text[i]) = <<i>>
    <3>1. /\ f[i] \in Seq(Nat) /\ Len(f[i]) = Len(s) + 1 /\ Len(s) \in Nat
          /\ \A p \in 1 .. Len(s) : f[i][p] = s[p] /\ s[p] <= i - 1 /\ s[p] \in Nat
          /\ f[i][Len(s) + 1] = i
      <4>1. f[i] = Append(s, i)
        BY <2>1, <2>3
      <4>. QED  BY <2>1, <4>1, AppendIs
    <3>2. \A p \in 1 .. Len(s) + 1 : p \in 1 .. Len(s) \/ p = Len(s) + 1
      BY <3>1
    <3>3. Low(f[i], i)
      BY <2>1, <3>1, <3>2
    <3>4. ASSUME NEW p \in 1 .. Len(s) + 1, NEW q \in 1 .. Len(s) + 1, f[i][p] = f[i][q] PROVE p = q
      <4>1. CASE p \in 1 .. Len(s) /\ q \in 1 .. Len(s)
        BY <2>1, <3>1, <3>4, <4>1 DEF Distinct
      <4>2. CASE p \in 1 .. Len(s) /\ q = Len(s) + 1
        <5>1. f[i][p] <= i - 1 /\ f[i][q] = i /\ f[i][p] \in Nat
          BY <3>1, <4>2
        <5>. QED  BY <2>1, <3>4, <5>1
      <4>3. CASE p = Len(s) + 1 /\ q \in 1 .. Len(s)
        <5>1. f[i][q] <= i - 1 /\ f[i][p] = i /\ f[i][q] \in Nat
          BY <3>1, <4>3
        <5>. QED  BY <2>1, <3>4, <5>1
      <4>. QED  BY <3>2, <4>1, <4>2, <4>3
    <3>5. Distinct(f[i])
      BY <3>1, <3>4 DEF Distinct
    <3>. QED  BY <2>1, <3>3, <3>5
  <2>. QED  BY <2>1, <2>2, <2>3 DEF BareOf
<1>5. n \in T
  <2>1. n \in 0 .. n
    BY <1>1
  <2>. HIDE DEF T, n
  <2>. QED  BY <1>1, <1>3, <1>4, <2>1, Steps
<1>. QED  BY <1>2, <1>5

\* What was sent of a text is as readable in another that begins like it.
LEMMA ReadableSame ==
    ASSUME NEW old \in Text, NEW new \in Text, NEW s \in Nat, s <= Len(old), s <= Len(new),
           \A i \in 1 .. s : new[i].c = old[i].c, NEW i \in Readable(new), i <= s
    PROVE  i \in Readable(old)
<1>1. /\ i \in 1 .. Len(new) /\ i \in 1 .. s /\ i \in 1 .. Len(old)
      /\ new[i].c \in Classes \ ({NL} \cup Fences)
      /\ \A f \in FenceLines(new) : i \notin f .. LineEnd(new, f)
  <2>1. /\ i \in 1 .. Len(new) /\ new[i].c \in Classes \ ({NL} \cup Fences)
        /\ \A f \in FenceLines(new) : i \notin f .. LineEnd(new, f)
    BY DEF Readable, Text
  <2>2. Len(new) \in Nat /\ Len(old) \in Nat
    BY DEF Text
  <2>. QED  BY <2>1, <2>2
<1>2. Len(new) \in Nat /\ Len(old) \in Nat
  BY DEF Text
<1>3. ASSUME NEW f \in FenceLines(old), i \in f .. LineEnd(old, f) PROVE FALSE
  <2>1. f \in 1 .. Len(old) /\ (f = 1 \/ old[f - 1].c = NL) /\ old[f].c \in Fences
    BY DEF FenceLines, LineStarts, Text
  <2>2. f \in 1 .. s /\ f \in 1 .. Len(new) /\ f <= i /\ (f # 1 => f - 1 \in 1 .. s)
    <3>1. LineEnd(old, f) \in f .. Len(old)
      BY <2>1, LineEndIs
    <3>. QED  BY <1>1, <1>2, <1>3, <2>1, <3>1
  <2>3. f \in FenceLines(new)
    <3>1. f = 1 \/ new[f - 1].c = NL
      BY <2>1, <2>2
    <3>2. new[f].c \in Fences
      BY <2>1, <2>2
    <3>3. f \in DOMAIN new
      BY <2>2 DEF Text
    <3>. QED  BY <3>1, <3>2, <3>3 DEF FenceLines, LineStarts
  <2>. DEFINE e == LineEnd(new, f)
  <2>4. e \in f .. Len(new) /\ (e < Len(new) => new[e].c = NL)
    BY <2>2, LineEndIs
  <2>5. e < i
    <3>1. i \notin f .. e
      BY <1>1, <2>3
    <3>. HIDE DEF e
    <3>. QED  BY <1>1, <1>2, <2>2, <2>4, <3>1
  <2>. HIDE DEF e
  <2>6. e \in 1 .. s /\ e \in f .. Len(old) /\ e < Len(new)
    BY <1>1, <1>2, <2>1, <2>2, <2>4, <2>5
  <2>7. old[e].c = NL
    BY <2>4, <2>6
  <2>8. LineEnd(old, f) <= e /\ LineEnd(old, f) \in f .. Len(old)
    BY <2>1, <2>6, <2>7, LineEndIs
  <2>. QED  BY <1>1, <1>2, <1>3, <2>1, <2>4, <2>5, <2>8
<1>4. old[i].c = new[i].c /\ i \in DOMAIN old
  BY <1>1 DEF Text
<1>. QED  BY <1>1, <1>3, <1>4 DEF Readable

\* Texts of the same classes up to s, both of them the beginning of the message.
LEMMA CommonPart ==
    ASSUME NEW old \in Text, NEW new \in Text, NEW s \in Nat, s <= Len(old), s <= Len(new),
           \A i \in 1 .. s : new[i].c = old[i].c,
           NEW u \in Seq(Nat), NEW v \in Seq(Nat), Bare(old) \o u = Bare(new) \o v
    PROVE  /\ Ats(Slice(new, 0, s)) = Ats(Slice(old, 0, s))
           /\ \A i \in Readable(new) : i <= s => i \in Readable(old) /\ new[i].at = old[i].at
<1>0. Len(old) \in Nat /\ Len(new) \in Nat /\ 0 \in Nat
  BY DEF Text
<1>1. ASSUME NEW k \in 0 .. s
      PROVE  Len(Bare(Slice(new, 0, k))) = Len(Bare(Slice(old, 0, k)))
  <2>1. k \in Nat /\ 0 <= k /\ k <= Len(old) /\ k <= Len(new) /\ k - 0 = k
    BY <1>0
  <2>2. /\ Slice(new, 0, k) \in Text /\ Len(Slice(new, 0, k)) = k
        /\ \A i \in 1 .. k : Slice(new, 0, k)[i] = new[0 + i]
        /\ Slice(old, 0, k) \in Text /\ Len(Slice(old, 0, k)) = k
        /\ \A i \in 1 .. k : Slice(old, 0, k)[i] = old[0 + i]
    <3>1. /\ Slice(new, 0, k) \in Text /\ Len(Slice(new, 0, k)) = k - 0
          /\ \A i \in 1 .. k - 0 : Slice(new, 0, k)[i] = new[0 + i]
      BY <1>0, <2>1, SliceIs
    <3>2. /\ Slice(old, 0, k) \in Text /\ Len(Slice(old, 0, k)) = k - 0
          /\ \A i \in 1 .. k - 0 : Slice(old, 0, k)[i] = old[0 + i]
      BY <1>0, <2>1, SliceIs
    <3>. QED  BY <2>1, <3>1, <3>2
  <2>3. \A i \in 1 .. k : Slice(new, 0, k)[i].c = Slice(old, 0, k)[i].c
    <3>. TAKE i \in 1 .. k
    <3>1. i \in 1 .. s /\ 0 + i = i
      OBVIOUS
    <3>. QED  BY <2>2, <3>1
  <2>4. DOMAIN Slice(new, 0, k) = 1 .. k /\ DOMAIN Slice(old, 0, k) = 1 .. k
    BY <2>2 DEF Text
  <2>5. Chars(Slice(new, 0, k)) = Chars(Slice(old, 0, k))
    BY <2>3, <2>4 DEF Chars
  <2>. QED  BY <2>2, <2>5, BareLen
<1>2. Bare(old) \in Seq(Nat) /\ Bare(new) \in Seq(Nat)
  BY BareGrows
<1>3. ASSUME NEW p \in 1 .. Len(Bare(old)), p \in 1 .. Len(Bare(new))
      PROVE  Bare(old)[p] = Bare(new)[p]
  <2>1. (Bare(old) \o u)[p] = Bare(old)[p]
    BY <1>2, ConcatIs
  <2>2. (Bare(new) \o v)[p] = Bare(new)[p]
    BY <1>2, <1>3, ConcatIs
  <2>. QED  BY <2>1, <2>2
<1>4. ASSUME NEW text \in Text, s <= Len(text)
      PROVE  /\ Bare(Slice(text, 0, s)) \in Seq(Nat)
             /\ Len(Bare(Slice(text, 0, s))) <= Len(Bare(text))
             /\ \A p \in 1 .. Len(Bare(Slice(text, 0, s))) : Bare(Slice(text, 0, s))[p] = Bare(text)[p]
  <2>. DEFINE a == Slice(text, 0, s)
              b == Slice(text, s, Len(text))
  <2>1. text \in Text /\ s <= Len(text) /\ Len(text) \in Nat
    BY <1>4 DEF Text
  <2>2. a \in Text /\ b \in Text /\ Bare(text) = Bare(a) \o Bare(b)
    <3>1. Slice(text, 0, Len(text)) = text
      BY <2>1, WholeSlice
    <3>2. PICK c \in Nat : c = Len(text) /\ s <= c /\ c <= Len(text)
      BY <2>1
    <3>3. Bare(Slice(text, 0, c)) = Bare(Slice(text, 0, s)) \o Bare(Slice(text, s, c))
      <4>1. PICK z \in Nat : z = 0 /\ z <= s
        OBVIOUS
      <4>2. Bare(Slice(text, z, c)) = Bare(Slice(text, z, s)) \o Bare(Slice(text, s, c))
        BY <2>1, <3>2, <4>1, BareSlices
      <4>. QED  BY <4>1, <4>2
    <3>. QED  BY <1>0, <2>1, <3>1, <3>2, <3>3, SliceTyped DEF Text
  <2>. HIDE DEF a, b
  <2>3. Bare(a) \in Seq(Nat) /\ Bare(b) \in Seq(Nat)
    BY <2>2, BareGrows
  <2>. QED  BY <2>2, <2>3, ConcatIs DEF a
<1>5. Ats(Slice(new, 0, s)) = Ats(Slice(old, 0, s))
  <2>. DEFINE a == Bare(Slice(new, 0, s))
              b == Bare(Slice(old, 0, s))
  <2>1. /\ a \in Seq(Nat) /\ Len(a) <= Len(Bare(new)) /\ \A p \in 1 .. Len(a) : a[p] = Bare(new)[p]
        /\ b \in Seq(Nat) /\ Len(b) <= Len(Bare(old)) /\ \A p \in 1 .. Len(b) : b[p] = Bare(old)[p]
        /\ Len(a) = Len(b)
    <3>1. s \in 0 .. s
      OBVIOUS
    <3>. QED  BY <1>1, <1>4, <3>1
  <2>. HIDE DEF a, b
  <2>2. ASSUME NEW p \in 1 .. Len(a) PROVE a[p] = b[p]
    <3>1. /\ Len(a) = Len(b) /\ Len(a) <= Len(Bare(new)) /\ Len(b) <= Len(Bare(old))
          /\ a \in Seq(Nat)
      BY <2>1
    <3>2. Len(a) \in Nat
      BY <3>1
    <3>3. Len(Bare(new)) \in Nat /\ Len(Bare(old)) \in Nat
      BY <1>2
    <3>4. p \in 1 .. Len(b) /\ p \in 1 .. Len(Bare(new)) /\ p \in 1 .. Len(Bare(old))
      BY <3>1, <3>2, <3>3
    <3>. QED  BY <1>3, <2>1, <3>4
  <2>3. a = b
    BY <2>1, <2>2, SameSeq
  <2>. QED  BY <2>3 DEF Ats, a, b
<1>6. ASSUME NEW i \in Readable(new), i <= s PROVE i \in Readable(old) /\ new[i].at = old[i].at
  <2>1. i \in Readable(old)
    BY <1>6, ReadableSame
  <2>2. i \in 1 .. Len(old) /\ IsBare(old[i]) /\ i \in 1 .. Len(new) /\ IsBare(new[i])
    BY <2>1 DEF Readable, IsBare, Text
  <2>3. Place(new, i) = Place(old, i)
    <3>1. i - 1 \in 0 .. s
      BY <1>0, <1>6, <2>2
    <3>. QED  BY <1>1, <3>1 DEF Place
  <2>4. /\ Place(new, i) \in 1 .. Len(Bare(new)) /\ Bare(new)[Place(new, i)] = new[i].at
        /\ Place(old, i) \in 1 .. Len(Bare(old)) /\ Bare(old)[Place(old, i)] = old[i].at
    BY <2>2, PlaceIs
  <2>. QED  BY <1>3, <2>1, <2>3, <2>4
<1>. QED  BY <1>5, <1>6

-----------------------------------------------------------------------------
(* What the session keeps *)

\* Everything the session keeps is a text or an offset.
TextInv ==
    /\ message \in Text /\ received \in Nat
    /\ cumulativeText \in Text /\ sentIndex \in Nat
    /\ prefixes \in Seq(Text) /\ sandwich \in Text
    /\ firstEnd.text \in Text

\* Nothing has come in.
LEMMA TextInvInit == TextInit => TextInv
<1>. SUFFICES ASSUME TextInit PROVE TextInv
  OBVIOUS
<1>1. PICK m \in Messages : message = [i \in DOMAIN m |-> [c |-> m[i], at |-> i]]
  BY DEF TextInit
<1>2. m \in Seq(Classes)
  BY <1>1, StreamedConstants
<1>3. DOMAIN m = 1 .. Len(m) /\ Len(m) \in Nat /\ \A i \in 1 .. Len(m) : [c |-> m[i], at |-> i] \in Char
  BY <1>2 DEF Char
<1>4. message \in Text
  BY <1>1, <1>3 DEF Text
<1>5. <<>> \in Text /\ <<>> \in Seq(Text)
  BY DEF Text
<1>. QED  BY <1>4, <1>5 DEF TextInit, RepairInit, NoEnd, TextInv

\* The cursor advances by an offset.
LEMMA OffsetOfLastTyped ==
    ASSUME NEW unsent \in Text, NEW chunks
    PROVE  OffsetOfLast(unsent, chunks) \in Nat
<1>. DEFINE kept == Stripped(Last(chunks))
            places == {i \in 0 .. Len(unsent) : StartsWith(Rest(unsent, i), kept)}
<1>1. Len(unsent) \in Nat /\ places \in SUBSET Nat /\ \A x \in places : x <= Len(unsent)
  BY DEF Text
<1>2. OffsetOfLast(unsent, chunks) = IF Len(chunks) <= 1 \/ kept = <<>> \/ places = {} THEN 0 ELSE Max(places)
  BY DEF OffsetOfLast
<1>. HIDE DEF places, kept
<1>3. places # {} => Max(places) \in Nat
  BY <1>1, Greatest
<1>. QED  BY <1>2, <1>3

\* What is not sent yet is a text.
LEMMA UnsentTyped == TextInv => Unsent \in Text
BY RestTyped DEF TextInv, Unsent, Text

\* Each step of the session keeps texts texts.
LEMMA TextInvNext == TextInv /\ [TextNext]_textVars => TextInv'
<1>. SUFFICES ASSUME TextInv, [TextNext]_textVars PROVE TextInv'
  OBVIOUS
<1>. USE DEF TextInv
<1>1. ASSUME NEW n \in 1 .. Len(message), Update(n) PROVE TextInv'
  <2>1. received + n \in Nat /\ received + n <= Len(message)
    BY <1>1 DEF Update, Text
  <2>2. SubSeq(message, 1, received + n) \in Text
    BY <2>1 DEF Text
  <2>3. Applied(SubSeq(message, 1, received + n)) \in Text
    BY <2>2, AppliedKeeps DEF Alike
  <2>. QED  BY <1>1, <2>1, <2>3 DEF Update, SetText, repairVars
<1>2. CASE MarkReasoningBoundary
  <2>1. CASE FirstReasoningEnd(cumulativeText) /\ UNCHANGED <<cumulativeText, rewritten, due>>
    <3>1. Append(prefixes, cumulativeText) \in Seq(Text)
      OBVIOUS
    <3>. QED  BY <1>2, <2>1, <3>1 DEF MarkReasoningBoundary, FirstReasoningEnd
  <2>2. ASSUME NEW text \in {Sandwiched(firstEnd.text, cumulativeText).text},
               SecondReasoningEnd(cumulativeText, text), SetText(text)
        PROVE  TextInv'
    <3>1. text \in Text /\ Sandwiched(firstEnd.text, cumulativeText).broken \in Text
      BY SandwichedKeeps DEF Alike
    <3>2. Append(prefixes, text) \in Seq(Text) /\ <<>> \in Text
      BY <3>1 DEF Text
    <3>3. cumulativeText' = text /\ firstEnd' = NoEnd
      BY <2>2 DEF SetText, SecondReasoningEnd
    <3>4. sandwich' \in Text /\ prefixes' \in Seq(Text)
      BY <2>2, <3>1, <3>2 DEF SecondReasoningEnd
    <3>. QED  BY <1>2, <3>1, <3>2, <3>3, <3>4 DEF MarkReasoningBoundary, NoEnd
  <2>. QED  BY <1>2, <2>1, <2>2 DEF MarkReasoningBoundary
<1>3. CASE Drain
  <2>1. OffsetOfLast(Unsent, RawChunks(Unsent)) \in Nat
    BY UnsentTyped, OffsetOfLastTyped
  <2>2. sentIndex' \in Nat
    BY <1>3, <2>1 DEF Drain, Stream
  <2>. QED  BY <1>3, <2>2 DEF Drain, Unread, repairVars
<1>4. ASSUME SendRest, UNCHANGED Unread PROVE TextInv'
  <2>1. sentIndex' \in Nat
    BY <1>4 DEF SendRest, Text
  <2>. QED  BY <1>4, <2>1 DEF Unread, repairVars
<1>5. CASE FlushNow
  BY <1>4, <1>5 DEF FlushNow
<1>6. CASE Finalize
  BY <1>4, <1>6 DEF Finalize
<1>7. CASE UNCHANGED textVars
  BY <1>7 DEF textVars, sessionVars, repairVars
<1>. QED  BY <1>1, <1>2, <1>3, <1>5, <1>6, <1>7 DEF TextNext

\* So the lemma about the chunker holds of what is not sent yet.
LEMMA BlocksKeptNow == TextInv => BlocksKept
<1>. SUFFICES ASSUME TextInv, chunker = "host", AtomicBlocks(Unsent) # {}, Len(RawChunks(Unsent)) > 1
              PROVE  BlocksKept
  BY DEF BlocksKept
<1>1. Unsent \in Text
  BY UnsentTyped
<1>2. HostChunks(Unsent) \in Seq(Text)
  BY <1>1, HostChunksTyped
<1>3. RawChunks(Unsent) = ChunkAware(Unsent, HostChunks(Unsent))
  BY DEF RawChunks
<1>. QED  BY <1>1, <1>2, <1>3, ChunkAwareKeeps DEF BlocksKept

-----------------------------------------------------------------------------
(* Everything is sent, and nothing twice *)

\* What has come in is the message up to received, but for line breaks and fences.
Come ==
    /\ received <= Len(message) /\ \A i \in DOMAIN message : message[i].at = i
    /\ Bare(cumulativeText) = Bare(SubSeq(message, 1, received))

\* Unless a repair has changed text that was sent, the cursor is within the text,
Within == ~rewritten => sentIndex <= Len(cumulativeText)

\* all that can be read before it was sent,
ToldSoFar ==
    ~rewritten /\ ~torn =>
        \A i \in Readable(cumulativeText) : i <= sentIndex => cumulativeText[i].at \in Told(sent)

\* and nothing else, and nothing twice.
OnceSoFar ==
    ~rewritten /\ ~stuck => Once(sent, Ats(Slice(cumulativeText, 0, sentIndex)))

\* In the end nothing is missing.
AllTold == finalized /\ ~rewritten /\ ~torn => NothingMissing

\* The inductive invariant: what the client has been given up to now, and the
\* text it stems from, so that the steps which move the cursor leave no gap.
SentInv ==
    TextInv /\ sent \in Seq(Text) /\ Come /\ Within /\ ToldSoFar /\ OnceSoFar /\ AllTold

\* A beginning of a text is a slice of it.
LEMMA BeginningIs ==
    ASSUME NEW text \in Text, NEW n \in Nat, n <= Len(text)
    PROVE  /\ SubSeq(text, 1, n) = Slice(text, 0, n) /\ SubSeq(text, 1, n) \in Text
           /\ Bare(text) = Bare(SubSeq(text, 1, n)) \o Bare(Slice(text, n, Len(text)))
<1>1. Len(text) \in Nat /\ 0 + 1 = 1 /\ n \in Int /\ Len(text) \in Int
  BY DEF Text
<1>2. Min({n, Len(text)}) = n
  BY <1>1, MinOfTwo
<1>3. SubSeq(text, 1, n) = Slice(text, 0, n)
  BY <1>1, <1>2 DEF Slice
<1>4. PICK z \in Nat : z = 0 /\ z <= n
  OBVIOUS
<1>5. PICK c \in Nat : c = Len(text) /\ n <= c /\ c <= Len(text)
  BY <1>1
<1>6. Bare(Slice(text, z, c)) = Bare(Slice(text, z, n)) \o Bare(Slice(text, n, c))
  BY <1>4, <1>5, BareSlices
<1>7. Slice(text, 0, n) \in Text
  BY <1>4, SliceTyped DEF Text
<1>. QED  BY <1>3, <1>4, <1>5, <1>6, <1>7, WholeSlice

\* The text holds a beginning of the message, each character once.
Begun ==
    /\ Distinct(Bare(cumulativeText))
    /\ \E u \in Seq(Nat) : Bare(cumulativeText) \o u = Bare(message)

\* No character has come in twice.
LEMMA ComeDistinct == TextInv /\ Come => Begun
<1>. SUFFICES ASSUME TextInv, Come PROVE Begun
  OBVIOUS
<1>1. message \in Text /\ received \in Nat /\ received <= Len(message)
  BY DEF TextInv, Come
<1>2. Distinct(Bare(message))
  <2>1. \A i \in 1 .. Len(message) : message[i].at = i
    BY <1>1 DEF Come, Text
  <2>. QED  BY <1>1, <2>1, MessageDistinct
<1>. DEFINE a == SubSeq(message, 1, received)
            b == Slice(message, received, Len(message))
<1>3. a \in Text /\ Bare(message) = Bare(a) \o Bare(b) /\ b \in Text
  <2>1. Len(message) \in Nat
    BY <1>1 DEF Text
  <2>. QED  BY <1>1, <2>1, BeginningIs, SliceTyped DEF Text
<1>. HIDE DEF a, b
<1>4. Bare(a) \in Seq(Nat) /\ Bare(b) \in Seq(Nat)
  BY <1>3, BareGrows
<1>5. Distinct(Bare(a))
  BY <1>2, <1>3, <1>4, PartsApart
<1>6. Bare(cumulativeText) = Bare(a)
  BY DEF Come, a
<1>. QED  BY <1>3, <1>4, <1>5, <1>6 DEF Begun

\* Nor will one have come in twice after the next step.
LEMMA ComeDistinctNext == TextInv' /\ Come' => Begun'
BY ComeDistinct, PTL

\* The text is set anew.
LEMMA SetTextSent ==
    ASSUME SentInv, NEW text \in Text, SetText(text), TextInv', Come', ~finalized,
           UNCHANGED <<message, sentIndex, sent, stuck, torn, finalized>>
    PROVE  SentInv'
<1>1. /\ cumulativeText \in Text /\ sentIndex \in Nat /\ TextInv /\ Come
      /\ cumulativeText' = text /\ sentIndex' = sentIndex /\ sent' = sent /\ message' = message
      /\ stuck' = stuck /\ torn' = torn /\ ~finalized'
  BY DEF SentInv, TextInv, SetText
<1>2. ASSUME ~rewritten'
      PROVE  /\ ~rewritten /\ sentIndex <= Len(cumulativeText) /\ sentIndex <= Len(text)
             /\ \A i \in 1 .. sentIndex : text[i].c = cumulativeText[i].c
  <2>. DEFINE part == Slice(cumulativeText, 0, sentIndex)
  <2>1. ~rewritten /\ StartsWith(text, part)
    BY <1>2 DEF SetText, Rewrites
  <2>2. sentIndex <= Len(cumulativeText)
    BY <2>1 DEF SentInv, Within
  <2>3. part \in Text /\ Len(part) = sentIndex /\ \A i \in 1 .. sentIndex : part[i] = cumulativeText[i]
    <3>1. 0 \in Nat /\ 0 <= sentIndex /\ sentIndex - 0 = sentIndex
      BY <1>1
    <3>2. /\ part \in Text /\ Len(part) = sentIndex - 0
          /\ \A i \in 1 .. sentIndex - 0 : part[i] = cumulativeText[0 + i]
      BY <1>1, <2>2, <3>1, SliceIs
    <3>3. \A i \in 1 .. sentIndex : 0 + i = i
      BY <1>1
    <3>. QED  BY <3>1, <3>2, <3>3
  <2>. HIDE DEF part
  <2>4. Len(part) <= Len(text) /\ \A i \in 1 .. Len(part) : text[i].c = part[i].c
    BY <2>1, <2>3, StartsWithIs
  <2>. QED  BY <2>1, <2>2, <2>3, <2>4
<1>3. ASSUME ~rewritten'
      PROVE  /\ Ats(Slice(text, 0, sentIndex)) = Ats(Slice(cumulativeText, 0, sentIndex))
             /\ \A i \in Readable(text) : i <= sentIndex =>
                    i \in Readable(cumulativeText) /\ text[i].at = cumulativeText[i].at
  <2>1. PICK u \in Seq(Nat) : Bare(cumulativeText) \o u = Bare(message)
    BY <1>1, ComeDistinct DEF Begun
  <2>2. PICK v \in Seq(Nat) : Bare(text) \o v = Bare(message)
    <3>1. Begun'
      BY ComeDistinctNext
    <3>. QED  BY <1>1, <3>1 DEF Begun
  <2>3. Bare(cumulativeText) \o u = Bare(text) \o v
    BY <2>1, <2>2
  <2>. QED  BY <1>1, <1>2, <1>3, <2>3, CommonPart
<1>4. Within'
  BY <1>1, <1>2 DEF Within
<1>5. ToldSoFar'
  <2>. SUFFICES ASSUME ~rewritten', ~torn', NEW i \in Readable(text), i <= sentIndex
                PROVE  text[i].at \in Told(sent)
    BY <1>1 DEF ToldSoFar
  <2>1. i \in Readable(cumulativeText) /\ text[i].at = cumulativeText[i].at /\ ~rewritten /\ ~torn
    BY <1>1, <1>2, <1>3
  <2>. QED  BY <2>1 DEF SentInv, ToldSoFar
<1>6. OnceSoFar'
  <2>. SUFFICES ASSUME ~rewritten', ~stuck' PROVE Once(sent, Ats(Slice(text, 0, sentIndex)))
    BY <1>1 DEF OnceSoFar
  <2>1. ~rewritten /\ ~stuck
    BY <1>1, <1>2
  <2>2. Once(sent, Ats(Slice(cumulativeText, 0, sentIndex)))
    BY <2>1 DEF SentInv, OnceSoFar
  <2>. QED  BY <1>3, <2>2
<1>7. AllTold'
  BY <1>1 DEF AllTold
<1>8. sent' \in Seq(Text)
  BY <1>1 DEF SentInv
<1>. QED  BY <1>4, <1>5, <1>6, <1>7, <1>8 DEF SentInv

\* The first n chunks of a delivery are sent.
LEMMA DeliverySends ==
    ASSUME NEW text \in Text, NEW raw, NEW end, Cutting(text, raw, end),
           NEW initial \in Text, IsMark(initial), sent \in Seq(Text),
           NEW n \in 0 .. Len(raw), Sends(SubSeq(Repaired(raw, initial), 1, n))
    PROVE  LET all == Ats(Slice(text, 0, end[n])) IN
           /\ sent' \in Seq(Text)
           /\ Told(sent) \cup all \subseteq Told(sent')
           /\ \A ats : Once(sent, ats) /\ ats \cap Ats(text) = {} /\ Distinct(Bare(text))
                         => Once(sent', ats \cup all)
<1>. DEFINE texts == [i \in 1 .. Len(raw) |-> Between(text, end, i)]
            delivery == Repaired(raw, initial)
            chunks == SubSeq(delivery, 1, n)
<1>1. Reaches(text, raw, end) /\ raw \in Seq(Text) /\ Len(raw) \in Nat
  BY DEF Cutting, Reaches
<1>2. \A i \in 1 .. Len(raw) : texts[i] \in Text /\ Dressed(raw[i], texts[i])
  BY <1>1, BetweenTyped DEF Cutting
<1>3. /\ delivery \in Seq(Text) /\ Len(delivery) = Len(raw)
      /\ \A i \in 1 .. Len(raw) : Dressed(delivery[i], texts[i])
  <2>. HIDE DEF texts
  <2>. QED  BY <1>1, <1>2, RepairedDressed
<1>. HIDE DEF delivery
<1>4. chunks \in Seq(Text) /\ Len(chunks) = n /\ n \in Nat /\ \A i \in 1 .. n : chunks[i] = delivery[i]
  BY <1>1, <1>3
<1>5. Sends(chunks)
  BY DEF delivery
<1>. HIDE DEF chunks
<1>6. end[0] = 0
  BY <1>1 DEF Reaches
<1>7. ASSUME NEW i \in 1 .. Len(chunks)
      PROVE  /\ end[i - 1] \in Nat /\ end[i] \in Nat /\ end[i - 1] <= end[i] /\ end[i] <= Len(text)
             /\ Dressed(chunks[i], Between(text, end, i))
  <2>1. i \in 1 .. Len(raw) /\ i \in 1 .. n
    BY <1>1, <1>4
  <2>. QED  BY <1>1, <1>3, <1>4, <2>1, BetweenTyped
<1>8. LET all == Ats(Slice(text, 0, end[Len(chunks)])) IN
      /\ sent' \in Seq(Text)
      /\ Told(sent) \cup all \subseteq Told(sent')
      /\ \A ats : Once(sent, ats) /\ ats \cap Ats(text) = {} /\ Distinct(Bare(text))
                    => Once(sent', ats \cup all)
  BY <1>4, <1>5, <1>6, <1>7, SendAll
<1>. QED  BY <1>4, <1>8

\* What is not sent yet, as long as no repair has changed what was sent.
LEMMA UnsentIs ==
    ASSUME SentInv, ~rewritten
    PROVE  /\ cumulativeText \in Text /\ sentIndex \in Nat /\ sentIndex <= Len(cumulativeText)
           /\ Unsent \in Text /\ Len(Unsent) = Len(cumulativeText) - sentIndex
           /\ \A i \in 1 .. Len(Unsent) : Unsent[i] = cumulativeText[sentIndex + i]
           /\ Distinct(Bare(Unsent)) /\ Ats(Slice(cumulativeText, 0, sentIndex)) \cap Ats(Unsent) = {}
           /\ \A a \in 0 .. Len(Unsent), b \in 0 .. Len(Unsent) : a <= b =>
                Ats(Slice(cumulativeText, 0, sentIndex)) \cup Ats(Slice(Unsent, 0, a))
                  \subseteq Ats(Slice(cumulativeText, 0, sentIndex + b))
<1>. DEFINE C == cumulativeText
            s == sentIndex
            U == Unsent
<1>1. C \in Text /\ s \in Nat /\ s <= Len(C) /\ Len(C) \in Nat /\ TextInv /\ Come
  BY DEF SentInv, TextInv, Within, Text
<1>2. PICK z \in Nat : z = 0 /\ z <= s
  BY <1>1
<1>3. PICK c \in Nat : c = Len(C) /\ s <= c /\ c <= Len(C)
  BY <1>1
<1>4. U = Slice(C, s, c) /\ C = Slice(C, z, c)
  BY <1>1, <1>2, <1>3, WholeSlice DEF Unsent
<1>5. U \in Text /\ Len(U) = c - s /\ \A i \in 1 .. c - s : U[i] = C[s + i]
  BY <1>1, <1>3, <1>4, SliceIs
<1>6. Distinct(Bare(C))
  BY <1>1, ComeDistinct DEF Begun
<1>7. Distinct(Bare(U)) /\ Ats(Slice(C, z, s)) \cap Ats(U) = {}
  BY <1>1, <1>2, <1>3, <1>4, <1>6, AtsSlices
<1>8. ASSUME NEW a \in 0 .. Len(U), NEW b \in 0 .. Len(U), a <= b
      PROVE  Ats(Slice(C, z, s)) \cup Ats(Slice(U, 0, a)) \subseteq Ats(Slice(C, z, s + b))
  <2>1. /\ a \in Nat /\ b \in Nat /\ s + a \in Nat /\ s + b \in Nat /\ s <= s + a /\ s + a <= s + b
        /\ s + b <= Len(C) /\ s + a <= Len(C) /\ z <= s + a /\ z <= a /\ s + z = s
    <3>. HIDE DEF C, s, U
    <3>. QED  BY <1>1, <1>2, <1>3, <1>5, <1>8
  <2>2. Slice(U, 0, a) = Slice(C, s, s + a)
    <3>1. Slice(Rest(C, s), z, a) = Slice(C, s + z, s + a)
      BY <1>1, <2>1, SliceOfRest
    <3>. QED  BY <1>2, <2>1, <3>1 DEF Unsent
  <2>. HIDE DEF C, s, U
  <2>3. Ats(Slice(C, z, s + a)) = Ats(Slice(C, z, s)) \cup Ats(Slice(C, s, s + a))
    BY <1>1, <1>2, <2>1, AtsSlices
  <2>4. Ats(Slice(C, z, s + b)) = Ats(Slice(C, z, s + a)) \cup Ats(Slice(C, s + a, s + b))
    BY <1>1, <1>2, <2>1, AtsSlices
  <2>. QED  BY <2>2, <2>3, <2>4
<1>. QED  BY <1>1, <1>2, <1>3, <1>5, <1>7, <1>8

\* A character that can be read behind the cursor is one of those not sent yet.
LEMMA ReadableUnsent ==
    ASSUME SentInv, ~rewritten, NEW i \in Readable(cumulativeText), ~(i <= sentIndex)
    PROVE  /\ i - sentIndex \in 1 .. Len(Unsent) /\ sentIndex + (i - sentIndex) = i
           /\ IsBare(Unsent[i - sentIndex]) /\ Unsent[i - sentIndex].at = cumulativeText[i].at
<1>1. /\ cumulativeText \in Text /\ sentIndex \in Nat /\ sentIndex <= Len(cumulativeText)
      /\ Len(Unsent) = Len(cumulativeText) - sentIndex
      /\ \A k \in 1 .. Len(Unsent) : Unsent[k] = cumulativeText[sentIndex + k]
  BY UnsentIs
<1>2. i \in 1 .. Len(cumulativeText) /\ IsBare(cumulativeText[i]) /\ Len(cumulativeText) \in Nat
  BY <1>1 DEF Readable, IsBare, Text
<1>3. i - sentIndex \in 1 .. Len(Unsent) /\ sentIndex + (i - sentIndex) = i
  BY <1>1, <1>2
<1>. QED  BY <1>1, <1>2, <1>3

\* Where the text is cut, a bare character before the cut is among those of the beginning.
LEMMA AtsBefore ==
    ASSUME NEW text \in Text, NEW a \in 0 .. Len(text), NEW j \in 1 .. a, IsBare(text[j])
    PROVE  text[j].at \in Ats(Slice(text, 0, a))
<1>1. PICK z \in Nat : z = 0 /\ z <= a /\ a \in Nat /\ a <= Len(text) /\ a - z = a
  BY DEF Text
<1>2. /\ Slice(text, z, a) \in Text /\ Len(Slice(text, z, a)) = a - z
      /\ \A i \in 1 .. a - z : Slice(text, z, a)[i] = text[z + i]
  BY <1>1, SliceIs
<1>3. j \in 1 .. Len(Slice(text, z, a)) /\ Slice(text, z, a)[j] = text[j]
  <2>1. z + j = j
    BY <1>1
  <2>. QED  BY <1>1, <1>2, <2>1
<1>. QED  BY <1>1, <1>2, <1>3, AtsOf

\* The fence that is open at the cursor.
LEMMA CursorMark ==
    ASSUME TextInv
    PROVE  FenceAtCursor \in Text /\ IsMark(FenceAtCursor)
<1>1. Slice(cumulativeText, 0, sentIndex) \in Text
  BY SliceTyped DEF TextInv, Text
<1>. QED  BY <1>1, FenceAtIsMark DEF FenceAtCursor

\* Texts that a reader finds once each are so among more.
LEMMA OnceAmongMore ==
    ASSUME NEW texts, NEW ats, NEW more, Once(texts, ats), ats \subseteq more
    PROVE  Once(texts, more)
BY DEF Once

\* A drain sends what lies before the last chunk.
LEMMA StreamSent ==
    ASSUME SentInv, Stream, UNCHANGED <<cumulativeText, rewritten>>
    PROVE  sent' \in Seq(Text) /\ Within' /\ ToldSoFar' /\ OnceSoFar'
<1>. DEFINE raw == RawChunks(Unsent)
            n == Len(raw)
            off == OffsetOfLast(Unsent, raw)
            C == cumulativeText
            s == sentIndex
<1>1. TextInv /\ sent \in Seq(Text) /\ Unsent \in Text
  BY UnsentTyped DEF SentInv
<1>2. CASE ~(Streamable /\ n > 1)
  <2>1. UNCHANGED <<sentIndex, sent, stuck, torn, cumulativeText, rewritten>>
    BY <1>2 DEF Stream
  <2>. QED  BY <2>1 DEF SentInv, Within, ToldSoFar, OnceSoFar
<1>3. CASE Streamable /\ n > 1
  <2>1. /\ sentIndex' = sentIndex + off
        /\ Sends(Front(Delivery(raw)))
        /\ stuck' = (stuck \/ sentIndex' = sentIndex)
        /\ torn' = (torn \/ BeginsTorn(Last(raw)))
    BY <1>3 DEF Stream
  <2>2. PICK end : Cutting(Unsent, raw, end)
    BY <1>1, RawCutting
  <2>. HIDE DEF raw, off
  <2>3. raw \in Seq(Text) /\ n \in Nat /\ n - 1 \in 0 .. n /\ n > 1
    <3>1. raw \in Seq(Text)
      BY <2>2 DEF Cutting, Reaches
    <3>. QED  BY <1>3, <3>1
  <2>. DEFINE a == end[n - 1]
  <2>4. /\ a \in 0 .. Len(Unsent) /\ off \in 0 .. Len(Unsent)
        /\ off # 0 =>
             /\ a <= off
             /\ \A j \in a + 1 .. off : IsBare(Unsent[j]) =>
                  /\ Unsent[a + 1].c \in Fences /\ \A k \in a + 1 .. j - 1 : Unsent[k].c # NL
                  /\ Last(raw) = Slice(Unsent, a, Len(Unsent))
    BY <1>1, <2>2, <2>3, CursorLands DEF off
  <2>5. /\ sent' \in Seq(Text)
        /\ Told(sent) \cup Ats(Slice(Unsent, 0, a)) \subseteq Told(sent')
        /\ \A ats : Once(sent, ats) /\ ats \cap Ats(Unsent) = {} /\ Distinct(Bare(Unsent))
                      => Once(sent', ats \cup Ats(Slice(Unsent, 0, a)))
    <3>. DEFINE initial == FenceAtCursor
    <3>1. initial \in Text /\ IsMark(initial)
      BY <1>1, CursorMark
    <3>2. Len(Repaired(raw, initial)) = n
      <4>. DEFINE texts == [i \in 1 .. Len(raw) |-> Between(Unsent, end, i)]
      <4>1. \A i \in 1 .. Len(raw) : texts[i] \in Text /\ Dressed(raw[i], texts[i])
        BY <1>1, <2>2, BetweenTyped DEF Cutting
      <4>. HIDE DEF texts
      <4>. QED  BY <2>3, <3>1, <4>1, RepairedDressed
    <3>3. Sends(SubSeq(Repaired(raw, initial), 1, n - 1))
      <4>. HIDE DEF n
      <4>. QED  BY <2>1, <3>2 DEF Delivery, Front
    <3>. HIDE DEF initial
    <3>. QED  BY <1>1, <2>2, <2>3, <3>1, <3>3, DeliverySends
  <2>. HIDE DEF a, n
  <2>6. Within'
    <3>. SUFFICES ASSUME ~rewritten PROVE s + off <= Len(C)
      BY <2>1 DEF Within
    <3>1. C \in Text /\ s \in Nat /\ s <= Len(C) /\ Len(Unsent) = Len(C) - s
      BY UnsentIs
    <3>2. Len(C) \in Nat
      BY <3>1 DEF Text
    <3>. HIDE DEF C, s
    <3>. QED  BY <2>4, <3>1, <3>2
  <2>7. ToldSoFar'
    <3>. SUFFICES ASSUME ~rewritten, ~torn, ~BeginsTorn(Last(raw)), NEW i \in Readable(C), i <= s + off
                  PROVE  C[i].at \in Told(sent')
      BY <2>1 DEF ToldSoFar
    <3>1. CASE i <= s
      BY <2>5, <3>1 DEF SentInv, ToldSoFar
    <3>2. CASE ~(i <= s)
      <4>. DEFINE j == i - s
      <4>1. /\ j \in 1 .. Len(Unsent) /\ s + j = i
            /\ IsBare(Unsent[j]) /\ Unsent[j].at = C[i].at
        BY <3>2, ReadableUnsent
      <4>2. /\ C \in Text /\ s \in Nat /\ s <= Len(C) /\ Len(Unsent) = Len(C) - s
            /\ \A k \in 1 .. Len(Unsent) : Unsent[k] = C[s + k]
        BY UnsentIs
      <4>3. /\ i \in 1 .. Len(C) /\ Len(C) \in Nat
            /\ \A f \in FenceLines(C) : i \notin f .. LineEnd(C, f)
        BY <4>2 DEF Readable, Text
      <4>. HIDE DEF j, C, s
      <4>4. j <= a
        <5>. SUFFICES ASSUME ~(j <= a) PROVE FALSE
          OBVIOUS
        <5>1. /\ j \in a + 1 .. off /\ off # 0 /\ a \in Nat /\ a + 1 \in 1 .. Len(Unsent)
              /\ s + (a + 1) \in 1 .. Len(C) /\ s + (a + 1) \in Nat /\ s + (a + 1) <= i
          BY <2>4, <4>1, <4>2, <4>3
        <5>2. /\ Unsent[a + 1].c \in Fences /\ \A k \in a + 1 .. j - 1 : Unsent[k].c # NL
              /\ Last(raw) = Slice(Unsent, a, Len(Unsent))
          BY <2>4, <4>1, <5>1
        <5>. DEFINE f == s + (a + 1)
        <5>3. C[f] = Unsent[a + 1]
          BY <4>2, <5>1
        <5>4. Last(raw) # <<>> /\ Head(Last(raw)) = Unsent[a + 1]
          <6>1. a <= Len(Unsent) /\ Len(Unsent) \in Nat /\ Len(Unsent) <= Len(Unsent)
            BY <2>4, <4>2, <4>3
          <6>2. /\ Last(raw) \in Text /\ Len(Last(raw)) = Len(Unsent) - a
                /\ \A k \in 1 .. Len(Unsent) - a : Last(raw)[k] = Unsent[a + k]
            <7>1. PICK c \in Nat : c = Len(Unsent) /\ a <= c /\ c <= Len(Unsent)
              BY <6>1
            <7>2. /\ Slice(Unsent, a, c) \in Text /\ Len(Slice(Unsent, a, c)) = c - a
                  /\ \A k \in 1 .. c - a : Slice(Unsent, a, c)[k] = Unsent[a + k]
              BY <1>1, <5>1, <7>1, SliceIs
            <7>. QED  BY <5>2, <7>1, <7>2
          <6>3. 1 \in 1 .. Len(Unsent) - a
            BY <5>1, <6>1
          <6>. QED  BY <6>2, <6>3 DEF Text
        <5>. HIDE DEF f
        <5>5. f \in LineStarts(C)
          <6>1. f \in DOMAIN C
            BY <4>2, <5>1 DEF Text, f
          <6>. QED  BY <5>2, <5>3, <5>4, <6>1 DEF BeginsTorn, C
        <5>6. f \in FenceLines(C) /\ f \in 1 .. Len(C)
          BY <5>1, <5>2, <5>3, <5>5 DEF FenceLines, f
        <5>. DEFINE e == LineEnd(C, f)
        <5>7. e \in f .. Len(C) /\ (e < Len(C) => C[e].c = NL)
          BY <4>2, <5>6, LineEndIs
        <5>8. i \notin f .. e
          BY <4>3, <5>6
        <5>. HIDE DEF e
        <5>9. e < i /\ e < Len(C)
          BY <4>3, <5>1, <5>6, <5>7, <5>8 DEF f
        <5>10. e - s \in a + 1 .. j - 1 /\ s + (e - s) = e /\ e - s \in 1 .. Len(Unsent)
          BY <2>4, <4>1, <4>2, <4>3, <5>1, <5>7, <5>9 DEF f
        <5>11. Unsent[e - s].c # NL /\ Unsent[e - s] = C[e]
          BY <4>2, <5>2, <5>10
        <5>. QED  BY <5>7, <5>9, <5>11
      <4>5. j \in 1 .. a
        BY <2>4, <4>1, <4>4
      <4>6. Unsent[j].at \in Ats(Slice(Unsent, 0, a))
        BY <1>1, <2>4, <4>1, <4>5, AtsBefore
      <4>. QED  BY <2>5, <4>1, <4>6
    <3>. QED  BY <3>1, <3>2
  <2>8. OnceSoFar'
    <3>. SUFFICES ASSUME ~rewritten, ~stuck, s + off # s
                  PROVE  Once(sent', Ats(Slice(C, 0, s + off)))
      BY <2>1 DEF OnceSoFar
    <3>. DEFINE old == Ats(Slice(C, 0, s))
                part == Ats(Slice(Unsent, 0, a))
    <3>1. Once(sent, old)
      BY DEF SentInv, OnceSoFar
    <3>2. /\ Distinct(Bare(Unsent)) /\ old \cap Ats(Unsent) = {} /\ s \in Nat
          /\ \A x \in 0 .. Len(Unsent), y \in 0 .. Len(Unsent) : x <= y =>
               old \cup Ats(Slice(Unsent, 0, x)) \subseteq Ats(Slice(C, 0, s + y))
      BY UnsentIs
    <3>3. off # 0
      BY <3>2
    <3>4. old \cup part \subseteq Ats(Slice(C, 0, s + off))
      BY <2>4, <3>2, <3>3
    <3>. HIDE DEF old, part
    <3>5. Once(sent', old \cup part)
      BY <2>5, <3>1, <3>2 DEF part
    <3>. QED  BY <3>4, <3>5, OnceAmongMore
  <2>. QED  BY <2>5, <2>6, <2>7, <2>8
<1>. QED  BY <1>2, <1>3

\* A flush sends all that is left.
LEMMA SendRestSent ==
    ASSUME SentInv, SendRest, UNCHANGED <<cumulativeText, rewritten>>
    PROVE  /\ sent' \in Seq(Text) /\ Within' /\ ToldSoFar' /\ OnceSoFar'
           /\ ~rewritten /\ ~torn => \A i \in Readable(cumulativeText) : cumulativeText[i].at \in Told(sent')
<1>. DEFINE C == cumulativeText
            s == sentIndex
            All == ~rewritten /\ ~torn => \A i \in Readable(C) : C[i].at \in Told(sent')
<1>1. TextInv /\ sent \in Seq(Text) /\ Unsent \in Text /\ stuck' = stuck /\ torn' = torn
  BY UnsentTyped DEF SentInv, SendRest
<1>2. CASE IsBlank(Unsent)
  <2>1. UNCHANGED <<sentIndex, sent, stuck, torn, cumulativeText, rewritten>>
    BY <1>2 DEF SendRest
  <2>2. All
    <3>. SUFFICES ASSUME ~rewritten, ~torn, NEW i \in Readable(C) PROVE C[i].at \in Told(sent)
      BY <2>1
    <3>1. CASE i <= s
      BY <3>1 DEF SentInv, ToldSoFar
    <3>2. CASE ~(i <= s)
      <4>1. i - s \in 1 .. Len(Unsent) /\ IsBare(Unsent[i - s])
        BY <3>2, ReadableUnsent
      <4>2. i - s \in DOMAIN Unsent
        BY <1>1, <4>1 DEF Text
      <4>. QED  BY <1>2, <4>1, <4>2 DEF IsBlank, IsBare
    <3>. QED  BY <3>1, <3>2
  <2>. QED  BY <2>1, <2>2 DEF SentInv, Within, ToldSoFar, OnceSoFar
<1>3. CASE ~IsBlank(Unsent)
  <2>. DEFINE raw == RawChunks(Unsent)
              n == Len(raw)
              initial == FenceAtCursor
  <2>1. sentIndex' = Len(C) /\ Sends(Repaired(raw, initial))
    BY <1>3 DEF SendRest, Delivery
  <2>2. PICK end : Cutting(Unsent, raw, end)
    BY <1>1, RawCutting
  <2>. HIDE DEF raw
  <2>3. raw \in Seq(Text) /\ n \in Nat /\ n \in 0 .. n /\ end[n] = Len(Unsent)
    <3>1. raw \in Seq(Text) /\ end[n] = Len(Unsent)
      BY <2>2 DEF Cutting, Reaches
    <3>. QED  BY <3>1
  <2>4. initial \in Text /\ IsMark(initial)
    BY <1>1, CursorMark
  <2>. HIDE DEF initial
  <2>5. Sends(SubSeq(Repaired(raw, initial), 1, n))
    <3>. DEFINE texts == [i \in 1 .. Len(raw) |-> Between(Unsent, end, i)]
    <3>1. \A i \in 1 .. Len(raw) : texts[i] \in Text /\ Dressed(raw[i], texts[i])
      BY <1>1, <2>2, BetweenTyped DEF Cutting
    <3>. HIDE DEF texts
    <3>2. Repaired(raw, initial) \in Seq(Text) /\ Len(Repaired(raw, initial)) = n
      BY <2>3, <2>4, <3>1, RepairedDressed
    <3>3. SubSeq(Repaired(raw, initial), 1, n) = Repaired(raw, initial)
      <4>. HIDE DEF n
      <4>. QED  BY <3>2, SubSeqGrows
    <3>. QED  BY <2>1, <3>3
  <2>6. /\ sent' \in Seq(Text)
        /\ Told(sent) \cup Ats(Unsent) \subseteq Told(sent')
        /\ \A ats : Once(sent, ats) /\ ats \cap Ats(Unsent) = {} /\ Distinct(Bare(Unsent))
                      => Once(sent', ats \cup Ats(Unsent))
    <3>1. Slice(Unsent, 0, end[n]) = Unsent
      BY <1>1, <2>3, WholeSlice
    <3>2. LET all == Ats(Slice(Unsent, 0, end[n])) IN
          /\ sent' \in Seq(Text)
          /\ Told(sent) \cup all \subseteq Told(sent')
          /\ \A ats : Once(sent, ats) /\ ats \cap Ats(Unsent) = {} /\ Distinct(Bare(Unsent))
                        => Once(sent', ats \cup all)
      BY <1>1, <2>2, <2>3, <2>4, <2>5, DeliverySends
    <3>. QED  BY <3>1, <3>2
  <2>7. Within'
    <3>1. Len(C) <= Len(C)
      BY <1>1 DEF TextInv, Text
    <3>. QED  BY <2>1, <3>1 DEF Within
  <2>8. All
    <3>. SUFFICES ASSUME ~rewritten, ~torn, NEW i \in Readable(C) PROVE C[i].at \in Told(sent')
      OBVIOUS
    <3>1. CASE i <= s
      BY <2>6, <3>1 DEF SentInv, ToldSoFar
    <3>2. CASE ~(i <= s)
      <4>1. /\ i - s \in 1 .. Len(Unsent) /\ IsBare(Unsent[i - s])
            /\ Unsent[i - s].at = C[i].at
        BY <3>2, ReadableUnsent
      <4>2. Unsent[i - s].at \in Ats(Unsent)
        BY <1>1, <4>1, AtsOf
      <4>. QED  BY <2>6, <4>1, <4>2
    <3>. QED  BY <3>1, <3>2
  <2>9. ToldSoFar'
    BY <1>1, <2>8 DEF ToldSoFar
  <2>10. OnceSoFar'
    <3>. SUFFICES ASSUME ~rewritten, ~stuck PROVE Once(sent', Ats(Slice(C, 0, Len(C))))
      BY <1>1, <2>1 DEF OnceSoFar
    <3>. DEFINE old == Ats(Slice(C, 0, s))
                b == Len(Unsent)
    <3>1. Once(sent, old)
      BY DEF SentInv, OnceSoFar
    <3>2. /\ Distinct(Bare(Unsent)) /\ old \cap Ats(Unsent) = {} /\ s \in Nat /\ s <= Len(C) /\ C \in Text
          /\ b = Len(C) - s
          /\ \A x \in 0 .. b, y \in 0 .. b : x <= y =>
               old \cup Ats(Slice(Unsent, 0, x)) \subseteq Ats(Slice(C, 0, s + y))
      BY UnsentIs
    <3>3. b \in 0 .. b /\ b <= b /\ s + b = Len(C)
      <4>1. Len(C) \in Nat
        BY <3>2 DEF Text
      <4>. HIDE DEF b, C, s
      <4>. QED  BY <3>2, <4>1
    <3>4. Slice(Unsent, 0, b) = Unsent
      BY <1>1, WholeSlice
    <3>5. old \cup Ats(Unsent) \subseteq Ats(Slice(C, 0, s + b))
      <4>. HIDE DEF old, b
      <4>. QED  BY <3>2, <3>3, <3>4
    <3>. HIDE DEF old, b
    <3>6. Once(sent', old \cup Ats(Unsent))
      BY <2>6, <3>1, <3>2
    <3>. QED  BY <3>3, <3>5, <3>6, OnceAmongMore
  <2>. QED  BY <2>6, <2>7, <2>8, <2>9, <2>10
<1>. QED  BY <1>2, <1>3

\* Nothing has come in, and nothing was sent.
LEMMA SentInvInit == TextInit => SentInv
<1>. SUFFICES ASSUME TextInit PROVE SentInv
  OBVIOUS
<1>1. TextInv
  BY TextInvInit
<1>2. PICK m \in Messages : message = [i \in DOMAIN m |-> [c |-> m[i], at |-> i]]
  BY DEF TextInit
<1>3. received = 0 /\ cumulativeText = <<>> /\ sentIndex = 0 /\ sent = <<>> /\ finalized = FALSE
  BY DEF TextInit
<1>4. \A i \in DOMAIN message : message[i].at = i
  BY <1>2
<1>5. Come
  <2>1. message \in Text /\ Len(message) \in Nat
    BY <1>1 DEF TextInv, Text
  <2>2. SubSeq(message, 1, 0) = <<>>
    BY <2>1, SubSeqGrows DEF Text
  <2>3. received <= Len(message)
    BY <1>3, <2>1
  <2>4. SubSeq(message, 1, received) = cumulativeText
    BY <1>3, <2>2
  <2>. QED  BY <1>4, <2>3, <2>4 DEF Come
<1>6. sent \in Seq(Text) /\ Within /\ AllTold
  BY <1>3 DEF Within, AllTold
<1>7. ToldSoFar
  BY <1>3 DEF ToldSoFar, Readable
<1>8. OnceSoFar
  BY <1>3 DEF OnceSoFar, Once
<1>. QED  BY <1>1, <1>5, <1>6, <1>7, <1>8 DEF SentInv

\* Each step of the session sends what it should.
LEMMA SentInvNext == SentInv /\ [TextNext]_textVars => SentInv'
<1>. SUFFICES ASSUME SentInv, [TextNext]_textVars PROVE SentInv'
  OBVIOUS
<1>0. TextInv /\ TextInv' /\ Come /\ sent \in Seq(Text)
  BY TextInvNext DEF SentInv
<1>1. ASSUME NEW n \in 1 .. Len(message), Update(n) PROVE SentInv'
  <2>. DEFINE now == SubSeq(message, 1, received + n)
  <2>1. /\ received + n \in Nat /\ received + n <= Len(message) /\ received' = received + n
        /\ SetText(Applied(now)) /\ ~finalized
        /\ UNCHANGED <<message, sentIndex, sent, stuck, torn, finalized>>
    BY <1>0, <1>1 DEF Update, TextInv, Text
  <2>2. now \in Text
    BY <1>0, <2>1, BeginningIs DEF TextInv
  <2>3. Applied(now) \in Text /\ Bare(Applied(now)) = Bare(now)
    BY <1>0, <2>2, AppliedKeeps DEF TextInv, Alike
  <2>4. Come'
    <3>1. cumulativeText' = Applied(now) /\ message' = message
      BY <2>1 DEF SetText
    <3>. QED  BY <1>0, <2>1, <2>3, <3>1 DEF Come
  <2>. HIDE DEF now
  <2>. QED  BY <1>0, <2>1, <2>3, <2>4, SetTextSent
<1>2. ASSUME UNCHANGED <<message, received, cumulativeText, sentIndex, sent, stuck, torn,
                         rewritten, finalized>>
      PROVE  SentInv'
  <2>1. Come'
    BY <1>0, <1>2 DEF Come
  <2>2. Within' /\ sent' \in Seq(Text)
    BY <1>2 DEF SentInv, Within
  <2>3. ToldSoFar'
    BY <1>2 DEF SentInv, ToldSoFar
  <2>4. OnceSoFar'
    BY <1>2 DEF SentInv, OnceSoFar
  <2>5. AllTold'
    <3>1. NothingMissing' <=> NothingMissing
      BY <1>2 DEF NothingMissing
    <3>2. (finalized' <=> finalized) /\ (rewritten' <=> rewritten) /\ (torn' <=> torn)
      BY <1>2
    <3>. QED  BY <3>1, <3>2 DEF SentInv, AllTold
  <2>. QED  BY <1>0, <2>1, <2>2, <2>3, <2>4, <2>5 DEF SentInv
<1>3. CASE MarkReasoningBoundary
  <2>1. CASE FirstReasoningEnd(cumulativeText) /\ UNCHANGED <<cumulativeText, rewritten, due>>
    BY <1>2, <1>3, <2>1 DEF MarkReasoningBoundary
  <2>2. ASSUME NEW text \in {Sandwiched(firstEnd.text, cumulativeText).text}, SetText(text)
        PROVE  SentInv'
    <3>1. text \in Text /\ Bare(text) = Bare(cumulativeText)
      BY <1>0, SandwichedKeeps DEF TextInv, Alike
    <3>2. /\ ~finalized /\ received' = received
          /\ UNCHANGED <<message, sentIndex, sent, stuck, torn, finalized>>
      BY <1>3 DEF MarkReasoningBoundary
    <3>3. Come'
      BY <1>0, <2>2, <3>1, <3>2 DEF Come, SetText
    <3>. QED  BY <1>0, <2>2, <3>1, <3>2, <3>3, SetTextSent
  <2>. QED  BY <1>3, <2>1, <2>2 DEF MarkReasoningBoundary
<1>4. ASSUME UNCHANGED Unread
      PROVE  Come' /\ UNCHANGED <<cumulativeText, rewritten>>
  BY <1>0, <1>4 DEF Come, Unread
<1>5. CASE Drain
  <2>1. Stream /\ UNCHANGED Unread /\ ~finalized /\ finalized' = finalized
    BY <1>5 DEF Drain
  <2>2. sent' \in Seq(Text) /\ Within' /\ ToldSoFar' /\ OnceSoFar'
    BY <1>4, <2>1, StreamSent
  <2>. QED  BY <1>0, <1>4, <2>1, <2>2 DEF SentInv, AllTold
<1>6. CASE FlushNow
  <2>1. SendRest /\ UNCHANGED Unread /\ ~finalized /\ finalized' = finalized
    BY <1>6 DEF FlushNow
  <2>2. sent' \in Seq(Text) /\ Within' /\ ToldSoFar' /\ OnceSoFar'
    BY <1>4, <2>1, SendRestSent
  <2>. QED  BY <1>0, <1>4, <2>1, <2>2 DEF SentInv, AllTold
<1>7. CASE Finalize
  <2>1. SendRest /\ UNCHANGED Unread
    BY <1>7 DEF Finalize
  <2>2. /\ sent' \in Seq(Text) /\ Within' /\ ToldSoFar' /\ OnceSoFar'
        /\ ~rewritten /\ ~torn => \A i \in Readable(cumulativeText) : cumulativeText[i].at \in Told(sent')
    BY <1>4, <2>1, SendRestSent
  <2>3. cumulativeText' = cumulativeText /\ rewritten' = rewritten /\ torn' = torn
    BY <1>4, <2>1 DEF SendRest
  <2>4. AllTold'
    BY <2>2, <2>3 DEF AllTold, NothingMissing, Told
  <2>. QED  BY <1>0, <1>4, <2>1, <2>2, <2>4 DEF SentInv
<1>8. CASE UNCHANGED textVars
  BY <1>2, <1>8 DEF textVars, sessionVars
<1>. QED  BY <1>1, <1>3, <1>5, <1>6, <1>7, <1>8 DEF TextNext

-----------------------------------------------------------------------------
(* The theorems *)

\* What the session keeps of a message is always text: no repair of a reply and no
\* cut of it ever leaves anything else, and the cursor is an offset
\* (StreamingOutputSession.update, markReasoningBoundary, drainUnsent).
THEOREM TextIsTyped == TextSpec => []TextInv
<1>. QED  BY TextInvInit, TextInvNext, PTL DEF TextSpec

\* Policy 011, for every message, chunk size and sequence of callbacks: however the
\* host's chunker cuts what is not sent yet, no chunk ends inside a table or a
\* diagram, and the chunks are the text (chunkMarkdownTextAtomicAware).
THEOREM BlocksAreKept == TextSpec => []BlocksKept
<1>. QED  BY TextIsTyped, BlocksKeptNow, PTL

\* For every message, chunk size and sequence of partial replies, reasoning ends,
\* drains and flushes: when the reply is over, all of it that can be read was sent,
\* and nothing twice, but for the three cases SentExactly names
\* (StreamingOutputSession.update, drainUnsent, flushNow, finalize).
THEOREM EverythingIsSent == TextSpec => []SentExactly
<1>1. SentInv => SentExactly
  BY DEF SentInv, AllTold, OnceSoFar, Once, SentExactly, NothingTwice
<1>. QED  BY <1>1, SentInvInit, SentInvNext, PTL DEF TextSpec
=============================================================================
