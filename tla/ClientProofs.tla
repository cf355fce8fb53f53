---------------------------- MODULE ClientProofs ----------------------------
(***************************************************************************)
(* What the two commands promise for any number of commands, any file, any *)
(* text typed and any number of intents (fangorn/src/crypto/encrypt.rs and *)
(* decrypt.rs): the registry holds what was meant, and a file locked with  *)
(* passwords passes verify_intents for these passwords only, and for them  *)
(* always.                                                                 *)
(***************************************************************************)
EXTENDS Client, IntentsProofs

(***************************************************************************)
(* Squeeze                                                                 *)
(***************************************************************************)
KeptAfter(kept, token) == IF token = Blank THEN kept ELSE Append(kept, token)

SqueezeFn(text) ==
  CHOOSE f : f = [i \in 0..Len(text) |->
    IF i = 0 THEN << >>
    ELSE IF text[i] = Blank THEN f[i - 1]
    ELSE Append(f[i - 1], text[i])]

\* Squeeze takes the last value of a function that keeps a token at a time.
LEMMA SqueezeDef ==
  ASSUME NEW A, NEW text \in Seq(A)
  PROVE  /\ Squeeze(text) = SqueezeFn(text)[Len(text)]
         /\ SqueezeFn(text)[0] = << >>
         /\ \A i \in 1..Len(text) :
              SqueezeFn(text)[i] = KeptAfter(SqueezeFn(text)[i - 1], text[i])
<1> DEFINE n == Len(text)
           init == << >>
           Step(i, kept) == IF text[i] = Blank THEN kept ELSE Append(kept, text[i])
           step == [p \in (1..n) \X Seq(A) |-> Step(p[1], p[2])]
<1>1. n \in Nat /\ init \in Seq(A)
  OBVIOUS
<1>2. step \in [(1..n) \X Seq(A) -> Seq(A)]
  <2>1. ASSUME NEW i \in 1..n, NEW kept \in Seq(A) PROVE Step(i, kept) \in Seq(A)
    OBVIOUS
  <2> HIDE DEF Step
  <2> QED BY <2>1
<1>3. PICK f : IsScan(f, n, Seq(A), init, step)
  <2> HIDE DEF n, init, step
  <2> QED BY <1>1, <1>2, RecursionExists
<1>4. ASSUME NEW i \in 1..n PROVE f[i] = Step(i, f[i - 1])
  <2>1. i - 1 \in 0..n
    BY <1>1
  <2>2. f[i - 1] \in Seq(A) /\ f[i] = step[<<i, f[i - 1]>>]
    BY <1>3, <2>1 DEF IsScan
  <2> HIDE DEF Step
  <2> QED BY <2>2
<1>5. f = [i \in 0..n |-> IF i = 0 THEN init ELSE Step(i, f[i - 1])]
  <2>1. \A i \in 0..n : i = 0 \/ i \in 1..n
    BY <1>1, SMTT(30)
  <2> HIDE DEF init, Step
  <2> QED BY <1>3, <1>4, <2>1 DEF IsScan
<1>6. SqueezeFn(text) = [i \in 0..n |->
        IF i = 0 THEN init ELSE Step(i, SqueezeFn(text)[i - 1])]
  BY <1>5 DEF SqueezeFn
<1>7. Squeeze(text) = SqueezeFn(text)[n]
  BY DEF Squeeze, SqueezeFn
<1> HIDE DEF Step
<1>8. \A i \in 1..n : i # 0 /\ i \in 0..n
  BY <1>1
<1>9. 0 \in 0..n
  BY <1>1
<1>10. /\ SqueezeFn(text)[0] = init
       /\ \A i \in 1..n : SqueezeFn(text)[i] = Step(i, SqueezeFn(text)[i - 1])
  <2> HIDE DEF init
  <2> QED BY <1>6, <1>8, <1>9
<1> QED BY <1>7, <1>10, Zenon DEF Step, KeptAfter

\* Nothing is kept of the empty text.
LEMMA SqueezeEmpty == Squeeze(<< >>) = << >>
<1>1. << >> \in Seq({}) /\ Len(<< >>) = 0
  OBVIOUS
<1> QED BY <1>1, SqueezeDef

\* What is kept of one token more.
LEMMA SqueezeAppend ==
  ASSUME NEW A, NEW text \in Seq(A), NEW c \in A
  PROVE  Squeeze(Append(text, c)) = KeptAfter(Squeeze(text), c)
<1> DEFINE longer == Append(text, c)
           n == Len(text)
           f == SqueezeFn(text)
           g == SqueezeFn(longer)
           T == {i \in Nat : i <= n => f[i] = g[i]}
<1>1. /\ longer \in Seq(A) /\ Len(longer) = n + 1 /\ longer[n + 1] = c
      /\ n \in Nat
      /\ \A i \in 1..n : longer[i] = text[i]
  OBVIOUS
<1>2. f[0] = << >> /\ Squeeze(text) = f[n]
      /\ \A i \in 1..n : f[i] = KeptAfter(f[i - 1], text[i])
  BY SqueezeDef
<1> HIDE DEF longer
<1>3. g[0] = << >> /\ Squeeze(longer) = g[n + 1]
      /\ \A i \in 1..(n + 1) : g[i] = KeptAfter(g[i - 1], longer[i])
  BY <1>1, SqueezeDef
<1> HIDE DEF f, g, n
<1>4. ASSUME NEW i \in Nat, i \in T PROVE i + 1 \in T
  <2> SUFFICES ASSUME i + 1 <= n PROVE f[i + 1] = g[i + 1]
    OBVIOUS
  <2>1. i + 1 \in 1..n /\ i + 1 \in 1..(n + 1) /\ i + 1 - 1 = i /\ f[i] = g[i]
        /\ longer[i + 1] = text[i + 1]
    BY <1>1, <1>4
  <2> HIDE DEF T
  <2>2. /\ f[i + 1] = KeptAfter(f[i], text[i + 1])
        /\ g[i + 1] = KeptAfter(g[i], longer[i + 1])
    BY <1>2, <1>3, <2>1
  <2> QED BY <2>1, <2>2, Zenon
<1>5. 0 \in T
  BY <1>2, <1>3
<1> HIDE DEF T
<1>6. n \in T
  BY <1>1, <1>4, <1>5, NatInd
<1>7. f[n] = g[n]
  BY <1>1, <1>6 DEF T
<1>8. PICK m : m = n + 1
  OBVIOUS
<1>9. m \in 1..(n + 1) /\ m - 1 = n
  BY <1>1, <1>8
<1>10. g[m] = KeptAfter(g[n], longer[m])
  BY <1>3, <1>9
<1>11. Squeeze(longer) = KeptAfter(Squeeze(text), c)
  BY <1>1, <1>2, <1>3, <1>7, <1>8, <1>10, Zenon
<1> QED BY <1>11 DEF longer

\* What is kept is a text.
LEMMA SqueezeType ==
  ASSUME NEW A, NEW text \in Seq(A)
  PROVE  Squeeze(text) \in Seq(A)
<1> DEFINE T == {s \in Seq(A) : Squeeze(s) \in Seq(A)}
<1>1. << >> \in T
  <2>1. << >> \in Seq(A)
    OBVIOUS
  <2> QED BY <2>1, SqueezeEmpty
<1>2. ASSUME NEW s \in Seq(A), NEW c \in A, s \in T PROVE Append(s, c) \in T
  <2>1. Append(s, c) \in Seq(A) /\ Squeeze(s) \in Seq(A)
    BY <1>2
  <2>2. Squeeze(Append(s, c)) = KeptAfter(Squeeze(s), c)
    BY SqueezeAppend
  <2>3. ASSUME NEW kept \in Seq(A) PROVE KeptAfter(kept, c) \in Seq(A)
    BY DEF KeptAfter
  <2> QED BY <2>1, <2>2, <2>3
<1> HIDE DEF T
<1>3. Seq(A) \subseteq T
  BY <1>1, <1>2, AppendInd
<1> QED BY <1>3 DEF T

\* What is kept of one token.
Ink(c) == IF c = Blank THEN << >> ELSE <<c>>

\* What is kept of a token comes behind what was kept.
LEMMA KeptIsInk ==
  ASSUME NEW A, NEW kept \in Seq(A), NEW c \in A
  PROVE  KeptAfter(kept, c) = kept \o Ink(c) /\ Ink(c) \in Seq(A)
  BY DEF KeptAfter, Ink

\* The same, of a text.
LEMMA SqueezeInk ==
  ASSUME NEW A, NEW text \in Seq(A), NEW c \in A
  PROVE  Squeeze(Append(text, c)) = Squeeze(text) \o Ink(c)
  BY SqueezeAppend, SqueezeType, KeptIsInk, Zenon

\* What is kept of two texts in a row.
LEMMA SqueezeConcat ==
  ASSUME NEW A, NEW u \in Seq(A), NEW v \in Seq(A)
  PROVE  Squeeze(u \o v) = Squeeze(u) \o Squeeze(v)
<1> DEFINE T == {s \in Seq(A) : Squeeze(u \o s) = Squeeze(u) \o Squeeze(s)}
<1>0. Squeeze(u) \in Seq(A)
  BY SqueezeType
<1>1. << >> \in T
  <2>1. << >> \in Seq(A) /\ u \o << >> = u
    OBVIOUS
  <2>2. Squeeze(u) \o << >> = Squeeze(u)
    BY <1>0
  <2> QED BY <2>1, <2>2, SqueezeEmpty
<1>2. ASSUME NEW s \in Seq(A), NEW c \in A, s \in T PROVE Append(s, c) \in T
  <2>1. u \o Append(s, c) = Append(u \o s, c) /\ u \o s \in Seq(A)
        /\ Append(s, c) \in Seq(A)
    BY ConcatAppend
  <2>2. Squeeze(Append(u \o s, c)) = Squeeze(u \o s) \o Ink(c)
    BY <2>1, SqueezeInk
  <2>3. Squeeze(u \o s) = Squeeze(u) \o Squeeze(s)
    BY <1>2
  <2>4. Squeeze(Append(s, c)) = Squeeze(s) \o Ink(c) /\ Squeeze(s) \in Seq(A)
    BY SqueezeInk, SqueezeType
  <2>5. Ink(c) \in Seq(A)
    BY <1>0, KeptIsInk
  <2>6. (Squeeze(u) \o Squeeze(s)) \o Ink(c) = Squeeze(u) \o (Squeeze(s) \o Ink(c))
    <3>1. ASSUME NEW x \in Seq(A), NEW y \in Seq(A), NEW z \in Seq(A)
          PROVE  (x \o y) \o z = x \o (y \o z)
      BY SMTT(30)
    <3> QED BY <1>0, <2>4, <2>5, <3>1, ZenonT(40)
  <2>7. Squeeze(u \o Append(s, c)) = Squeeze(u) \o Squeeze(Append(s, c))
    BY <2>1, <2>2, <2>3, <2>4, <2>6, Zenon
  <2> QED BY <2>1, <2>7, Zenon
<1> HIDE DEF T
<1>3. Seq(A) \subseteq T
  BY <1>1, <1>2, AppendInd
<1> QED BY <1>3 DEF T

\* Nothing is kept of a blank text.
LEMMA SqueezeBlank ==
  ASSUME NEW A, NEW b \in Seq(A), IsBlank(b)
  PROVE  Squeeze(b) = << >>
<1> DEFINE T == {s \in Seq(A) : IsBlank(s) => Squeeze(s) = << >>}
<1>1. << >> \in T
  BY SqueezeEmpty
<1>2. ASSUME NEW s \in Seq(A), NEW c \in A, s \in T PROVE Append(s, c) \in T
  <2>1. Append(s, c) \in Seq(A)
    OBVIOUS
  <2> SUFFICES ASSUME IsBlank(Append(s, c)) PROVE Squeeze(Append(s, c)) = << >>
    BY <2>1
  <2>2. IsBlank(s) /\ c = Blank
    BY DEF IsBlank
  <2>3. Squeeze(s) = << >>
    BY <1>2, <2>2
  <2> QED BY <2>2, <2>3, SqueezeAppend, Zenon DEF KeptAfter
<1> HIDE DEF T
<1>3. Seq(A) \subseteq T
  BY <1>1, <1>2, AppendInd
<1> QED BY <1>3 DEF T

\* Trimming makes no difference to what is kept.
LEMMA SqueezeTrim ==
  ASSUME NEW A, NEW text \in Seq(A)
  PROVE  Squeeze(Trim(text)) = Squeeze(text)
<1> DEFINE y == Trim(text)
<1>1. y \in Seq(A)
  BY TrimParts
<1>2. PICK u \in Seq(A), w \in Seq(A) :
        IsBlank(u) /\ IsBlank(w) /\ text = (u \o y) \o w
  BY TrimParts, Zenon
<1> HIDE DEF y
<1>3. Squeeze(u) = << >> /\ Squeeze(w) = << >>
  BY <1>2, SqueezeBlank
<1>4. u \o y \in Seq(A) /\ Squeeze(u \o y) = Squeeze(u) \o Squeeze(y)
  BY <1>1, SqueezeConcat, ConcatType
<1>5. Squeeze((u \o y) \o w) = Squeeze(u \o y) \o Squeeze(w)
  BY <1>4, SqueezeConcat, Zenon
<1>6. Squeeze(y) \in Seq(A)
  BY <1>1, SqueezeType
<1>7. << >> \o Squeeze(y) = Squeeze(y) /\ Squeeze(y) \o << >> = Squeeze(y)
  BY <1>6
<1> QED BY <1>2, <1>3, <1>4, <1>5, <1>7, Zenon DEF y

(***************************************************************************)
(* A text without its blanks, from its pieces                              *)
(***************************************************************************)
SqueezeAll(ps) == [k \in 1..Len(ps) |-> Squeeze(ps[k])]

\* Squeezed pieces are texts, one for each piece.
LEMMA SqueezeAllType ==
  ASSUME NEW A, NEW ps \in Seq(Seq(A))
  PROVE  /\ SqueezeAll(ps) \in Seq(Seq(A)) /\ Len(SqueezeAll(ps)) = Len(ps)
         /\ \A k \in 1..Len(ps) : SqueezeAll(ps)[k] = Squeeze(ps[k])
<1>1. \A k \in 1..Len(ps) : Squeeze(ps[k]) \in Seq(A)
  BY SqueezeType
<1>2. Len(ps) \in Nat
  OBVIOUS
<1> QED BY <1>1, <1>2 DEF SqueezeAll

\* One piece more is squeezed.
LEMMA SqueezeAllAppend ==
  ASSUME NEW A, NEW ps \in Seq(Seq(A)), NEW x \in Seq(A)
  PROVE  SqueezeAll(Append(ps, x)) = Append(SqueezeAll(ps), Squeeze(x))
<1> DEFINE longer == Append(ps, x)
           n == Len(ps)
           L == SqueezeAll(longer)
           P == SqueezeAll(ps)
           R == Append(P, Squeeze(x))
<1>1. /\ longer \in Seq(Seq(A)) /\ Len(longer) = n + 1 /\ longer[n + 1] = x
      /\ n \in Nat /\ \A i \in 1..n : longer[i] = ps[i]
  OBVIOUS
<1> HIDE DEF longer
<1>2. L \in Seq(Seq(A)) /\ Len(L) = n + 1 /\ \A k \in 1..(n + 1) : L[k] = Squeeze(longer[k])
  BY <1>1, SqueezeAllType
<1>3. P \in Seq(Seq(A)) /\ Len(P) = n /\ \A k \in 1..n : P[k] = Squeeze(ps[k])
  BY SqueezeAllType
<1>4. Squeeze(x) \in Seq(A)
  BY SqueezeType
<1> HIDE DEF L, P
<1>5. R \in Seq(Seq(A)) /\ Len(R) = n + 1 /\ R[n + 1] = Squeeze(x)
      /\ \A k \in 1..n : R[k] = P[k]
  BY <1>1, <1>3, <1>4
<1> HIDE DEF R
<1>6. ASSUME NEW k \in 1..(n + 1) PROVE L[k] = R[k]
  <2>1. k \in 1..n \/ k = n + 1
    BY <1>1
  <2> QED BY <1>1, <1>2, <1>3, <1>5, <2>1
<1>7. L = R
  BY <1>2, <1>5, <1>6, SeqEqual
<1> QED BY <1>7 DEF L, R, P, longer

\* Tokens behind the last text are behind what is joined.
IsConcat(w, y, z) == w = y \o z

\* Join, of texts the last of which is put together of two.
LEMMA JoinLast ==
  ASSUME NEW A, NEW ts \in Seq(Seq(A)), NEW y \in Seq(A), NEW z \in Seq(A),
         NEW w \in Seq(A), IsConcat(w, y, z), NEW sep \in Seq(A)
  PROVE  IsConcat(Join(Append(ts, w), sep), Join(Append(ts, y), sep), z)
<1>1. CASE ts = << >>
  <2>1. Append(ts, w) = <<w>> /\ Append(ts, y) = <<y>>
    BY <1>1
  <2>2. Join(<<w>>, sep) = w
    BY JoinOne
  <2>3. Join(<<y>>, sep) = y
    BY JoinOne
  <2> QED BY <2>1, <2>2, <2>3, Zenon DEF IsConcat
<1>2. CASE ts # << >>
  <2>1. Join(Append(ts, w), sep) = Join(ts, sep) \o sep \o w
    BY <1>2, JoinAppend
  <2>2. Join(Append(ts, y), sep) = Join(ts, sep) \o sep \o y
    BY <1>2, JoinAppend
  <2>3. Join(ts, sep) \in Seq(A)
    BY JoinType
  <2>4. Join(ts, sep) \o sep \in Seq(A)
    BY <2>3, ConcatType
  <2>5. ASSUME NEW x \in Seq(A) PROVE x \o (y \o z) = (x \o y) \o z
    OBVIOUS
  <2> QED BY <2>1, <2>2, <2>4, <2>5, Zenon DEF IsConcat
<1> QED BY <1>1, <1>2

\* Squeezed, a text is its squeezed pieces with the separators between them.
LEMMA SqueezePieces ==
  ASSUME NEW A, NEW sep \in A, sep # Blank, NEW text \in Seq(A)
  PROVE  Squeeze(text) = Join(SqueezeAll(Split(text, sep)), <<sep>>)
<1> DEFINE J(ps) == Join(SqueezeAll(ps), <<sep>>)
           T == {s \in Seq(A) : Squeeze(s) = J(Split(s, sep))}
<1>0. <<sep>> \in Seq(A) /\ << >> \in Seq(A)
  OBVIOUS
<1>1. << >> \in T
  <2>1. << >> \in Seq(Seq(A)) /\ Append(<< >>, << >>) = << << >> >>
    OBVIOUS
  <2>2. SqueezeAll(<< << >> >>) = << << >> >>
    BY SqueezeEmpty DEF SqueezeAll
  <2>3. Join(<< << >> >>, <<sep>>) = << >>
    BY <1>0, JoinOne
  <2>4. Squeeze(<< >>) = J(Split(<< >>, sep))
    BY <2>2, <2>3, SplitEmpty, SqueezeEmpty, Zenon
  <2> QED BY <1>0, <2>4, Zenon
<1>2. ASSUME NEW s \in Seq(A), NEW c \in A, s \in T PROVE Append(s, c) \in T
  <2>1. Append(s, c) \in Seq(A) /\ Squeeze(s) = J(Split(s, sep))
    <3>1. Append(s, c) \in Seq(A)
      OBVIOUS
    <3>2. Squeeze(s) = J(Split(s, sep))
      BY <1>2, Zenon
    <3> QED BY <3>1, <3>2, Zenon
  <2>2. Squeeze(Append(s, c)) = Squeeze(s) \o Ink(c)
    BY SqueezeInk
  <2>3. Split(Append(s, c), sep) = Extended(Split(s, sep), c, sep)
    BY SplitAppend
  <2>4. Split(s, sep) \in Pieces(A)
    BY SplitType
  <2>5. PICK fs \in Seq(Seq(A)), x \in Seq(A) : Split(s, sep) = Append(fs, x)
    BY <2>4, LastPiece, Zenon
  <2>6. SqueezeAll(fs) \in Seq(Seq(A)) /\ Squeeze(x) \in Seq(A) /\ Ink(c) \in Seq(A)
    BY <1>0, SqueezeAllType, SqueezeType, KeptIsInk
  <2>7. SqueezeAll(Append(fs, x)) = Append(SqueezeAll(fs), Squeeze(x))
    BY SqueezeAllAppend
  <2>8. CASE c = sep
    <3> DEFINE ps == Append(fs, x)
               qs == SqueezeAll(ps)
    <3>1. Split(Append(s, c), sep) = Append(ps, << >>)
      BY <2>3, <2>5, <2>8, ExtendedSep, Zenon
    <3>2. ps \in Seq(Seq(A)) /\ ps # << >>
      BY AppendProperties
    <3> HIDE DEF ps
    <3>3. SqueezeAll(Append(ps, << >>)) = Append(qs, << >>)
      BY <1>0, <3>2, SqueezeAllAppend, SqueezeEmpty
    <3>4. qs \in Seq(Seq(A)) /\ qs # << >>
      <4>1. qs \in Seq(Seq(A)) /\ Len(qs) = Len(ps)
        BY <3>2, SqueezeAllType
      <4> HIDE DEF qs
      <4> QED BY <3>2, <4>1
    <3> HIDE DEF qs
    <3>5. Join(Append(qs, << >>), <<sep>>) = Join(qs, <<sep>>) \o <<sep>> \o << >>
      BY <1>0, <3>4, JoinAppend
    <3>6. Ink(c) = <<sep>>
      BY <2>8, Zenon DEF Ink
    <3>7. Join(qs, <<sep>>) \in Seq(A)
      BY <1>0, <3>4, JoinType
    <3>8. ASSUME NEW j \in Seq(A) PROVE j \o <<sep>> \o << >> = j \o <<sep>>
      OBVIOUS
    <3>9. Squeeze(s) = Join(qs, <<sep>>)
      BY <2>1, <2>5, Zenon DEF qs, ps
    <3>10. Squeeze(Append(s, c)) = J(Split(Append(s, c), sep))
      BY <2>2, <3>1, <3>3, <3>5, <3>6, <3>7, <3>8, <3>9, Zenon
    <3> QED BY <2>1, <3>10, Zenon DEF T
  <2>9. CASE c # sep
    <3>1. Split(Append(s, c), sep) = Append(fs, Append(x, c))
      BY <2>3, <2>5, <2>9, ExtendedLast
    <3>2. Append(x, c) \in Seq(A)
      OBVIOUS
    <3>3. SqueezeAll(Append(fs, Append(x, c)))
            = Append(SqueezeAll(fs), Squeeze(Append(x, c)))
      BY <3>2, SqueezeAllAppend, Zenon
    <3>4. Squeeze(Append(x, c)) = Squeeze(x) \o Ink(c)
      BY SqueezeInk
    <3>5. Join(Append(SqueezeAll(fs), Squeeze(x) \o Ink(c)), <<sep>>)
            = Join(Append(SqueezeAll(fs), Squeeze(x)), <<sep>>) \o Ink(c)
      <4> DEFINE ts == SqueezeAll(fs)
                 y == Squeeze(x)
                 z == Ink(c)
                 g == <<sep>>
                 w == y \o z
      <4>2. ts \in Seq(Seq(A)) /\ y \in Seq(A) /\ z \in Seq(A) /\ g \in Seq(A)
        BY <1>0, <2>6, Zenon
      <4> HIDE DEF ts, y, z, g
      <4>3. w \in Seq(A)
        BY <4>2, ConcatType
      <4>4. IsConcat(w, y, z)
        BY Zenon DEF IsConcat
      <4> HIDE DEF w
      <4>5. IsConcat(Join(Append(ts, w), g), Join(Append(ts, y), g), z)
        BY <4>2, <4>3, <4>4, JoinLast
      <4> QED BY <4>5, Zenon DEF ts, y, z, g, w, IsConcat
    <3>6. Squeeze(s) = Join(Append(SqueezeAll(fs), Squeeze(x)), <<sep>>)
      BY <2>1, <2>5, <2>7, Zenon
    <3>7. Squeeze(Append(s, c)) = J(Split(Append(s, c), sep))
      <4>1. Squeeze(s) \o Ink(c)
              = Join(Append(SqueezeAll(fs), Squeeze(Append(x, c))), <<sep>>)
        BY <3>4, <3>5, <3>6, Zenon
      <4>2. J(Split(Append(s, c), sep))
              = Join(SqueezeAll(Append(fs, Append(x, c))), <<sep>>)
        BY <3>1, Zenon
      <4> QED BY <2>2, <3>3, <4>1, <4>2, Zenon
    <3> QED BY <2>1, <3>7, Zenon DEF T
  <2> QED BY <2>8, <2>9
<1> HIDE DEF T
<1>3. Seq(A) \subseteq T
  BY <1>1, <1>2, AppendInd
<1> QED BY <1>3 DEF T

\* A witness string whose pieces are ds is ds with commas, up to blanks.
LEMMA SqueezeWitnesses ==
  ASSUME NEW A, "," \in A, NEW text \in Seq(A), NEW ds \in Seq(Seq(A)),
         Witnesses(text) = ds
  PROVE  Squeeze(text) = Join(SqueezeAll(ds), <<",">>)
<1>1. "," # Blank
  BY DEF Blank
<1> DEFINE ps == Split(text, ",")
<1>2. TrimmedPieces(Trim(text), ",") = TrimmedPieces(text, ",")
  BY <1>1, PiecesOfTrimmed
<1>3. TrimAll(ps) = ds
  BY <1>2, TrimmedIsTrimAll, Zenon DEF Witnesses
<1>4. ps \in Seq(Seq(A))
  BY SplitType DEF Pieces
<1>5. Squeeze(text) = Join(SqueezeAll(ps), <<",">>)
  BY <1>1, SqueezePieces
<1> HIDE DEF ps
<1>6. Len(ds) = Len(ps) /\ \A k \in 1..Len(ps) : ds[k] = Trim(ps[k])
  BY <1>3, <1>4, TrimAllType
<1>7. ASSUME NEW k \in 1..Len(ps) PROVE Squeeze(ds[k]) = Squeeze(ps[k])
  <2>1. ps[k] \in Seq(A)
    BY <1>4, ElementOfSeq
  <2>2. Squeeze(Trim(ps[k])) = Squeeze(ps[k])
    BY <2>1, SqueezeTrim, Zenon
  <2> QED BY <1>6, <2>2, Zenon
<1>8. SqueezeAll(ds) = SqueezeAll(ps)
  BY <1>6, <1>7 DEF SqueezeAll
<1> QED BY <1>5, <1>8, Zenon

(***************************************************************************)
(* The inductive invariant                                                 *)
(***************************************************************************)
EncPcs == {"parse", "add", "register", "done", "failed"}
DecPcs == {"type", "post", "wait", "panicked"}
AnswerSet == {"lookup_panics", "no_intent"} \cup Granted \cup Denied

\* What users may mean, and what may become of it.
Lists == (UNION {Meant[p] : p \in Encryptors}) \cup {<< >>}
Strings == {Typing(meant, layout) : meant \in Lists, layout \in Layouts}
Predicates ==
  {ParseIntents(text) : text \in {t \in Strings : ParsesOk(t)}} \cup {<< >>}

Shapes ==
  /\ enc \in [Encryptors -> [pc : EncPcs, meant : Lists, closed : BOOLEAN,
                             intents : Predicates, added : BOOLEAN]]
  /\ dec \in [Decryptors -> [pc : DecPcs, text : Typed \cup {<< >>}, latest : Nat]]
  /\ docs \subseteq Encryptors
  /\ pool \subseteq Decryptors
  /\ nonce \in [Accounts -> Nat]
  /\ answers \in [Decryptors -> SUBSET AnswerSet]

\* The intents of p are what became of its user's string.
ParsedFrom(p, layout) ==
  /\ enc[p].closed = (layout # "open")
  /\ enc[p].meant \in Meant[p]
  /\ ParsesOk(Typing(enc[p].meant, layout))
  /\ enc[p].intents = ParseIntents(Typing(enc[p].meant, layout))

\* A command comes past its parser only with a string that parses.
PastParser ==
  \A p \in Encryptors :
    /\ enc[p].pc = "parse" => ~ enc[p].added
    /\ (enc[p].added \/ enc[p].pc \in {"add", "register", "done"})
         => \E layout \in Layouts : ParsedFrom(p, layout)
    /\ enc[p].pc = "register" => enc[p].added

\* An entry is what its command put together, which has ended.
EntryOf(f) ==
  LET entry == predicate_registry[f] IN
  /\ entry.cid \in Encryptors /\ FileOf[entry.cid] = f
  /\ enc[entry.cid].added /\ enc[entry.cid].pc \in {"done", "failed"}
  /\ entry.predicate = enc[entry.cid].intents

Registered ==
  \A f \in DOMAIN predicate_registry : f \in Filenames /\ EntryOf(f)

\* Answers come after the request, and tell of no verification while its file is
\* not registered.
Answered ==
  \A q \in Decryptors :
    /\ answers[q] # {} => q \in pool
    /\ q \in pool => dec[q].pc \in {"wait", "panicked"}
    /\ IsFree(FileOf[q]) => answers[q] \subseteq {"lookup_panics", "no_intent"}

ClientInv == Shapes /\ PastParser /\ Registered /\ Answered

\* It holds before anything happens.
LEMMA ClientInitInv == Init => ClientInv
<1> SUFFICES ASSUME Init PROVE ClientInv
  OBVIOUS
<1>1. DOMAIN predicate_registry = {}
  BY DEF Init, RegistryInit, EmptyMapping
<1>2. Shapes
  <2>1. << >> \in Lists /\ << >> \in Predicates
    BY Zenon DEF Lists, Predicates
  <2> QED BY <2>1 DEF Init, Shapes, EncPcs, DecPcs, AnswerSet
<1>3. PastParser
  BY DEF Init, PastParser
<1>4. Registered /\ Answered
  BY <1>1 DEF Init, Registered, Answered
<1> QED BY <1>2, <1>3, <1>4 DEF ClientInv

\* What a step that moves a command p on leaves of its record.
SameString(r) ==
  /\ enc'[r].meant = enc[r].meant /\ enc'[r].closed = enc[r].closed
  /\ enc'[r].intents = enc[r].intents

\* The intents of a command stay what became of its string.
LEMMA ParsedKept ==
  ASSUME NEW r, NEW layout, SameString(r), ParsedFrom(r, layout)
  PROVE  ParsedFrom(r, layout)'
  BY DEF SameString, ParsedFrom

\* An entry stays what it is when its command and the registry do.
LEMMA EntryKept ==
  ASSUME NEW f, EntryOf(f), predicate_registry'[f] = predicate_registry[f],
         \A r \in Encryptors : enc[r].pc \in {"done", "failed"} => enc'[r] = enc[r]
  PROVE  EntryOf(f)'
  BY DEF EntryOf

\* The steps of the commands that change no other component.
LEMMA RegisteredKept ==
  ASSUME Registered, UNCHANGED predicate_registry,
         \A r \in Encryptors : enc[r].pc \in {"done", "failed"} => enc'[r] = enc[r]
  PROVE  Registered'
<1> SUFFICES ASSUME NEW f \in DOMAIN predicate_registry'
             PROVE  f \in Filenames /\ EntryOf(f)'
  BY DEF Registered
<1>1. f \in DOMAIN predicate_registry /\ predicate_registry'[f] = predicate_registry[f]
  OBVIOUS
<1>2. f \in Filenames /\ EntryOf(f)
  BY <1>1 DEF Registered
<1> QED BY <1>1, <1>2, EntryKept

\* parse_intents fixes the string that the intents are of.
LEMMA ParseIntentInv ==
  ASSUME ClientInv, NEW p \in Encryptors, ParseIntent(p)
  PROVE  ClientInv'
<1>1. PICK meant \in Meant[p], layout \in Layouts, next \in {"add", "failed"},
           intents \in Predicates :
        /\ enc' = [enc EXCEPT ![p] = [pc |-> next, meant |-> meant,
                    closed |-> layout # "open", intents |-> intents, added |-> FALSE]]
        /\ next = "add" => /\ ParsesOk(Typing(meant, layout))
                           /\ intents = ParseIntents(Typing(meant, layout))
  <2>1. PICK meant \in Meant[p], layout \in Layouts :
          LET text == Typing(meant, layout)
              parsed(next, intents) ==
                enc' = [enc EXCEPT ![p] = [pc |-> next, meant |-> meant,
                          closed |-> layout # "open", intents |-> intents,
                          added |-> FALSE]]
          IN \/ ParsesOk(text) /\ parsed("add", ParseIntents(text))
             \/ ~ ParsesOk(text) /\ parsed("failed", << >>)
    BY DEF ParseIntent
  <2> DEFINE text == Typing(meant, layout)
  <2>2. << >> \in Predicates /\ (ParsesOk(text) => ParseIntents(text) \in Predicates)
    <3>1. meant \in Lists
      BY DEF Lists
    <3>2. text \in Strings
      BY <3>1 DEF Strings
    <3> QED BY <3>2, Zenon DEF Predicates
  <2> HIDE DEF text
  <2>3. CASE ParsesOk(text)
    <3>1. enc' = [enc EXCEPT ![p] = [pc |-> "add", meant |-> meant,
                  closed |-> layout # "open", intents |-> ParseIntents(text),
                  added |-> FALSE]]
      BY <2>1, <2>3, Zenon DEF text
    <3> QED BY <2>2, <2>3, <3>1, Zenon DEF text
  <2>4. CASE ~ ParsesOk(text)
    <3>1. enc' = [enc EXCEPT ![p] = [pc |-> "failed", meant |-> meant,
                  closed |-> layout # "open", intents |-> << >>, added |-> FALSE]]
      BY <2>1, <2>4, Zenon DEF text
    <3> QED BY <2>2, <3>1, Zenon
  <2> QED BY <2>3, <2>4
<1>2. /\ enc[p].pc = "parse"
      /\ UNCHANGED <<predicate_registry, dec, docs, pool, nonce, answers>>
  BY DEF ParseIntent, registry_vars
<1>3. Shapes /\ PastParser /\ Registered /\ Answered
  BY DEF ClientInv
<1>4. /\ enc'[p] = [pc |-> next, meant |-> meant, closed |-> layout # "open",
                    intents |-> intents, added |-> FALSE]
      /\ \A r \in Encryptors \ {p} : enc'[r] = enc[r]
  BY <1>1, <1>3 DEF Shapes
<1>5. Shapes'
  <2>1. meant \in Lists
    BY DEF Lists
  <2> QED BY <1>1, <1>2, <1>3, <2>1 DEF Shapes, EncPcs
<1>6. PastParser'
  <2> SUFFICES ASSUME NEW r \in Encryptors
               PROVE  /\ enc'[r].pc = "parse" => ~ enc'[r].added
                      /\ (enc'[r].added \/ enc'[r].pc \in {"add", "register", "done"})
                           => \E l \in Layouts : ParsedFrom(r, l)'
                      /\ enc'[r].pc = "register" => enc'[r].added
    BY DEF PastParser
  <2>1. CASE r = p
    <3>1. next = "add" => ParsedFrom(p, layout)'
      BY <1>1, <1>4 DEF ParsedFrom
    <3> QED BY <1>4, <2>1, <3>1
  <2>2. CASE r # p
    <3>1. enc'[r] = enc[r]
      BY <1>4, <2>2
    <3>2. SameString(r)
      BY <3>1 DEF SameString
    <3> QED BY <1>3, <3>1, <3>2, ParsedKept DEF PastParser
  <2> QED BY <2>1, <2>2
<1>7. Registered'
  BY <1>2, <1>3, <1>4, RegisteredKept
<1>8. Answered'
  BY <1>2, <1>3 DEF Answered, IsFree
<1> QED BY <1>5, <1>6, <1>7, <1>8 DEF ClientInv

\* The record of a command that a step moves on.
Moves(p, next, added) ==
  /\ enc[p].pc \notin {"done", "failed"}
  /\ next \in EncPcs \ {"parse"} /\ added \in BOOLEAN
  /\ enc[p].added => added
  /\ next = "register" => added
  /\ added \/ next \in {"add", "register", "done"} =>
       enc[p].added \/ enc[p].pc \in {"add", "register", "done"}
  /\ enc' = [enc EXCEPT ![p] = [enc[p] EXCEPT !.pc = next, !.added = added]]

\* Such a step keeps what is about the commands alone.
LEMMA MovesKept ==
  ASSUME Shapes, PastParser, NEW p \in Encryptors, NEW next, NEW added,
         Moves(p, next, added)
  PROVE  /\ enc' \in [Encryptors -> [pc : EncPcs, meant : Lists, closed : BOOLEAN,
                                     intents : Predicates, added : BOOLEAN]]
         /\ PastParser'
         /\ \A r \in Encryptors : r # p => enc'[r] = enc[r]
         /\ enc'[p].pc = next /\ enc'[p].added = added /\ SameString(p)
<1>1. /\ enc'[p] = [enc[p] EXCEPT !.pc = next, !.added = added]
      /\ \A r \in Encryptors : r # p => enc'[r] = enc[r]
  BY DEF Shapes, Moves
<1>2. enc[p] \in [pc : EncPcs, meant : Lists, closed : BOOLEAN,
                  intents : Predicates, added : BOOLEAN]
  BY DEF Shapes
<1>3. enc'[p].pc = next /\ enc'[p].added = added /\ SameString(p)
  BY <1>1, <1>2 DEF SameString
<1>4. enc' \in [Encryptors -> [pc : EncPcs, meant : Lists, closed : BOOLEAN,
                               intents : Predicates, added : BOOLEAN]]
  BY <1>2 DEF Shapes, Moves
<1>5. PastParser'
  <2> SUFFICES ASSUME NEW r \in Encryptors
               PROVE  /\ enc'[r].pc = "parse" => ~ enc'[r].added
                      /\ (enc'[r].added \/ enc'[r].pc \in {"add", "register", "done"})
                           => \E l \in Layouts : ParsedFrom(r, l)'
                      /\ enc'[r].pc = "register" => enc'[r].added
    BY DEF PastParser
  <2>1. SameString(r)
    BY <1>1, <1>3 DEF SameString
  <2>2. CASE r = p
    <3>1. enc'[r].added \/ enc'[r].pc \in {"add", "register", "done"}
            => \E l \in Layouts : ParsedFrom(r, l)
      BY <1>3, <2>2 DEF Moves, PastParser
    <3> QED BY <1>3, <2>1, <2>2, <3>1, ParsedKept DEF Moves
  <2>3. CASE r # p
    BY <1>1, <2>1, <2>3, ParsedKept DEF PastParser
  <2> QED BY <2>2, <2>3
<1> QED BY <1>1, <1>3, <1>4, <1>5

\* It changes nothing else, so the invariant is kept.
LEMMA MoveOnlyInv ==
  ASSUME ClientInv, NEW p \in Encryptors, NEW next, NEW added, Moves(p, next, added),
         UNCHANGED <<predicate_registry, dec, docs, pool, answers>>,
         nonce' \in [Accounts -> Nat]
  PROVE  ClientInv'
<1>1. Shapes /\ PastParser /\ Registered /\ Answered
  BY DEF ClientInv
<1>2. /\ enc' \in [Encryptors -> [pc : EncPcs, meant : Lists, closed : BOOLEAN,
                                  intents : Predicates, added : BOOLEAN]]
      /\ PastParser'
      /\ \A r \in Encryptors : r # p => enc'[r] = enc[r]
  BY <1>1, MovesKept
<1>3. \A r \in Encryptors : enc[r].pc \in {"done", "failed"} => enc'[r] = enc[r]
  BY <1>2 DEF Moves
<1>4. Registered'
  BY <1>1, <1>3, RegisteredKept
<1>5. Shapes'
  BY <1>1, <1>2 DEF Shapes
<1>6. Answered'
  BY <1>1 DEF Answered, IsFree
<1> QED BY <1>2, <1>4, <1>5, <1>6 DEF ClientInv

\* The ciphertext is added: the command may go on to register.
LEMMA AddCiphertextInv ==
  ASSUME ClientInv, NEW p \in Encryptors, AddCiphertext(p)
  PROVE  ClientInv'
<1>1. Shapes
  BY DEF ClientInv
<1>2. /\ enc[p].pc = "add"
      /\ UNCHANGED <<predicate_registry, dec, docs, pool, answers>>
      /\ nonce' \in [Accounts -> Nat]
  BY <1>1 DEF AddCiphertext, registry_vars, Shapes
<1>3. CASE enc' = [enc EXCEPT ![p].pc = "register", ![p].added = TRUE]
  <2>1. Moves(p, "register", TRUE)
    BY <1>1, <1>2, <1>3 DEF Moves, Shapes, EncPcs
  <2> QED BY <1>2, <2>1, MoveOnlyInv
<1>4. CASE MoveEnc(p, "failed")
  <2>1. Moves(p, "failed", enc[p].added)
    BY <1>1, <1>2, <1>4 DEF Moves, MoveEnc, Shapes, EncPcs
  <2> QED BY <1>2, <2>1, MoveOnlyInv
<1> QED BY <1>3, <1>4 DEF AddCiphertext

\* A document reaches the others: nothing here is about that.
LEMMA ReplicateInv ==
  ASSUME ClientInv, NEW p \in Encryptors, Replicate(p)
  PROVE  ClientInv'
<1>1. Shapes /\ PastParser /\ Registered /\ Answered
  BY DEF ClientInv
<1>2. UNCHANGED <<predicate_registry, enc, dec, pool, nonce, answers>> /\ docs' = docs \cup {p}
  BY DEF Replicate, registry_vars, client_vars
<1>3. Shapes'
  BY <1>1, <1>2 DEF Shapes
<1>4. PastParser'
  BY <1>1, <1>2 DEF PastParser, ParsedFrom
<1>5. Registered'
  BY <1>1, <1>2, RegisteredKept
<1>6. Answered'
  BY <1>1, <1>2 DEF Answered, IsFree
<1> QED BY <1>3, <1>4, <1>5, <1>6 DEF ClientInv

\* A transaction leaves the nonces numbers.
LEMMA TransactionType ==
  ASSUME nonce \in [Accounts -> Nat], NEW a \in Accounts, Transaction(a)
  PROVE  nonce' \in [Accounts -> Nat]
  BY DEF Transaction

\* The registration puts the command's own entry in a free place.
LEMMA RegisterInvC ==
  ASSUME ClientInv, NEW p \in Encryptors, Register(p)
  PROVE  ClientInv'
<1>1. Shapes /\ PastParser /\ Registered /\ Answered
  BY DEF ClientInv
<1> DEFINE f == FileOf[p]
<1>2. PICK next \in {"done", "failed"} : MoveEnc(p, next)
  BY DEF Register
<1>3. /\ enc[p].pc = "register" /\ f \notin DOMAIN predicate_registry
      /\ predicate_registry' = Insert(predicate_registry, f, Entry(p))
      /\ UNCHANGED <<dec, docs, pool, answers>>
  BY DEF Register, register_predicate, IsFree
<1>4. f \in Filenames
  BY ClientConstants
<1>5. Moves(p, next, enc[p].added)
  BY <1>1, <1>2, <1>3 DEF Moves, MoveEnc, Shapes, EncPcs
<1>6. /\ enc' \in [Encryptors -> [pc : EncPcs, meant : Lists, closed : BOOLEAN,
                                  intents : Predicates, added : BOOLEAN]]
      /\ PastParser'
      /\ \A r \in Encryptors : r # p => enc'[r] = enc[r]
      /\ enc'[p].pc = next /\ enc'[p].added = enc[p].added /\ SameString(p)
  BY <1>1, <1>5, MovesKept
<1>7. enc[p].added
  BY <1>1, <1>3 DEF PastParser
<1>8. Shapes'
  <2>1. nonce' \in [Accounts -> Nat]
    <3>1. Account[p] \in Accounts /\ Transaction(Account[p])
      BY ClientConstants DEF Register
    <3> QED BY <1>1, <3>1, TransactionType DEF Shapes
  <2> QED BY <1>1, <1>3, <1>6, <2>1 DEF Shapes
<1>9. /\ DOMAIN predicate_registry' = DOMAIN predicate_registry \cup {f}
      /\ predicate_registry'[f] = [cid |-> p, predicate |-> enc[p].intents]
      /\ \A g \in DOMAIN predicate_registry : predicate_registry'[g] = predicate_registry[g]
  BY <1>3 DEF Insert, Entry
<1>10. EntryOf(f)'
  <2>1. predicate_registry'[f].cid = p /\ predicate_registry'[f].predicate = enc[p].intents
    BY <1>9
  <2>2. enc'[p].added /\ enc'[p].pc \in {"done", "failed"} /\ enc'[p].intents = enc[p].intents
    BY <1>6, <1>7 DEF SameString
  <2> QED BY <2>1, <2>2, Zenon DEF EntryOf
<1>11. ASSUME NEW g \in DOMAIN predicate_registry PROVE g \in Filenames /\ EntryOf(g)'
  <2>1. g \in Filenames /\ EntryOf(g) /\ predicate_registry'[g] = predicate_registry[g]
    BY <1>1, <1>9 DEF Registered
  <2>2. \A r \in Encryptors : enc[r].pc \in {"done", "failed"} => enc'[r] = enc[r]
    BY <1>3, <1>6
  <2> QED BY <2>1, <2>2, EntryKept
<1>12. Registered'
  BY <1>4, <1>9, <1>10, <1>11 DEF Registered
<1>13. Answered'
  BY <1>1, <1>3, <1>9 DEF Answered, IsFree
<1> QED BY <1>6, <1>8, <1>12, <1>13 DEF ClientInv

\* A registration that reverts or fails ends the command and changes no entry.
LEMMA RegisterEndsInv ==
  ASSUME ClientInv, NEW p \in Encryptors, RegisterReverts(p) \/ RegisterFails(p)
  PROVE  ClientInv'
<1>1. Shapes
  BY DEF ClientInv
<1>2. /\ enc[p].pc = "register" /\ MoveEnc(p, "failed")
      /\ UNCHANGED <<predicate_registry, dec, docs, pool, answers>>
  BY DEF RegisterReverts, RegisterFails, registry_vars
<1>3. nonce' \in [Accounts -> Nat]
  <2>1. Account[p] \in Accounts /\ (Transaction(Account[p]) \/ UNCHANGED nonce)
    BY ClientConstants DEF RegisterReverts, RegisterFails
  <2> QED BY <1>1, <2>1, TransactionType DEF Shapes
<1>4. Moves(p, "failed", enc[p].added)
  BY <1>1, <1>2 DEF Moves, MoveEnc, Shapes, EncPcs
<1> QED BY <1>2, <1>3, <1>4, MoveOnlyInv

\* A witness is typed before the request, and so before any answer.
LEMMA TypeWitnessInv ==
  ASSUME ClientInv, NEW q \in Decryptors, TypeWitness(q)
  PROVE  ClientInv'
<1>1. Shapes /\ PastParser /\ Registered /\ Answered
  BY DEF ClientInv
<1>2. UNCHANGED <<predicate_registry, enc, docs, pool, nonce, answers>> /\ dec[q].pc = "type"
  BY DEF TypeWitness, registry_vars
<1>3. PICK text \in Typed :
        dec' = [dec EXCEPT ![q] = [pc |-> "post", text |-> text,
                                   latest |-> nonce[Account[q]]]]
  BY DEF TypeWitness
<1>4. Shapes'
  <2>1. nonce[Account[q]] \in Nat
    BY <1>1, ClientConstants DEF Shapes
  <2> QED BY <1>1, <1>2, <1>3, <2>1 DEF Shapes, DecPcs
<1>5. PastParser'
  BY <1>1, <1>2 DEF PastParser, ParsedFrom
<1>6. Registered'
  BY <1>1, <1>2, RegisteredKept
<1>7. Answered'
  <2>1. q \notin pool
    BY <1>1, <1>2 DEF Answered
  <2>2. \A r \in Decryptors : r # q => dec'[r] = dec[r]
    BY <1>1, <1>3 DEF Shapes
  <2> QED BY <1>1, <1>2, <2>1, <2>2 DEF Answered, IsFree
<1> QED BY <1>4, <1>5, <1>6, <1>7 DEF ClientInv

\* The request is in the pool, and nothing is answered yet.
LEMMA RequestDecryptInv ==
  ASSUME ClientInv, NEW q \in Decryptors, RequestDecrypt(q)
  PROVE  ClientInv'
<1>1. Shapes /\ PastParser /\ Registered /\ Answered
  BY DEF ClientInv
<1>2. /\ UNCHANGED <<predicate_registry, enc, docs, answers>>
      /\ dec' = [dec EXCEPT ![q].pc = "wait"]
      /\ pool' \in {pool, pool \cup {q}}
  BY DEF RequestDecrypt, registry_vars
<1>3. nonce' \in [Accounts -> Nat]
  <2>1. Account[q] \in Accounts /\ (Transaction(Account[q]) \/ UNCHANGED nonce)
    BY ClientConstants DEF RequestDecrypt
  <2> QED BY <1>1, <2>1, TransactionType DEF Shapes
<1>4. Shapes'
  BY <1>1, <1>2, <1>3 DEF Shapes, DecPcs
<1>5. PastParser'
  BY <1>1, <1>2 DEF PastParser, ParsedFrom
<1>6. Registered'
  BY <1>1, <1>2, RegisteredKept
<1>7. Answered'
  <2>1. dec'[q].pc = "wait" /\ \A r \in Decryptors : r # q => dec'[r] = dec[r]
    BY <1>1, <1>2 DEF Shapes
  <2> QED BY <1>1, <1>2, <2>1 DEF Answered, IsFree
<1> QED BY <1>4, <1>5, <1>6, <1>7 DEF ClientInv

\* The client waits or panics with its request in the pool.
LEMMA AwaitPartialsInv ==
  ASSUME ClientInv, NEW q \in Decryptors, AwaitPartials(q)
  PROVE  ClientInv'
<1>1. Shapes /\ PastParser /\ Registered /\ Answered
  BY DEF ClientInv
<1>2. /\ UNCHANGED <<predicate_registry, enc, docs, pool, nonce, answers>>
      /\ dec' = [dec EXCEPT ![q].pc = "panicked"]
  BY DEF AwaitPartials, registry_vars
<1>3. Shapes'
  BY <1>1, <1>2 DEF Shapes, DecPcs
<1>4. PastParser'
  BY <1>1, <1>2 DEF PastParser, ParsedFrom
<1>5. Registered'
  BY <1>1, <1>2, RegisteredKept
<1>6. Answered'
  <2>1. dec'[q].pc = "panicked" /\ \A r \in Decryptors : r # q => dec'[r] = dec[r]
    BY <1>1, <1>2 DEF Shapes
  <2> QED BY <1>1, <1>2, <2>1 DEF Answered, IsFree
<1> QED BY <1>3, <1>4, <1>5, <1>6 DEF ClientInv

\* What a node comes to is one of the outcomes.
LEMMA OutcomeType ==
  ASSUME NEW q, NEW outcome \in Outcomes(q)
  PROVE  /\ outcome \in AnswerSet
         /\ IsFree(FileOf[q]) => outcome \in {"lookup_panics", "no_intent"}
<1>1. ASSUME NEW verdict, NEW cid, outcome \in AfterVerdict(verdict, cid)
      PROVE  outcome \in Granted \cup Denied
  BY <1>1 DEF AfterVerdict, Granted, Denied
<1>2. CASE IsFree(FileOf[q])
  BY <1>2 DEF Outcomes, AnswerSet
<1>3. CASE ~ IsFree(FileOf[q])
  <2> QED BY <1>1, <1>3 DEF Outcomes, AnswerSet
<1> QED BY <1>2, <1>3

\* A node answers a request that is in the pool.
LEMMA ServeInv ==
  ASSUME ClientInv, NEW q \in Decryptors, Serve(q)
  PROVE  ClientInv'
<1>1. Shapes /\ PastParser /\ Registered /\ Answered
  BY DEF ClientInv
<1>2. /\ UNCHANGED <<predicate_registry, enc, dec, docs, pool, nonce>> /\ q \in pool
  BY DEF Serve, registry_vars, client_vars
<1>o. PICK outcome \in Outcomes(q) :
        answers' = [answers EXCEPT ![q] = @ \cup {outcome}]
  BY DEF Serve
<1>3. /\ outcome \in AnswerSet
      /\ IsFree(FileOf[q]) => outcome \in {"lookup_panics", "no_intent"}
  BY OutcomeType
<1>4. Shapes'
  BY <1>1, <1>2, <1>o, <1>3 DEF Shapes
<1>5. PastParser'
  BY <1>1, <1>2 DEF PastParser, ParsedFrom
<1>6. Registered'
  BY <1>1, <1>2, RegisteredKept
<1>7. Answered'
  <2>1. /\ answers'[q] = answers[q] \cup {outcome}
        /\ \A r \in Decryptors : r # q => answers'[r] = answers[r]
    BY <1>1, <1>o DEF Shapes
  <2> QED BY <1>1, <1>2, <1>3, <2>1 DEF Answered, IsFree
<1> QED BY <1>4, <1>5, <1>6, <1>7 DEF ClientInv

\* The invariant holds in every reachable state.
THEOREM ClientInvariant == Spec => []ClientInv
<1>1. ClientInv /\ [Next]_vars => ClientInv'
  <2> SUFFICES ASSUME ClientInv, [Next]_vars PROVE ClientInv'
    OBVIOUS
  <2>1. ASSUME NEW p \in Encryptors,
               \/ ParseIntent(p) \/ AddCiphertext(p) \/ Replicate(p)
               \/ Register(p) \/ RegisterReverts(p) \/ RegisterFails(p)
        PROVE  ClientInv'
    BY <2>1, ParseIntentInv, AddCiphertextInv, ReplicateInv, RegisterInvC,
       RegisterEndsInv
  <2>2. ASSUME NEW q \in Decryptors,
               \/ TypeWitness(q) \/ RequestDecrypt(q) \/ AwaitPartials(q) \/ Serve(q)
        PROVE  ClientInv'
    BY <2>2, TypeWitnessInv, RequestDecryptInv, AwaitPartialsInv, ServeInv
  <2>3. CASE UNCHANGED vars
    BY <2>3 DEF vars, registry_vars, client_vars, ClientInv, Shapes, PastParser,
         ParsedFrom, Registered, EntryOf, Answered, IsFree
  <2> QED BY <2>1, <2>2, <2>3 DEF Next
<1> QED BY <1>1, ClientInitInv, PTL DEF Spec

(***************************************************************************)
(* The intent string as it is typed                                        *)
(***************************************************************************)
\* The tokens of what is typed.
Alphabet == STRING \cup Separators

\* The separators are tokens of the alphabet.
LEMMA AlphabetTokens ==
  /\ "(" \in Alphabet /\ ")" \in Alphabet /\ "&&" \in Alphabet
  /\ "," \in Alphabet /\ Blank \in Alphabet
  BY DEF Alphabet, Separators

MeantIntents(A) == [type : Seq(A), data : Seq(A)]
Meanings == Seq(MeantIntents(Alphabet))

\* A text of one token is that token.
LEMMA SingleToken ==
  ASSUME NEW A, NEW t \in Seq(A), Len(t) = 1
  PROVE  t[1] \in A /\ t = <<t[1]>>
  OBVIOUS

\* What users mean are texts, and names with data that may survive.
LEMMA MeantTypes ==
  ASSUME NEW p \in Encryptors, NEW meant \in Meant[p]
  PROVE  /\ meant \in Meanings
         /\ (\A k \in 1..Len(meant) : Survives(meant[k].data))
              => meant \in Seq(Intended(Alphabet))
<1>0. STRING \subseteq Alphabet
  BY DEF Alphabet
<1>1. /\ meant \in Seq(MeantIntents(STRING))
      /\ \A k \in 1..Len(meant) :
           Len(meant[k].type) = 1 /\ meant[k].type[1] \notin Separators
  BY ClientTexts, Zenon DEF MeantIntents
<1>2. meant \in Meanings
  <2>1. \A s \in Seq(STRING) : s \in Seq(Alphabet)
    BY <1>0, WiderSeq, Zenon
  <2>2. MeantIntents(STRING) \subseteq MeantIntents(Alphabet)
    BY <2>1 DEF MeantIntents
  <2> QED BY <1>1, <2>2, WiderSeq, Zenon DEF Meanings
<1> SUFFICES ASSUME \A k \in 1..Len(meant) : Survives(meant[k].data)
             PROVE  meant \in Seq(Intended(Alphabet))
  BY <1>2
<1>3. ASSUME NEW k \in 1..Len(meant) PROVE meant[k] \in Intended(Alphabet)
  <2>1. meant[k] \in MeantIntents(Alphabet)
    BY <1>2, ElementOfSeq DEF Meanings
  <2>2. PICK t \in Seq(Alphabet), d \in Seq(Alphabet) :
          meant[k] = [type |-> t, data |-> d]
    BY <2>1 DEF MeantIntents
  <2>3. meant[k].type = t /\ meant[k].data = d
    BY <2>2
  <2>4. Len(t) = 1 /\ t[1] \notin Separators /\ Survives(d)
    BY <1>1, <2>3
  <2>5. t[1] \in Alphabet /\ t = <<t[1]>>
    BY <2>4, SingleToken
  <2>6. t \in {<<name>> : name \in Alphabet \ Separators}
    BY <2>4, <2>5, Zenon
  <2>7. d \in {e \in Seq(Alphabet) : Survives(e)}
    BY <2>4
  <2> QED BY <2>2, <2>6, <2>7 DEF Intended
<1>4. Len(meant) \in Nat /\ meant = [k \in 1..Len(meant) |-> meant[k]]
  BY <1>2 DEF Meanings
<1> QED BY <1>3, <1>4

\* The k-th text that is typed.
OneText(meant, k, layout) ==
  meant[k].type \o <<"(">> \o meant[k].data
    \o (IF layout = "open" /\ k = Len(meant) THEN << >> ELSE <<")">>)

TypedTexts(meant, layout) == [k \in 1..Len(meant) |-> OneText(meant, k, layout)]

\* The string that is typed, with its LET taken apart.
LEMMA TypingIs ==
  ASSUME NEW meant, NEW layout
  PROVE  Typing(meant, layout) =
           IF layout = "spaced"
           THEN <<Blank>> \o Join(TypedTexts(meant, layout), <<Blank, "&&", Blank>>)
           ELSE Join(TypedTexts(meant, layout), <<"&&">>)
  BY Zenon DEF Typing, TypedTexts, OneText

\* The texts that are typed are texts.
LEMMA TextsType ==
  ASSUME NEW meant \in Meanings, NEW layout
  PROVE  TypedTexts(meant, layout) \in Seq(Seq(Alphabet))
<1>1. ASSUME NEW k \in 1..Len(meant) PROVE OneText(meant, k, layout) \in Seq(Alphabet)
  <2>0. meant[k] \in MeantIntents(Alphabet)
    BY ElementOfSeq DEF Meanings
  <2>1. meant[k].type \in Seq(Alphabet) /\ meant[k].data \in Seq(Alphabet)
    BY <2>0 DEF MeantIntents
  <2>a. ASSUME NEW A, NEW x \in A PROVE <<x>> \in Seq(A) /\ << >> \in Seq(A)
    OBVIOUS
  <2>2. /\ <<"(">> \in Seq(Alphabet)
        /\ (IF layout = "open" /\ k = Len(meant) THEN << >> ELSE <<")">>) \in Seq(Alphabet)
    BY <2>a, AlphabetTokens, Zenon
  <2>3. ASSUME NEW t \in Seq(Alphabet), NEW o \in Seq(Alphabet), NEW d \in Seq(Alphabet),
               NEW c \in Seq(Alphabet)
        PROVE  t \o o \o d \o c \in Seq(Alphabet)
    OBVIOUS
  <2> QED BY <2>1, <2>2, <2>3, Zenon DEF OneText
<1>2. Len(meant) \in Nat
  BY LenProperties DEF Meanings
<1> QED BY <1>1, <1>2 DEF TypedTexts

\* What is typed between intents and between witnesses is glue.
LEMMA TypedGlue ==
  /\ IsGlue(<<"&&">>, "&&", Alphabet) /\ IsGlue(<<Blank, "&&", Blank>>, "&&", Alphabet)
  /\ IsGlue(<<",">>, ",", Alphabet) /\ IsGlue(<<",", Blank>>, ",", Alphabet)
  /\ <<Blank>> \in Seq(Alphabet) /\ IsBlank(<<Blank>>)
<1>1. Blank \in Alphabet /\ "&&" \in Alphabet /\ "," \in Alphabet
  BY AlphabetTokens
<1>2. ASSUME NEW A, NEW b \in A, b = Blank PROVE <<b>> \in Seq(A) /\ IsBlank(<<b>>)
  BY <1>2 DEF IsBlank
<1> QED BY <1>1, <1>2, Glue, Zenon

\* What is typed is a text.
LEMMA TypingType ==
  ASSUME NEW meant \in Meanings, NEW layout
  PROVE  Typing(meant, layout) \in Seq(Alphabet)
<1> DEFINE ts == TypedTexts(meant, layout)
<1>1. ts \in Seq(Seq(Alphabet))
  BY TextsType
<1>2. \A g : IsGlue(g, "&&", Alphabet) => Join(ts, g) \in Seq(Alphabet)
  <2>1. "&&" \in Alphabet
    BY AlphabetTokens
  <2> QED BY <1>1, <2>1, GlueType, JoinType, Zenon
<1>3. \A t \in Seq(Alphabet) : <<Blank>> \o t \in Seq(Alphabet)
  BY TypedGlue, ConcatType
<1> QED BY <1>2, <1>3, TypedGlue, TypingIs, Zenon

\* A user who means nothing types a string that does not parse.
LEMMA NothingMeant ==
  ASSUME NEW layout
  PROVE  ~ ParsesOk(Typing(<< >>, layout))
<1> DEFINE ts == TypedTexts(<< >>, layout)
<1>1. ts = << >>
  BY DEF TypedTexts
<1>2. << >> \in Seq(Seq(Alphabet)) /\ Len(<< >>) = 0
  OBVIOUS
<1>3. \A g : IsGlue(g, "&&", Alphabet) => Join(<< >>, g) = << >>
  <2>1. "&&" \in Alphabet
    BY AlphabetTokens
  <2>2. ASSUME NEW g \in Seq(Alphabet) PROVE Join(<< >>, g) = << >>
    BY <1>2, JoinDef
  <2> QED BY <2>1, <2>2, GlueType, Zenon
<1>4. Typing(<< >>, layout) = << >> \/ Typing(<< >>, layout) = <<Blank>> \o << >>
  BY <1>1, <1>3, TypedGlue, TypingIs, Zenon
<1>5. <<Blank>> \o << >> = <<Blank>> /\ << >> \in Seq(Alphabet)
  <2>1. ASSUME NEW A, NEW t \in Seq(A) PROVE t \o << >> = t /\ << >> \in Seq(A)
    OBVIOUS
  <2> QED BY <2>1, TypedGlue, Zenon
<1>6. Typing(<< >>, layout) \in Seq(Alphabet) /\ IsBlank(Typing(<< >>, layout))
  BY <1>4, <1>5, TypedGlue, EmptyBlank, Zenon
<1> QED BY <1>6, BlankNotParsed

\* What is typed is what ParsedTexts is about.
LEMMA TypingGlued ==
  ASSUME NEW meant \in Meanings, NEW layout
  PROVE  \E b, g \in Seq(Alphabet) :
           /\ IsBlank(b) /\ IsGlue(g, "&&", Alphabet)
           /\ Typing(meant, layout) = b \o Join(TypedTexts(meant, layout), g)
<1> DEFINE ts == TypedTexts(meant, layout)
<1>1. ts \in Seq(Seq(Alphabet)) /\ ts = TypedTexts(meant, layout)
  BY TextsType
<1> HIDE DEF ts
<1>g. \A g : IsGlue(g, "&&", Alphabet) => g \in Seq(Alphabet)
  BY AlphabetTokens, GlueType, Zenon
<1>2. CASE layout = "spaced"
  <2>1. Typing(meant, layout) = <<Blank>> \o Join(ts, <<Blank, "&&", Blank>>)
    BY <1>1, <1>2, TypingIs, Zenon
  <2> QED BY <1>g, <2>1, TypedGlue, Zenon DEF ts
<1>3. CASE layout # "spaced"
  <2>1. Typing(meant, layout) = Join(ts, <<"&&">>)
    BY <1>1, <1>3, TypingIs, Zenon
  <2>2. Join(ts, <<"&&">>) \in Seq(Alphabet)
    <3>1. "&&" \in Alphabet
      BY AlphabetTokens
    <3> QED BY <1>1, <3>1, TypedGlue, GlueType, JoinType, Zenon
  <2>3. \A t \in Seq(Alphabet) : t = << >> \o t
    OBVIOUS
  <2>4. << >> \in Seq(Alphabet)
    OBVIOUS
  <2>5. Typing(meant, layout) = << >> \o Join(ts, <<"&&">>)
    BY <2>1, <2>2, <2>3, Zenon
  <2> QED BY <1>g, <2>4, <2>5, TypedGlue, EmptyBlank, Zenon DEF ts
<1> QED BY <1>2, <1>3

(***************************************************************************)
(* What is registered                                                      *)
(***************************************************************************)
\* What is left of the intents that were meant, for a string that may be open.
Left(meant, layout) ==
  [k \in 1..Len(meant) |->
     IF layout # "open" \/ k < Len(meant) THEN meant[k]
     ELSE [meant[k] EXCEPT !.data = << >>]]

\* Each text that is typed is a part that parses to what is left of its intent.
LEMMA TypedPart ==
  ASSUME NEW meant \in Seq(Intended(Alphabet)), NEW layout, NEW k \in 1..Len(meant)
  PROVE  /\ Left(meant, layout)[k] \in Intended(Alphabet)
         /\ OneText(meant, k, layout) \in Seq(Alphabet)
         /\ Free(OneText(meant, k, layout), "&&")
         /\ ParsePart(Trim(OneText(meant, k, layout))) = Left(meant, layout)[k]
<1> DEFINE intent == meant[k]
           text == OneText(meant, k, layout)
           left == Left(meant, layout)[k]
<1>1. intent \in Intended(Alphabet)
  BY ElementOfSeq
<1>2. Len(meant) \in Nat /\ k \in Nat /\ k <= Len(meant)
  BY LenProperties
<1>3. CASE layout # "open" \/ k < Len(meant)
  <2>1. text = TextOf(intent.type, intent.data)
    <3>1. ~ (layout = "open" /\ k = Len(meant))
      BY <1>2, <1>3
    <3> QED BY <3>1, Zenon DEF OneText, TextOf
  <2>2. left = intent
    BY <1>3 DEF Left
  <2> QED BY <1>1, <2>1, <2>2, AlphabetTokens, IntendedText, Zenon
<1>4. CASE layout = "open" /\ k = Len(meant)
  <2>1. PICK name \in Alphabet \ Separators, data \in {d \in Seq(Alphabet) : Survives(d)} :
          intent = [type |-> <<name>>, data |-> data]
    BY <1>1 DEF Intended
  <2>2. text = OpenText(<<name>>, data)
    <3>1. intent.type = <<name>> /\ intent.data = data
      BY <2>1
    <3>2. text = OpenText(<<name>>, data) \o << >>
      BY <1>4, <3>1, Zenon DEF OneText, OpenText
    <3>3. ASSUME NEW t \in Seq(Alphabet) PROVE t \o << >> = t
      OBVIOUS
    <3>4. OpenText(<<name>>, data) \in Seq(Alphabet)
      BY <2>1, AlphabetTokens, OpenPart
    <3> QED BY <3>2, <3>3, <3>4, Zenon
  <2>3. left = [type |-> <<name>>, data |-> << >>]
    <3>1. ~ (layout # "open" \/ k < Len(meant))
      BY <1>2, <1>4
    <3>2. left = [intent EXCEPT !.data = << >>]
      BY <3>1 DEF Left
    <3> QED BY <2>1, <3>2
  <2>4. left \in Intended(Alphabet)
    <3>1. << >> \in Seq(Alphabet)
      OBVIOUS
    <3> QED BY <2>3, <3>1, EmptySurvives DEF Intended
  <2> HIDE DEF text, left
  <2>5. /\ text \in Seq(Alphabet) /\ Free(text, "&&")
        /\ ParsePart(Trim(text)) = [type |-> <<name>>, data |-> << >>]
    BY <2>1, <2>2, AlphabetTokens, OpenPart
  <2> QED BY <2>3, <2>4, <2>5, Zenon DEF text, left
<1> QED BY <1>2, <1>3, <1>4

\* The predicate of a command with data that survives.
LEMMA SoundPredicate ==
  ASSUME ClientInv, NEW p \in Encryptors, enc[p].added, Sound(p)
  PROVE  /\ LeftOf(p) \in Seq(Intended(Alphabet)) /\ LeftOf(p) # << >>
         /\ enc[p].intents = Predicate(LeftOf(p))
<1> DEFINE meant == enc[p].meant
<1>1. PICK layout \in Layouts : ParsedFrom(p, layout)
  BY DEF ClientInv, PastParser
<1> DEFINE left == Left(meant, layout)
           ts == TypedTexts(meant, layout)
           n == Len(meant)
<1>2. /\ enc[p].closed = (layout # "open") /\ meant \in Meant[p]
      /\ ParsesOk(Typing(meant, layout))
      /\ enc[p].intents = ParseIntents(Typing(meant, layout))
  BY <1>1 DEF ParsedFrom
<1>3. \A k \in 1..Len(meant) : Survives(meant[k].data)
  BY DEF Sound
<1>l. LeftOf(p) = left
  BY <1>2 DEF LeftOf, Left
<1> HIDE DEF meant
<1>4. meant \in Meanings /\ meant \in Seq(Intended(Alphabet))
  BY <1>2, <1>3, MeantTypes
<1>5. meant # << >> /\ n \in Nat
  BY <1>2, <1>4, NothingMeant, LenProperties
<1>6. ASSUME NEW k \in 1..n
      PROVE  /\ left[k] \in Intended(Alphabet) /\ Free(ts[k], "&&")
             /\ ParsePart(Trim(ts[k])) = left[k]
  <2>1. ts[k] = OneText(meant, k, layout)
    BY DEF TypedTexts
  <2> QED BY <1>4, <2>1, TypedPart, Zenon
<1>7. ts \in Seq(Seq(Alphabet)) /\ Len(ts) = n
  <2>1. Len(ts) = n
    BY <1>5 DEF TypedTexts
  <2> QED BY <1>4, <2>1, TextsType
<1>8. left \in Seq(Intended(Alphabet)) /\ Len(left) = n
  <2>1. left = [k \in 1..n |-> left[k]]
    BY DEF Left
  <2> HIDE DEF left
  <2>2. left \in [1..n -> Intended(Alphabet)]
    BY <1>6, <2>1
  <2> QED BY <1>5, <2>2
<1> HIDE DEF left, ts
<1>9. n # 0
  BY <1>4, <1>5, EmptySeq
<1>10. left # << >> /\ ts # << >>
  BY <1>7, <1>8, <1>9
<1>11. PICK b, g \in Seq(Alphabet) :
        /\ IsBlank(b) /\ IsGlue(g, "&&", Alphabet)
        /\ Typing(meant, layout) = b \o Join(ts, g)
  BY <1>4, TypingGlued DEF ts
<1>12. AllFree(ts, "&&")
  BY <1>6, <1>7 DEF AllFree
<1>13. ParseIntents(b \o Join(ts, g)) = Predicate(left)
  BY <1>6, <1>7, <1>8, <1>10, <1>11, <1>12, AlphabetTokens, ParsedTexts, ZenonT(30)
<1> QED BY <1>l, <1>2, <1>8, <1>10, <1>11, <1>13, Zenon

\* The invariant says what the records hold.
LEMMA ClientTypes == ClientInv => TypeOK
<1> SUFFICES ASSUME ClientInv PROVE TypeOK
  OBVIOUS
<1>1. ASSUME NEW p \in Encryptors, enc[p].pc \in {"add", "register", "done"}
      PROVE  \A k \in 1..Len(enc[p].intents) : enc[p].intents[k].type \in Types
  <2>1. PICK layout \in Layouts : ParsedFrom(p, layout)
    BY <1>1 DEF ClientInv, PastParser
  <2> DEFINE text == Typing(enc[p].meant, layout)
  <2>2. enc[p].meant \in Meanings /\ ParsesOk(text) /\ enc[p].intents = ParseIntents(text)
    BY <2>1, MeantTypes DEF ParsedFrom
  <2>3. text \in Seq(Alphabet)
    BY <2>2, TypingType
  <2> HIDE DEF text
  <2>4. \A k \in 1..Len(ParseIntents(text)) : ParseIntents(text)[k].type \in Types
    BY <2>2, <2>3, ParsedTypes
  <2> QED BY <2>2, <2>4, Zenon
<1>2. ASSUME NEW p \in Encryptors
      PROVE  enc[p].pc \in EncPcs /\ enc[p].closed \in BOOLEAN /\ enc[p].added \in BOOLEAN
  BY DEF ClientInv, Shapes
<1>3. \A q \in Decryptors : dec[q].pc \in DecPcs /\ answers[q] \subseteq AnswerSet
  BY DEF ClientInv, Shapes
<1>4. \A f \in DOMAIN predicate_registry :
        f \in Filenames /\ predicate_registry[f].cid \in Encryptors
  BY DEF ClientInv, Registered, EntryOf
<1>5. docs \subseteq Encryptors /\ pool \subseteq Decryptors /\ nonce \in [Accounts -> Nat]
  BY DEF ClientInv, Shapes
<1> QED BY <1>1, <1>2, <1>3, <1>4, <1>5 DEF TypeOK, EncPcs, DecPcs, AnswerSet

\* The type invariant of the commands, the document and the answers, the types
\* of what parse_intents returned included.
THEOREM ClientTypeOK == Spec => []TypeOK
  BY ClientInvariant, ClientTypes, PTL

\* The entry of a file is the predicate of the one command that registered it.
LEMMA InvRegisteredAsMeant == ClientInv => RegisteredAsMeant
<1> SUFFICES ASSUME ClientInv, NEW f \in DOMAIN predicate_registry
             PROVE  LET entry == predicate_registry[f]
                        p == entry.cid
                    IN /\ enc[p].added /\ FileOf[p] = f
                       /\ Sound(p) => entry.predicate = Predicate(LeftOf(p))
  BY Zenon DEF RegisteredAsMeant, Predicate
<1>1. EntryOf(f)
  BY DEF ClientInv, Registered
<1> QED BY <1>1, SoundPredicate DEF EntryOf

\* What the registry holds for a file is what one command put together, and just
\* the intents its user meant, but for data behind a parenthesis left open
\* (EncryptionClient::encrypt, parse_intents): for every number of commands, every
\* text and every number of intents.
THEOREM ClientRegisteredAsMeant == Spec => []RegisteredAsMeant
  BY ClientInvariant, InvRegisteredAsMeant, PTL

(***************************************************************************)
(* What the passwords decide                                               *)
(***************************************************************************)
DatasOf(meant) == [k \in 1..Len(meant) |-> meant[k].data]

\* The passwords that are meant are texts, one for each intent.
LEMMA DatasType ==
  ASSUME NEW A, NEW meant \in Seq(Intended(A))
  PROVE  /\ DatasOf(meant) \in Seq(Seq(A)) /\ Len(DatasOf(meant)) = Len(meant)
         /\ \A k \in 1..Len(meant) : DatasOf(meant)[k] = meant[k].data
<1>1. Len(meant) \in Nat
  BY LenProperties
<1>2. ASSUME NEW k \in 1..Len(meant) PROVE meant[k].data \in Seq(A)
  <2>1. meant[k] \in Intended(A)
    BY ElementOfSeq
  <2> QED BY <2>1 DEF Intended
<1> QED BY <1>1, <1>2 DEF DatasOf

\* Passwords are passwords, with their data or without.
LEMMA PasswordsLeft ==
  ASSUME NEW p, OnlyPasswords(p)
  PROVE  \A k \in 1..Len(LeftOf(p)) : LeftOf(p)[k].type = <<"Password">>
  BY DEF OnlyPasswords, LeftOf

\* verify_intents takes the passwords, in their order, and nothing else.
LEMMA PasswordsVerified ==
  ASSUME NEW A, NEW meant \in Seq(Intended(A)), NEW ws \in Seq(Seq(A)), NEW chain,
         \A k \in 1..Len(meant) : meant[k].type = <<"Password">>
  PROVE  /\ VerifyIntents(Predicate(meant), ws, chain) \in {"true", "error", "panic"}
         /\ VerifyIntents(Predicate(meant), ws, chain) = "true" <=> ws = DatasOf(meant)
<1> DEFINE n == Len(meant)
           I == Predicate(meant)
           ds == DatasOf(meant)
<1>1. n \in Nat
  BY LenProperties
<1>2. Len(I) = n /\ \A k \in 1..n :
        I[k].type = meant[k].type /\ I[k].statement = Statement(meant[k])
  BY <1>1 DEF Predicate
<1>3. ds \in Seq(Seq(A)) /\ Len(ds) = n /\ \A k \in 1..n : ds[k] = meant[k].data
  BY DatasType
<1> HIDE DEF I, ds
<1>4. ASSUME NEW k \in 1..n
      PROVE  /\ VerifyIntent(I[k], ws[k], chain) \in {"true", "error"}
             /\ VerifyIntent(I[k], ws[k], chain) = "true" <=> ws[k] = ds[k]
  <2>1. Statement(meant[k]) = Sha256(meant[k].data)
    BY DEF Statement
  <2>2. I[k].type = <<"Password">> /\ I[k].statement = Sha256(ds[k])
    <3>1. meant[k].type = <<"Password">> /\ ds[k] = meant[k].data
      BY <1>3
    <3>2. I[k].type = meant[k].type /\ I[k].statement = Statement(meant[k])
      BY <1>2
    <3> QED BY <2>1, <3>1, <3>2, Zenon
  <2> QED BY <2>2, PasswordTaken
<1>5. /\ VerifyIntents(I, ws, chain) = "true" <=>
           Len(ws) = n /\ \A k \in 1..n : VerifyIntent(I[k], ws[k], chain) = "true"
      /\ VerifyIntents(I, ws, chain) \in {"true", "error", "panic"}
  BY <1>1, <1>2, <1>4, VerifiedAll
<1>6. ws = ds <=> Len(ws) = n /\ \A k \in 1..n : ws[k] = ds[k]
  BY <1>3, SeqEqual
<1> QED BY <1>4, <1>5, <1>6 DEF I, ds

\* The witnesses are texts.
LEMMA WitnessesType ==
  ASSUME NEW A, NEW text \in Seq(A)
  PROVE  Witnesses(text) \in Seq(Seq(A))
<1>1. Trim(text) \in Seq(A)
  BY TrimParts
<1>2. Split(Trim(text), ",") \in Seq(Seq(A))
  BY <1>1, SplitType DEF Pieces
<1>3. TrimAll(Split(Trim(text), ",")) \in Seq(Seq(A))
  BY <1>2, TrimAllType, Zenon
<1> QED BY <1>3, TrimmedIsTrimAll, Zenon DEF Witnesses

\* What a decryptor types is text.
LEMMA TypedText ==
  ASSUME ClientInv, NEW q \in Decryptors
  PROVE  dec[q].text \in Seq(Alphabet)
<1>1. dec[q].text \in Typed \cup {<< >>}
  BY DEF ClientInv, Shapes
<1>2. Typed \subseteq Seq(STRING)
  BY ClientTexts
<1>3. << >> \in Seq(STRING)
  OBVIOUS
<1>4. STRING \subseteq Alphabet
  BY DEF Alphabet
<1> QED BY <1>1, <1>2, <1>3, <1>4, WiderSeq, Zenon

\* q asks for the file of p, that is locked with passwords.
ForPasswords(p, q) == Owns(p, q) /\ Sound(p) /\ OnlyPasswords(p)

\* Whether an outcome tells of a verification that went well is decided by
\* whether the witnesses are the passwords.
LEMMA PasswordsOutcome ==
  ASSUME ClientInv, NEW p \in Encryptors, NEW q \in Decryptors, ForPasswords(p, q)
  PROVE  IF Witnesses(dec[q].text) = Datas(p)
         THEN Outcomes(q) \cap Denied = {}
         ELSE Outcomes(q) \cap Granted = {}
<1> DEFINE f == FileOf[q]
           ws == Witnesses(dec[q].text)
           left == LeftOf(p)
           verdict == VerifyIntents(Predicate(left), ws, Chain)
<1>1. f \in DOMAIN predicate_registry /\ predicate_registry[f].cid = p
  BY DEF ForPasswords, Owns, IsFree
<1>2. EntryOf(f)
  BY <1>1 DEF ClientInv, Registered
<1>3. /\ enc[p].added /\ Sound(p)
      /\ predicate_registry[f].predicate = enc[p].intents
  BY <1>1, <1>2 DEF EntryOf, ForPasswords
<1>4. left \in Seq(Intended(Alphabet)) /\ predicate_registry[f].predicate = Predicate(left)
  BY <1>3, SoundPredicate
<1>5. ws \in Seq(Seq(Alphabet))
  BY TypedText, WitnessesType
<1>6. \A k \in 1..Len(left) : left[k].type = <<"Password">>
  BY PasswordsLeft DEF ForPasswords
<1>7. Datas(p) = DatasOf(left)
  BY DEF Datas, DatasOf
<1> HIDE DEF left, ws
<1>8. verdict \in {"true", "error", "panic"} /\ (verdict = "true" <=> ws = Datas(p))
  <2>1. ASSUME NEW chain
        PROVE  /\ VerifyIntents(Predicate(left), ws, chain) \in {"true", "error", "panic"}
               /\ VerifyIntents(Predicate(left), ws, chain) = "true" <=> ws = DatasOf(left)
    BY <1>4, <1>5, <1>6, PasswordsVerified
  <2> QED BY <1>7, <2>1, Zenon
<1>9. Verifications(Predicate(left), ws, Chain) = {verdict}
  <2>1. Len(left) \in Nat
    BY <1>4, LenProperties
  <2>2. Len(Predicate(left)) = Len(left)
        /\ \A k \in 1..Len(left) : Predicate(left)[k].type = left[k].type
    BY <2>1 DEF Predicate
  <2>3. \A k \in 1..Len(Predicate(left)) : Predicate(left)[k].type = <<"Password">>
    BY <1>6, <2>2, Zenon
  <2>4. ASSUME NEW chain
        PROVE  Verifications(Predicate(left), ws, chain)
                 = {VerifyIntents(Predicate(left), ws, chain)}
    BY <2>3, PasswordsOnly
  <2> QED BY <2>4
<1> HIDE DEF verdict
<1>10. Outcomes(q) = {"lookup_panics"} \cup AfterVerdict(verdict, p)
  <2> DEFINE verdicts(predicate) == Verifications(predicate, ws, Chain)
             after(predicate, cid) ==
               UNION {AfterVerdict(v, cid) : v \in verdicts(predicate)}
  <2>0. Outcomes(q) = {"lookup_panics"} \cup
          after(predicate_registry[f].predicate, predicate_registry[f].cid)
    BY <1>1 DEF Outcomes, IsFree, ws
  <2>1. Outcomes(q) = {"lookup_panics"} \cup
          UNION {AfterVerdict(v, p) : v \in {verdict}}
    <3>1. after(Predicate(left), p) = UNION {AfterVerdict(v, p) : v \in {verdict}}
      BY <1>9
    <3> HIDE DEF after
    <3> QED BY <1>1, <1>4, <2>0, <3>1
  <2> QED BY <2>1
<1>11. verdict = "true" => Outcomes(q) \cap Denied = {}
  BY <1>10 DEF AfterVerdict, Denied
<1>12. verdict \in {"error", "panic"} => Outcomes(q) \cap Granted = {}
  BY <1>10 DEF AfterVerdict, Granted
<1> QED BY <1>8, <1>11, <1>12 DEF ws

\* What the witnesses decide of the answers to q: whether the verification went
\* well.  A look-up that fails comes before it and tells nothing of it.
PasswordsDecide ==
  \A q \in Decryptors, p \in Encryptors :
    ForPasswords(p, q) =>
      IF Witnesses(dec[q].text) = Datas(p)
      THEN answers[q] \cap Denied = {}
      ELSE answers[q] \cap Granted = {}

\* While there are answers to q, what they are about does not change.
LEMMA SettledKept ==
  ASSUME ClientInv, [Next]_vars, NEW q \in Decryptors, q \in pool,
         ~ IsFree(FileOf[q])
  PROVE  /\ dec'[q].text = dec[q].text
         /\ ~ IsFree(FileOf[q])'
         /\ predicate_registry'[FileOf[q]] = predicate_registry[FileOf[q]]
         /\ enc'[predicate_registry[FileOf[q]].cid] = enc[predicate_registry[FileOf[q]].cid]
<1> DEFINE f == FileOf[q]
           o == predicate_registry[f].cid
<1>1. Shapes /\ f \in DOMAIN predicate_registry /\ dec[q].pc \in {"wait", "panicked"}
  BY DEF ClientInv, Answered, IsFree
<1>2. o \in Encryptors /\ enc[o].pc \in {"done", "failed"}
  BY <1>1 DEF ClientInv, Registered, EntryOf
<1>3. dec'[q].text = dec[q].text
  <2>1. CASE UNCHANGED dec
    BY <2>1
  <2>2. ASSUME NEW r \in Decryptors, TypeWitness(r) PROVE dec'[q].text = dec[q].text
    BY <1>1, <2>2 DEF TypeWitness, Shapes
  <2>3. ASSUME NEW r \in Decryptors, RequestDecrypt(r) \/ AwaitPartials(r)
        PROVE  dec'[q].text = dec[q].text
    <3>1. PICK pc : dec' = [dec EXCEPT ![r].pc = pc]
      BY <2>3 DEF RequestDecrypt, AwaitPartials
    <3>2. dec \in [Decryptors -> [pc : DecPcs, text : Typed \cup {<< >>}, latest : Nat]]
      BY <1>1 DEF Shapes
    <3>3. dec[q] \in [pc : DecPcs, text : Typed \cup {<< >>}, latest : Nat]
      BY <3>2
    <3>4. dec'[q] = IF q = r THEN [dec[q] EXCEPT !.pc = pc] ELSE dec[q]
      BY <3>1, <3>2
    <3> QED BY <3>3, <3>4
  <2> QED BY <2>1, <2>2, <2>3 DEF Next, vars, client_vars, ParseIntent, AddCiphertext,
        Replicate, Register, RegisterReverts, RegisterFails, Serve
<1>4. /\ f \in DOMAIN predicate_registry'
      /\ predicate_registry'[f] = predicate_registry[f]
  <2>1. CASE UNCHANGED predicate_registry
    BY <1>1, <2>1
  <2>2. ASSUME NEW p \in Encryptors, Register(p)
        PROVE  /\ f \in DOMAIN predicate_registry'
               /\ predicate_registry'[f] = predicate_registry[f]
    BY <1>1, <2>2 DEF Register, register_predicate, IsFree, Insert
  <2> QED BY <2>1, <2>2 DEF Next, vars, registry_vars, ParseIntent, AddCiphertext, Replicate,
        RegisterReverts, RegisterFails, TypeWitness, RequestDecrypt, AwaitPartials, Serve
<1>5. enc'[o] = enc[o]
  <2>1. CASE UNCHANGED enc
    BY <2>1
  <2>2. ASSUME NEW p \in Encryptors, ParseIntent(p) PROVE enc'[o] = enc[o]
    <3>1. enc[p].pc = "parse" /\ \E r : enc' = [enc EXCEPT ![p] = r]
      BY <2>2 DEF ParseIntent
    <3> QED BY <1>1, <1>2, <3>1 DEF Shapes
  <2>3. ASSUME NEW p \in Encryptors,
               \/ AddCiphertext(p) \/ Register(p) \/ RegisterReverts(p) \/ RegisterFails(p)
        PROVE  enc'[o] = enc[o]
    BY <1>1, <1>2, <2>3 DEF AddCiphertext, Register, RegisterReverts, RegisterFails,
         MoveEnc, Shapes
  <2> QED BY <2>1, <2>2, <2>3 DEF Next, vars, client_vars, Replicate, TypeWitness,
        RequestDecrypt, AwaitPartials, Serve
<1> QED BY <1>3, <1>4, <1>5 DEF IsFree

\* Answers come from Serve alone.
LEMMA AnswersStep ==
  ASSUME ClientInv, [Next]_vars, NEW q \in Decryptors
  PROVE  \/ answers'[q] = answers[q]
         \/ q \in pool /\ \E outcome \in Outcomes(q) : answers'[q] = answers[q] \cup {outcome}
<1>1. CASE UNCHANGED answers
  BY <1>1
<1>2. ASSUME NEW r \in Decryptors, Serve(r)
      PROVE  \/ answers'[q] = answers[q]
             \/ q \in pool /\ \E outcome \in Outcomes(q) : answers'[q] = answers[q] \cup {outcome}
  BY <1>2 DEF Serve, ClientInv, Shapes
<1> QED BY <1>1, <1>2 DEF Next, vars, ParseIntent, AddCiphertext, Replicate, Register,
      RegisterReverts, RegisterFails, TypeWitness, RequestDecrypt, AwaitPartials

\* No step gives an answer that the passwords do not decide.
LEMMA PasswordsDecideKept ==
  ASSUME ClientInv, PasswordsDecide, [Next]_vars
  PROVE  PasswordsDecide'
<1> SUFFICES ASSUME NEW q \in Decryptors, NEW p \in Encryptors, ForPasswords(p, q)'
             PROVE  (IF Witnesses(dec[q].text) = Datas(p)
                     THEN answers[q] \cap Denied = {}
                     ELSE answers[q] \cap Granted = {})'
  BY DEF PasswordsDecide
<1>1. \/ answers'[q] = answers[q]
      \/ q \in pool /\ \E outcome \in Outcomes(q) : answers'[q] = answers[q] \cup {outcome}
  BY AnswersStep
<1>2. CASE IsFree(FileOf[q])
  <2>1. /\ answers[q] \subseteq {"lookup_panics", "no_intent"}
        /\ Outcomes(q) \subseteq {"lookup_panics", "no_intent"}
    BY <1>2, OutcomeType DEF ClientInv, Answered
  <2>2. answers'[q] \subseteq {"lookup_panics", "no_intent"}
    BY <1>1, <2>1
  <2>3. answers'[q] \cap Denied = {} /\ answers'[q] \cap Granted = {}
    BY <2>2 DEF Granted, Denied
  <2>4. Denied' = Denied /\ Granted' = Granted
    BY DEF Granted, Denied
  <2> QED BY <2>3, <2>4
<1>3. CASE ~ IsFree(FileOf[q]) /\ q \notin pool
  <2>1. answers[q] = {}
    BY <1>3 DEF ClientInv, Answered
  <2> QED BY <1>1, <1>3, <2>1
<1>4. CASE ~ IsFree(FileOf[q]) /\ q \in pool
  <2> DEFINE f == FileOf[q]
  <2>1. /\ dec'[q].text = dec[q].text
        /\ predicate_registry'[f] = predicate_registry[f]
        /\ enc'[predicate_registry[f].cid] = enc[predicate_registry[f].cid]
    BY <1>4, SettledKept
  <2>2. predicate_registry[f].cid = p
    BY <2>1 DEF ForPasswords, Owns
  <2>3. enc'[p] = enc[p]
    BY <2>1, <2>2
  <2>4. ForPasswords(p, q)
    BY <1>4, <2>2, <2>3 DEF ForPasswords, Owns, Sound, OnlyPasswords
  <2>5. Datas(p)' = Datas(p)
    BY <2>3 DEF Datas, LeftOf
  <2>6. Witnesses(dec[q].text)' = Witnesses(dec[q].text)
    BY <2>1
  <2>7. IF Witnesses(dec[q].text) = Datas(p)
        THEN Outcomes(q) \cap Denied = {}
        ELSE Outcomes(q) \cap Granted = {}
    BY <2>4, PasswordsOutcome
  <2>8. IF Witnesses(dec[q].text) = Datas(p)
        THEN answers[q] \cap Denied = {}
        ELSE answers[q] \cap Granted = {}
    BY <2>4 DEF PasswordsDecide
  <2>9. IF Witnesses(dec[q].text) = Datas(p)
        THEN answers'[q] \cap Denied = {}
        ELSE answers'[q] \cap Granted = {}
    BY <1>1, <2>7, <2>8
  <2> QED BY <2>5, <2>6, <2>9
<1> QED BY <1>2, <1>3, <1>4

\* Whether a request for a file locked with passwords passes verify_intents is
\* decided by whether the pieces of the witness string are the passwords: no node
\* refuses them or panics in the verification, and no node gets past it with
\* others.  The look-up before it and the document after it may still fail a node
\* (process_decryption_request), and then say nothing of the witnesses.
THEOREM ClientPasswordsDecide == Spec => []PasswordsDecide
<1>1. Init => PasswordsDecide
  BY DEF Init, PasswordsDecide
<1>2. ClientInv /\ PasswordsDecide /\ [Next]_vars => PasswordsDecide'
  BY PasswordsDecideKept
<1> QED BY <1>1, <1>2, ClientInvariant, PTL DEF Spec

\* The file of p is one that p registered, so its intents are what was meant.
LEMMA OwnerMeant ==
  ASSUME ClientInv, NEW p \in Encryptors, NEW q \in Decryptors, ForPasswords(p, q)
  PROVE  /\ Datas(p) \in Seq(Seq(Alphabet)) /\ Datas(p) # << >>
<1>1. FileOf[q] \in DOMAIN predicate_registry /\ predicate_registry[FileOf[q]].cid = p
  BY DEF ForPasswords, Owns, IsFree
<1>2. enc[p].added /\ Sound(p)
  BY <1>1 DEF ClientInv, Registered, EntryOf, ForPasswords
<1>3. LeftOf(p) \in Seq(Intended(Alphabet)) /\ LeftOf(p) # << >>
  BY <1>2, SoundPredicate
<1>4. Datas(p) = DatasOf(LeftOf(p))
  BY DEF Datas, DatasOf
<1> DEFINE meant == LeftOf(p)
           ds == DatasOf(meant)
<1> HIDE DEF meant
<1>5. meant \in Seq(Intended(Alphabet)) /\ meant # << >>
  BY <1>3 DEF meant
<1>6. ds \in Seq(Seq(Alphabet)) /\ Len(ds) = Len(meant)
  BY <1>5, DatasType
<1>7. Len(meant) # 0
  BY <1>5, EmptySeq
<1> HIDE DEF ds
<1>8. ds # << >>
  BY <1>6, <1>7
<1> QED BY <1>4, <1>6, <1>8, Zenon DEF ds, meant

\* A witness string whose pieces are the passwords is these with commas, up to
\* blanks.
LEMMA InvServedOnly ==
  ClientInv /\ PasswordsDecide => ServedOnlyForPasswords
<1> SUFFICES ASSUME ClientInv, PasswordsDecide, NEW q \in Decryptors,
                    NEW p \in Encryptors, Owns(p, q), Sound(p), OnlyPasswords(p),
                    answers[q] \cap Granted # {}
             PROVE  Squeeze(dec[q].text)
                      = Join([k \in 1..Len(Datas(p)) |-> Squeeze(Datas(p)[k])], <<",">>)
  BY DEF ServedOnlyForPasswords
<1>1. ForPasswords(p, q)
  BY DEF ForPasswords
<1>2. Witnesses(dec[q].text) = Datas(p)
  BY <1>1 DEF PasswordsDecide
<1>3. Squeeze(dec[q].text) = Join(SqueezeAll(Datas(p)), <<",">>)
  BY <1>1, <1>2, OwnerMeant, TypedText, AlphabetTokens, SqueezeWitnesses
<1> QED BY <1>3, Zenon DEF SqueezeAll

\* A request for a file locked with passwords is served only for these, up to
\* blanks (handle_decrypt's splitting, verify_intents): for every password and
\* every witness string there is.
THEOREM ClientServedOnlyForPasswords == Spec => []ServedOnlyForPasswords
  BY ClientInvariant, ClientPasswordsDecide, InvServedOnly, PTL

\* The passwords with commas between them are the pieces of the string.
LEMMA InvNeverRefused ==
  ClientInv /\ PasswordsDecide => PasswordsNeverRefused
<1> SUFFICES ASSUME ClientInv, PasswordsDecide, NEW q \in Decryptors,
                    NEW p \in Encryptors, Owns(p, q), Sound(p), OnlyPasswords(p),
                    \A k \in 1..Len(Datas(p)) :
                      ~ Contains(Datas(p)[k], ",") /\ Trim(Datas(p)[k]) = Datas(p)[k],
                    dec[q].text \in {Join(Datas(p), <<",">>), Join(Datas(p), <<",", Blank>>)}
             PROVE  answers[q] \cap Denied = {}
  BY DEF PasswordsNeverRefused
<1> DEFINE ds == Datas(p)
<1>1. ForPasswords(p, q)
  BY DEF ForPasswords
<1>2. ds \in Seq(Seq(Alphabet)) /\ ds # << >>
  BY <1>1, OwnerMeant
<1>3. AllFree(ds, ",")
  BY DEF AllFree, Free, Contains
<1>4. TrimAll(ds) = ds
  <2>1. TrimAll(ds) = [k \in 1..Len(ds) |-> ds[k]]
    BY DEF TrimAll
  <2> HIDE DEF ds
  <2>2. ds \in [1..Len(ds) -> Seq(Alphabet)]
    BY <1>2, LenProperties
  <2> QED BY <2>1, <2>2
<1>5. PICK g : IsGlue(g, ",", Alphabet) /\ dec[q].text = Join(ds, g)
  BY TypedGlue, Zenon
<1> HIDE DEF ds
<1>6. Witnesses(Join(ds, g)) = ds
  BY <1>2, <1>3, <1>4, <1>5, AlphabetTokens, WitnessesOfJoin
<1>7. Witnesses(dec[q].text) = Datas(p)
  BY <1>5, <1>6, Zenon DEF ds
<1> QED BY <1>1, <1>7 DEF PasswordsDecide

\* Whoever types the passwords with commas between them passes the verification
\* of every node that comes to it: verify_intents neither refuses them nor panics
\* on them, however many passwords and whatever is in them but commas and blanks
\* at their ends.  What fails a node before the verification or after it is not
\* excluded.
THEOREM ClientPasswordsNeverRefused == Spec => []PasswordsNeverRefused
  BY ClientInvariant, ClientPasswordsDecide, InvNeverRefused, PTL
==============================================================================
