---------------------------- MODULE IntentsProofs ----------------------------
(***************************************************************************)
(* What cutting texts and putting them together does to texts of every     *)
(* length: str::split, str::trim, the parentheses of parse_intent_string,  *)
(* parse_intents and verify_intents (fangorn/src/gadget/mod.rs).           *)
(*                                                                         *)
(* The operators take the last value of a function that goes through the   *)
(* text token by token.  What such a function keeps to is shown by         *)
(* induction over the set of the indices at which it does (NatInd), and    *)
(* what is true of every text over the set of the texts of which it is     *)
(* (AppendInd).                                                            *)
(***************************************************************************)
EXTENDS Intents, SequenceTheorems, NaturalsInduction, WellFoundedInduction, TLAPS

\* A set of numbers has a least one.
LEMMA Least ==
  ASSUME NEW T, T \subseteq Nat, T # {}
  PROVE  \E m \in T : \A k \in T : m <= k
<1> DEFINE R == {ss \in Nat \X Nat : ss[1] < ss[2]}
<1>1. IsWellFoundedOn(R, Nat)
  BY NatLessThanWellFounded DEF OpToRel
<1>2. PICK m \in T : \A k \in T : ~ (<<k, m>> \in R)
  BY <1>1, WFMin
<1>3. ASSUME NEW k \in T PROVE m <= k
  <2>1. m \in Nat /\ k \in Nat /\ ~ (<<k, m>> \in R)
    BY <1>2
  <2>2. ~ (k < m)
    BY <2>1
  <2> QED BY <2>1, <2>2
<1> QED BY <1>3

\* Induction, over a set in place of a predicate.
LEMMA NatInd ==
  ASSUME NEW T, 0 \in T, \A n \in Nat : n \in T => n + 1 \in T
  PROVE  Nat \subseteq T
<1> SUFFICES ASSUME Nat \ T # {} PROVE FALSE
  OBVIOUS
<1>1. PICK m \in Nat \ T : \A k \in Nat \ T : m <= k
  BY Least
<1>2. m # 0 /\ m - 1 \in Nat
  BY <1>1
<1>3. m - 1 \in T
  BY <1>1, <1>2
<1>4. m - 1 + 1 \in T
  BY <1>2, <1>3
<1> QED BY <1>1, <1>2, <1>4

\* Induction over texts that grow at their end.
LEMMA AppendInd ==
  ASSUME NEW A, NEW T, << >> \in T,
         \A s \in Seq(A), e \in A : s \in T => Append(s, e) \in T
  PROVE  Seq(A) \subseteq T
<1> DEFINE N == {n \in Nat : \A s \in Seq(A) : Len(s) = n => s \in T}
<1>1. 0 \in N
  OBVIOUS
<1>2. ASSUME NEW n \in Nat, n \in N PROVE n + 1 \in N
  <2> SUFFICES ASSUME NEW s \in Seq(A), Len(s) = n + 1 PROVE s \in T
    OBVIOUS
  <2>1. PICK r \in Seq(A), e \in A : s = Append(r, e)
    <3> DEFINE r == [i \in 1..n |-> s[i]]
    <3>1. r \in Seq(A) /\ s[n + 1] \in A
      OBVIOUS
    <3>2. s = Append(r, s[n + 1])
      OBVIOUS
    <3> QED BY <3>1, <3>2
  <2>2. Len(r) = n
    BY <2>1
  <2>3. r \in T
    BY <1>2, <2>2
  <2> QED BY <2>1, <2>3
<1> HIDE DEF N
<1>3. Nat \subseteq N
  BY <1>1, <1>2, NatInd
<1> QED BY <1>3 DEF N

\* f takes n steps from init.
IsScan(f, n, S, init, step) ==
  /\ f \in [0..n -> S]
  /\ f[0] = init
  /\ \A i \in 1..n : f[i] = step[<<i, f[i - 1]>>]

\* There is such a function.
LEMMA RecursionExists ==
  ASSUME NEW n \in Nat, NEW S, NEW init \in S, NEW step \in [(1..n) \X S -> S]
  PROVE  \E f : IsScan(f, n, S, init, step)
<1> DEFINE Good(m) == \E f \in [0..m -> S] :
             f[0] = init /\ \A i \in 1..m : f[i] = step[<<i, f[i - 1]>>]
           N == {m \in Nat : m <= n => Good(m)}
<1>1. 0 \in N
  <2> DEFINE f == [i \in 0..0 |-> init]
  <2>1. f \in [0..0 -> S] /\ f[0] = init /\ 1..0 = {}
    OBVIOUS
  <2>2. Good(0)
    BY <2>1
  <2> QED BY <2>2
<1>2. ASSUME NEW m \in Nat, m \in N PROVE m + 1 \in N
  <2> SUFFICES ASSUME m + 1 <= n PROVE Good(m + 1)
    OBVIOUS
  <2>1. PICK f \in [0..m -> S] :
             f[0] = init /\ \A i \in 1..m : f[i] = step[<<i, f[i - 1]>>]
    BY <1>2
  <2> DEFINE v == step[<<m + 1, f[m]>>]
             g == [i \in 0..(m + 1) |-> IF i = m + 1 THEN v ELSE f[i]]
  <2>2. v \in S
    <3>1. <<m + 1, f[m]>> \in (1..n) \X S
      OBVIOUS
    <3> QED BY <3>1
  <2>3. g \in [0..(m + 1) -> S]
    BY <2>2
  <2>4. g[0] = init
    BY <2>1
  <2>5. ASSUME NEW i \in 1..(m + 1) PROVE g[i] = step[<<i, g[i - 1]>>]
    <3>1. CASE i = m + 1
      <4>1. g[i] = v /\ g[i - 1] = f[m]
        BY <3>1
      <4> QED BY <4>1, <3>1
    <3>2. CASE i # m + 1
      <4>1. i \in 1..m /\ i - 1 \in 0..m
        BY <3>2
      <4>2. g[i] = f[i] /\ g[i - 1] = f[i - 1]
        BY <4>1
      <4> QED BY <4>1, <4>2, <2>1
    <3> QED BY <3>1, <3>2
  <2> QED BY <2>3, <2>4, <2>5
<1> HIDE DEF N
<1>3. Nat \subseteq N
  BY <1>1, <1>2, NatInd
<1> QED BY <1>3 DEF N, IsScan

(***************************************************************************)
(* Split                                                                   *)
(***************************************************************************)
Pieces(A) == Seq(Seq(A)) \ {<< >>}

\* Front and Last take apart what Append put together.
LEMMA FrontLast ==
  ASSUME NEW S, NEW fs \in Seq(S), NEW x \in S
  PROVE  Front(Append(fs, x)) = fs /\ Last(Append(fs, x)) = x
  BY DEF Front, Last

\* There is a last piece, so what is true of fs with x behind it is true of all.
LEMMA LastPiece ==
  ASSUME NEW A, NEW ps \in Pieces(A)
  PROVE  \E fs \in Seq(Seq(A)), x \in Seq(A) : ps = Append(fs, x)
  BY SequenceEmptyOrAppend DEF Pieces

\* A piece more is a piece at least.
LEMMA AppendPieces ==
  ASSUME NEW A, NEW ps \in Seq(Seq(A)), NEW y \in Seq(A)
  PROVE  Append(ps, y) \in Pieces(A)
<1>1. Append(ps, y) \in Seq(Seq(A)) /\ Append(ps, y) # << >>
  BY AppendProperties
<1> QED BY <1>1, Zenon DEF Pieces

\* A separator starts an empty piece.
LEMMA ExtendedSep ==
  ASSUME NEW ps, NEW sep
  PROVE  Extended(ps, sep, sep) = Append(ps, << >>)
  BY DEF Extended

\* Any other token goes behind the last piece.
LEMMA ExtendedLast ==
  ASSUME NEW A, NEW fs \in Seq(Seq(A)), NEW x \in Seq(A), NEW c, NEW sep, c # sep
  PROVE  Extended(Append(fs, x), c, sep) = Append(fs, Append(x, c))
<1>1. Front(Append(fs, x)) = fs /\ Last(Append(fs, x)) = x
  BY FrontLast
<1> QED BY <1>1, Zenon DEF Extended

\* There is still a piece after a token.
LEMMA ExtendedType ==
  ASSUME NEW A, NEW pieces \in Pieces(A), NEW c \in A, NEW sep
  PROVE  Extended(pieces, c, sep) \in Pieces(A)
<1>1. PICK fs \in Seq(Seq(A)), x \in Seq(A) : pieces = Append(fs, x)
  BY LastPiece
<1>2. ASSUME NEW ps \in Seq(Seq(A)), NEW y \in Seq(A)
      PROVE  Append(ps, y) \in Pieces(A)
  BY AppendPieces
<1>3. pieces \in Seq(Seq(A)) /\ << >> \in Seq(A) /\ Append(x, c) \in Seq(A)
  BY DEF Pieces
<1>4. CASE c = sep
  BY <1>2, <1>3, <1>4, ExtendedSep, Zenon
<1>5. CASE c # sep
  <2>1. Extended(pieces, c, sep) = Append(fs, Append(x, c))
    BY <1>1, <1>5, ExtendedLast
  <2> QED BY <1>2, <1>3, <2>1, Zenon
<1> QED BY <1>4, <1>5

\* The function of which Split takes the last value.
SplitFn(text, sep) ==
  CHOOSE f : f = [i \in 0..Len(text) |->
    IF i = 0 THEN << << >> >> ELSE Extended(f[i - 1], text[i], sep)]

\* Split takes the last value of a function that extends the pieces a token at
\* a time.
LEMMA SplitDef ==
  ASSUME NEW A, NEW text \in Seq(A), NEW sep
  PROVE  /\ Split(text, sep) = SplitFn(text, sep)[Len(text)]
         /\ SplitFn(text, sep)[0] = << << >> >>
         /\ \A i \in 1..Len(text) : SplitFn(text, sep)[i]
              = Extended(SplitFn(text, sep)[i - 1], text[i], sep)
<1> DEFINE n == Len(text)
           init == << << >> >>
           step == [p \in (1..n) \X Pieces(A) |-> Extended(p[2], text[p[1]], sep)]
<1>1. n \in Nat /\ init \in Pieces(A)
  BY DEF Pieces
<1>2. step \in [(1..n) \X Pieces(A) -> Pieces(A)]
  BY ExtendedType
<1>3. PICK f : IsScan(f, n, Pieces(A), init, step)
  <2> HIDE DEF n, init, step
  <2> QED BY <1>1, <1>2, RecursionExists
<1>4. ASSUME NEW i \in 1..n PROVE f[i] = Extended(f[i - 1], text[i], sep)
  <2>1. i - 1 \in 0..n
    BY <1>1
  <2>2. f[i - 1] \in Pieces(A) /\ f[i] = step[<<i, f[i - 1]>>]
    BY <1>3, <2>1 DEF IsScan
  <2> QED BY <2>2
<1>5. f = [i \in 0..n |-> IF i = 0 THEN init ELSE Extended(f[i - 1], text[i], sep)]
  <2>1. \A i \in 0..n : i = 0 \/ i \in 1..n
    BY <1>1
  <2> HIDE DEF init
  <2> QED BY <1>3, <1>4, <2>1 DEF IsScan
<1>6. SplitFn(text, sep) = [i \in 0..n |->
        IF i = 0 THEN init ELSE Extended(SplitFn(text, sep)[i - 1], text[i], sep)]
  BY <1>5 DEF SplitFn
<1>7. Split(text, sep) = SplitFn(text, sep)[n]
  BY DEF Split, SplitFn
<1> HIDE DEF init
<1>8. \A i \in 1..n : i # 0 /\ i \in 0..n
  BY <1>1
<1>9. 0 \in 0..n
  BY <1>1
<1> QED BY <1>6, <1>7, <1>8, <1>9 DEF init

\* What Split makes of the empty text.
LEMMA SplitEmpty ==
  ASSUME NEW sep
  PROVE  Split(<< >>, sep) = << << >> >>
<1>1. << >> \in Seq({}) /\ Len(<< >>) = 0
  OBVIOUS
<1> QED BY <1>1, SplitDef

\* What it makes of one token more.
LEMMA SplitAppend ==
  ASSUME NEW A, NEW sep, NEW text \in Seq(A), NEW c \in A
  PROVE  Split(Append(text, c), sep) = Extended(Split(text, sep), c, sep)
<1> DEFINE longer == Append(text, c)
           n == Len(text)
           f == SplitFn(text, sep)
           g == SplitFn(longer, sep)
           T == {i \in Nat : i <= n => f[i] = g[i]}
<1>1. longer \in Seq(A) /\ Len(longer) = n + 1 /\ longer[n + 1] = c /\ n \in Nat
      /\ \A i \in 1..n : longer[i] = text[i]
  OBVIOUS
<1>2. f[0] = << << >> >> /\ g[0] = << << >> >>
  BY <1>1, SplitDef
<1>3. \A i \in 1..n : f[i] = Extended(f[i - 1], text[i], sep)
  BY <1>1, SplitDef
<1>4. \A i \in 1..(n + 1) : g[i] = Extended(g[i - 1], longer[i], sep)
  BY <1>1, SplitDef
<1> HIDE DEF f, g, longer, n
<1>5. ASSUME NEW i \in Nat, i \in T PROVE i + 1 \in T
  <2> SUFFICES ASSUME i + 1 <= n PROVE f[i + 1] = g[i + 1]
    OBVIOUS
  <2>1. f[i + 1] = Extended(f[i], text[i + 1], sep)
    BY <1>1, <1>3
  <2>2. g[i + 1] = Extended(g[i], longer[i + 1], sep)
    BY <1>1, <1>4
  <2> QED BY <1>1, <1>5, <2>1, <2>2
<1>6. 0 \in T
  BY <1>2
<1> HIDE DEF T
<1>7. n \in T
  BY <1>1, <1>5, <1>6, NatInd
<1>8. g[n + 1] = Extended(f[n], c, sep)
  BY <1>1, <1>4, <1>7 DEF T
<1> QED BY <1>1, <1>8, SplitDef DEF f, g, n, longer

\* There is always a piece.
LEMMA SplitType ==
  ASSUME NEW A, NEW sep, NEW text \in Seq(A)
  PROVE  Split(text, sep) \in Pieces(A)
<1> DEFINE T == {t \in Seq(A) : Split(t, sep) \in Pieces(A)}
<1>1. << >> \in T
  <2>1. << << >> >> \in Pieces(A) /\ << >> \in Seq(A)
    BY DEF Pieces
  <2> QED BY <2>1, SplitEmpty
<1>2. ASSUME NEW t \in Seq(A), NEW c \in A, t \in T PROVE Append(t, c) \in T
  <2>1. Append(t, c) \in Seq(A)
    OBVIOUS
  <2>2. Split(Append(t, c), sep) \in Pieces(A)
    BY <1>2, SplitAppend, ExtendedType, Zenon
  <2> QED BY <2>1, <2>2
<1> HIDE DEF T
<1>3. Seq(A) \subseteq T
  BY <1>1, <1>2, AppendInd
<1> QED BY <1>3 DEF T

\* Pieces with a text added to the last of them.
Behind(pieces, w) == Append(Front(pieces), Last(pieces) \o w)

\* What is put behind the pieces is behind the last of them.
LEMMA BehindLast ==
  ASSUME NEW A, NEW fs \in Seq(Seq(A)), NEW x \in Seq(A), NEW w \in Seq(A)
  PROVE  Behind(Append(fs, x), w) = Append(fs, x \o w)
<1>1. Front(Append(fs, x)) = fs /\ Last(Append(fs, x)) = x
  BY FrontLast
<1> QED BY <1>1, Zenon DEF Behind

\* A token can be put behind before or after the texts are put together.
LEMMA ConcatAppend ==
  ASSUME NEW A, NEW v \in Seq(A), NEW w \in Seq(A), NEW c \in A
  PROVE  /\ v \o Append(w, c) = Append(v \o w, c)
         /\ v \o w \in Seq(A)
         /\ Append(w, c) \in Seq(A)
  OBVIOUS

Free(text, sep) == \A i \in 1..Len(text) : text[i] # sep

\* A text without the separator, and its last token.
LEMMA FreeAppend ==
  ASSUME NEW A, NEW w \in Seq(A), NEW c \in A, NEW sep, Free(Append(w, c), sep)
  PROVE  Free(w, sep) /\ c # sep
<1>1. \A i \in 1..Len(w) : Append(w, c)[i] = w[i] /\ i \in 1..Len(Append(w, c))
  OBVIOUS
<1>2. Append(w, c)[Len(w) + 1] = c /\ Len(w) + 1 \in 1..Len(Append(w, c))
  OBVIOUS
<1> QED BY <1>1, <1>2 DEF Free

\* A text without the separator goes to the last piece of what is before it.
LEMMA SplitPlain ==
  ASSUME NEW A, NEW sep, NEW v \in Seq(A), NEW w \in Seq(A), Free(w, sep)
  PROVE  Split(v \o w, sep) = Behind(Split(v, sep), w)
<1> DEFINE T == {u \in Seq(A) :
             Free(u, sep) => Split(v \o u, sep) = Behind(Split(v, sep), u)}
<1>0. Split(v, sep) \in Pieces(A)
  BY SplitType
<1>1. PICK fs \in Seq(Seq(A)), x \in Seq(A) : Split(v, sep) = Append(fs, x)
  BY <1>0, LastPiece, Zenon
<1>2. << >> \in T
  <2>1. v \o << >> = v /\ x \o << >> = x /\ << >> \in Seq(A)
    OBVIOUS
  <2>2. Behind(Append(fs, x), << >>) = Append(fs, x \o << >>)
    BY <2>1, BehindLast
  <2> QED BY <1>1, <2>1, <2>2, Zenon
<1>3. ASSUME NEW u \in Seq(A), NEW c \in A, u \in T PROVE Append(u, c) \in T
  <2> SUFFICES ASSUME Free(Append(u, c), sep)
               PROVE  Split(v \o Append(u, c), sep)
                        = Behind(Split(v, sep), Append(u, c))
    BY ConcatAppend
  <2>1. Free(u, sep) /\ c # sep
    BY FreeAppend
  <2>2. v \o Append(u, c) = Append(v \o u, c) /\ v \o u \in Seq(A)
    BY ConcatAppend
  <2>3. x \o Append(u, c) = Append(x \o u, c) /\ x \o u \in Seq(A)
    BY ConcatAppend
  <2>4. Split(v \o u, sep) = Append(fs, x \o u)
    BY <1>1, <1>3, <2>1, BehindLast, Zenon
  <2>5. Split(Append(v \o u, c), sep) = Extended(Append(fs, x \o u), c, sep)
    BY <2>2, <2>4, SplitAppend, Zenon
  <2>6. ASSUME NEW y \in Seq(A)
        PROVE  Extended(Append(fs, y), c, sep) = Append(fs, Append(y, c))
    BY <2>1, ExtendedLast
  <2>7. Behind(Append(fs, x), Append(u, c)) = Append(fs, x \o Append(u, c))
    <3>1. Append(u, c) \in Seq(A)
      OBVIOUS
    <3> QED BY <3>1, BehindLast, Zenon
  <2> QED BY <1>1, <2>2, <2>3, <2>5, <2>6, <2>7, Zenon
<1> HIDE DEF T
<1>4. Seq(A) \subseteq T
  BY <1>2, <1>3, AppendInd
<1> QED BY <1>4 DEF T

\* A text without the separator is one piece.
LEMMA SplitFree ==
  ASSUME NEW A, NEW sep, NEW w \in Seq(A), Free(w, sep)
  PROVE  Split(w, sep) = <<w>>
<1>1. << >> \o w = w /\ << >> \in Seq(A) /\ << >> \in Seq(Seq(A))
      /\ << << >> >> = Append(<< >>, << >>) /\ Append(<< >>, w) = <<w>>
  OBVIOUS
<1>2. Split(<< >> \o w, sep) = Behind(Split(<< >>, sep), w)
  BY <1>1, SplitPlain, Zenon
<1>3. Behind(Append(<< >>, << >>), w) = Append(<< >>, << >> \o w)
  BY <1>1, BehindLast, Zenon
<1> QED BY <1>1, <1>2, <1>3, SplitEmpty, Zenon

\* A separator parts the pieces before it from those behind it.
LEMMA SplitAt ==
  ASSUME NEW A, NEW sep \in A, NEW v \in Seq(A), NEW w \in Seq(A)
  PROVE  Split(Append(v, sep) \o w, sep) = Split(v, sep) \o Split(w, sep)
<1> DEFINE ps == Split(v, sep)
           vs == Append(v, sep)
           T == {u \in Seq(A) : Split(vs \o u, sep) = ps \o Split(u, sep)}
<1>1. vs \in Seq(A) /\ Split(vs, sep) = Extended(ps, sep, sep)
  BY SplitAppend
<1>3. ps \in Seq(Seq(A))
  BY SplitType DEF Pieces
<1> HIDE DEF ps, vs
<1>4. << >> \in T
  <2>1. vs \o << >> = vs /\ << >> \in Seq(A)
    BY <1>1
  <2>2. Extended(ps, sep, sep) = Append(ps, << >>)
    BY ExtendedSep
  <2>3. Append(ps, << >>) = ps \o << << >> >>
    BY <1>3
  <2> QED BY <1>1, <2>1, <2>2, <2>3, SplitEmpty, Zenon
<1>5. ASSUME NEW u \in Seq(A), NEW c \in A, u \in T PROVE Append(u, c) \in T
  <2> DEFINE qs == Split(u, sep)
  <2>1. vs \o Append(u, c) = Append(vs \o u, c) /\ vs \o u \in Seq(A)
        /\ Append(u, c) \in Seq(A)
    BY <1>1, ConcatAppend
  <2>2. Split(Append(vs \o u, c), sep) = Extended(ps \o qs, c, sep)
    BY <1>5, <2>1, SplitAppend, Zenon
  <2>3. Split(Append(u, c), sep) = Extended(qs, c, sep)
    BY SplitAppend
  <2>4. qs \in Pieces(A)
    BY SplitType
  <2> HIDE DEF qs
  <2>5. PICK gs \in Seq(Seq(A)), y \in Seq(A) : qs = Append(gs, y)
    BY <2>4, LastPiece, Zenon
  <2>6. /\ ps \o Append(gs, y) = Append(ps \o gs, y)
        /\ ps \o gs \in Seq(Seq(A)) /\ Append(gs, y) \in Seq(Seq(A))
    BY <1>3, ConcatAppend
  <2>7. ps \o Append(gs, Append(y, c)) = Append(ps \o gs, Append(y, c))
    BY <1>3, ConcatAppend, SMTT(30)
  <2>8. qs \in Seq(Seq(A)) /\ << >> \in Seq(A)
    BY <2>4 DEF Pieces
  <2>9. Extended(ps \o qs, c, sep) = ps \o Extended(qs, c, sep)
    <3>1. CASE c = sep
      <4>1. ps \o Append(qs, << >>) = Append(ps \o qs, << >>)
        BY <1>3, <2>8, ConcatAppend, SMTT(30)
      <4> QED BY <3>1, <4>1, ExtendedSep, Zenon
    <3>2. CASE c # sep
      <4>1. Extended(Append(gs, y), c, sep) = Append(gs, Append(y, c))
        BY <3>2, ExtendedLast
      <4>2. ASSUME NEW hs \in Seq(Seq(A))
            PROVE  Extended(Append(hs, y), c, sep) = Append(hs, Append(y, c))
        BY <3>2, ExtendedLast
      <4> QED BY <2>5, <2>6, <2>7, <4>1, <4>2, Zenon
    <3> QED BY <3>1, <3>2
  <2> QED BY <2>1, <2>2, <2>3, <2>9, Zenon DEF qs
<1> HIDE DEF T
<1>6. Seq(A) \subseteq T
  BY <1>4, <1>5, AppendInd
<1> QED BY <1>6 DEF T, ps, vs

\* The pieces qs are the pieces ps, but for w before the first.
Widened(ps, w, qs, A) ==
  \E x \in Seq(A), gs \in Seq(Seq(A)) :
    ps = <<x>> \o gs /\ qs = <<w \o x>> \o gs

\* A text without the separator goes to the first piece of what is behind it.
LEMMA SplitBehind ==
  ASSUME NEW A, NEW sep, NEW w \in Seq(A), NEW v \in Seq(A), Free(w, sep)
  PROVE  Widened(Split(v, sep), w, Split(w \o v, sep), A)
<1> DEFINE Good(u) == \E x \in Seq(A), gs \in Seq(Seq(A)) :
             /\ Split(u, sep) = <<x>> \o gs
             /\ Split(w \o u, sep) = <<w \o x>> \o gs
           T == {u \in Seq(A) : Good(u)}
<1>1. << >> \in T
  <2>1. w \o << >> = w /\ << >> \in Seq(A) /\ << >> \in Seq(Seq(A))
        /\ << << >> >> = << << >> >> \o << >> /\ <<w>> = <<w>> \o << >>
    OBVIOUS
  <2>2. Split(w, sep) = <<w>>
    BY SplitFree
  <2>3. Split(<< >>, sep) = << << >> >>
    BY SplitEmpty
  <2>4. /\ Split(<< >>, sep) = << << >> >> \o << >>
        /\ Split(w \o << >>, sep) = <<w \o << >> >> \o << >>
    BY <2>1, <2>2, <2>3, Zenon
  <2>5. Good(<< >>)
    BY <2>1, <2>4, Zenon
  <2> QED BY <2>1, <2>5
<1>2. ASSUME NEW u \in Seq(A), NEW c \in A, u \in T PROVE Append(u, c) \in T
  <2>0. Good(u) /\ Append(u, c) \in Seq(A)
    BY <1>2, ConcatAppend, Zenon
  <2>1. PICK x \in Seq(A), gs \in Seq(Seq(A)) :
           /\ Split(u, sep) = <<x>> \o gs
           /\ Split(w \o u, sep) = <<w \o x>> \o gs
    BY <2>0, Zenon
  <2>2. w \o Append(u, c) = Append(w \o u, c) /\ w \o u \in Seq(A)
    BY ConcatAppend
  <2>3. /\ Split(Append(u, c), sep) = Extended(<<x>> \o gs, c, sep)
        /\ Split(w \o Append(u, c), sep) = Extended(<<w \o x>> \o gs, c, sep)
    BY <2>1, <2>2, SplitAppend, Zenon
  <2>4. w \o x \in Seq(A) /\ << >> \in Seq(A)
    OBVIOUS
  <2>5. CASE c = sep
    <3>1. ASSUME NEW y \in Seq(A)
          PROVE  Extended(<<y>> \o gs, c, sep) = <<y>> \o Append(gs, << >>)
      <4>1. <<y>> \o Append(gs, << >>) = Append(<<y>> \o gs, << >>)
        BY SMTT(30)
      <4> QED BY <2>5, <4>1, ExtendedSep, Zenon
    <3>2. Append(gs, << >>) \in Seq(Seq(A))
      OBVIOUS
    <3> QED BY <2>0, <2>3, <2>4, <3>1, <3>2, Zenon
  <2>6. CASE c # sep /\ gs = << >>
    <3>1. ASSUME NEW y \in Seq(A)
          PROVE  Extended(<<y>> \o gs, c, sep) = <<Append(y, c)>> \o << >>
      <4>1. <<y>> \o gs = Append(<< >>, y) /\ << >> \in Seq(Seq(A))
        BY <2>6
      <4>2. <<Append(y, c)>> \o << >> = Append(<< >>, Append(y, c))
        OBVIOUS
      <4>3. ASSUME NEW fs \in Seq(Seq(A))
            PROVE  Extended(Append(fs, y), c, sep) = Append(fs, Append(y, c))
        BY <2>6, ExtendedLast
      <4> QED BY <4>1, <4>2, <4>3, Zenon
    <3>2. Append(x, c) \in Seq(A) /\ w \o Append(x, c) = Append(w \o x, c)
      BY ConcatAppend
    <3>3. << >> \in Seq(Seq(A))
      OBVIOUS
    <3> QED BY <2>0, <2>3, <2>4, <3>1, <3>2, <3>3, Zenon
  <2>7. CASE c # sep /\ gs # << >>
    <3>1. PICK hs \in Seq(Seq(A)), z \in Seq(A) : gs = Append(hs, z)
      BY <2>7, SequenceEmptyOrAppend, Zenon
    <3>2. Append(hs, Append(z, c)) \in Seq(Seq(A))
      OBVIOUS
    <3>3. ASSUME NEW y \in Seq(A)
          PROVE  Extended(<<y>> \o gs, c, sep) = <<y>> \o Append(hs, Append(z, c))
      <4>0. <<y>> \in Seq(Seq(A))
        OBVIOUS
      <4>1. /\ <<y>> \o Append(hs, z) = Append(<<y>> \o hs, z)
            /\ <<y>> \o hs \in Seq(Seq(A))
        BY <4>0, ConcatAppend, SMTT(30)
      <4>2. <<y>> \o Append(hs, Append(z, c)) = Append(<<y>> \o hs, Append(z, c))
        BY SMTT(30)
      <4>3. ASSUME NEW fs \in Seq(Seq(A))
            PROVE  Extended(Append(fs, z), c, sep) = Append(fs, Append(z, c))
        BY <2>7, ExtendedLast, SMTT(30)
      <4> QED BY <3>1, <4>1, <4>2, <4>3, Zenon
    <3> QED BY <2>0, <2>3, <2>4, <3>2, <3>3, Zenon
  <2> QED BY <2>5, <2>6, <2>7, Zenon
<1> HIDE DEF T
<1>3. Seq(A) \subseteq T
  BY <1>1, <1>2, AppendInd
<1> QED BY <1>3, Zenon DEF T, Widened

(***************************************************************************)
(* Trim                                                                    *)
(***************************************************************************)
LEMMA MinIs ==
  ASSUME NEW S, S \subseteq Int, NEW m \in S, \A k \in S : m <= k
  PROVE  Min(S) = m
<1>1. Min(S) \in S /\ \A k \in S : Min(S) <= k
  BY DEF Min
<1>2. Min(S) <= m /\ m <= Min(S) /\ Min(S) \in Int /\ m \in Int
  BY <1>1
<1> QED BY <1>2

\* The greatest of a set, by what it is.
LEMMA MaxIs ==
  ASSUME NEW S, S \subseteq Int, NEW m \in S, \A k \in S : k <= m
  PROVE  Max(S) = m
<1>1. Max(S) \in S /\ \A k \in S : Max(S) >= k
  BY DEF Max
<1>2. Max(S) >= m /\ m >= Max(S) /\ Max(S) \in Int /\ m \in Int
  BY <1>1
<1> QED BY <1>2

\* A set of numbers up to n has a greatest one.
LEMMA Greatest ==
  ASSUME NEW n \in Nat, NEW S, S \subseteq 1..n, S # {}
  PROVE  \E m \in S : \A k \in S : k <= m
<1> DEFINE T == {i \in Nat : n - i \in S}
<1>1. PICK s \in S : TRUE
  OBVIOUS
<1>2. n - s \in T
  <2>1. s \in Int /\ s <= n /\ n - s \in Nat /\ n - (n - s) = s
    BY <1>1
  <2> QED BY <2>1
<1>3. PICK i \in T : \A k \in T : i <= k
  <2> HIDE DEF T
  <2>1. T \subseteq Nat
    BY DEF T
  <2> QED BY <1>2, <2>1, Least
<1>4. n - i \in S /\ i \in Nat
  BY <1>3
<1>5. ASSUME NEW k \in S PROVE k <= n - i
  <2>1. k \in Int /\ n - k \in Nat /\ n - (n - k) = k
    OBVIOUS
  <2>2. i <= n - k
    BY <1>3, <2>1
  <2> QED BY <1>4, <2>1, <2>2
<1> QED BY <1>4, <1>5

IsBlank(text) == \A i \in 1..Len(text) : text[i] = Blank

\* There are no blanks at the ends.
Inked(x) == x # << >> => x[1] # Blank /\ x[Len(x)] # Blank

\* The tokens of two texts, and of three, in a row.
LEMMA TwoTexts ==
  ASSUME NEW A, NEW y \in Seq(A), NEW w \in Seq(A)
  PROVE  /\ y \o w \in Seq(A)
         /\ Len(y \o w) = Len(y) + Len(w)
         /\ \A i \in 1..Len(y) : (y \o w)[i] = y[i]
         /\ \A i \in 1..Len(w) : (y \o w)[Len(y) + i] = w[i]
  OBVIOUS

\* The same of three texts.
LEMMA ThreeTexts ==
  ASSUME NEW A, NEW u \in Seq(A), NEW x \in Seq(A), NEW w \in Seq(A)
  PROVE  /\ (u \o x) \o w \in Seq(A)
         /\ Len((u \o x) \o w) = Len(u) + Len(x) + Len(w)
         /\ \A i \in 1..Len(u) : ((u \o x) \o w)[i] = u[i]
         /\ \A i \in 1..Len(x) : ((u \o x) \o w)[Len(u) + i] = x[i]
         /\ \A i \in 1..Len(w) : ((u \o x) \o w)[Len(u) + Len(x) + i] = w[i]
<1> DEFINE y == u \o x
<1>0. y \in Seq(A)
  OBVIOUS
<1>1. y \in Seq(A) /\ Len(y) = Len(u) + Len(x)
      /\ (\A i \in 1..Len(u) : y[i] = u[i])
      /\ (\A i \in 1..Len(x) : y[Len(u) + i] = x[i])
  BY TwoTexts
<1> HIDE DEF y
<1>2. y \o w \in Seq(A) /\ Len(y \o w) = Len(y) + Len(w)
      /\ (\A i \in 1..Len(y) : (y \o w)[i] = y[i])
      /\ (\A i \in 1..Len(w) : (y \o w)[Len(y) + i] = w[i])
  BY <1>0, TwoTexts
<1> DEFINE z == y \o w
<1>3. z \in Seq(A) /\ Len(z) = Len(y) + Len(w)
      /\ (\A i \in 1..Len(y) : z[i] = y[i])
      /\ (\A i \in 1..Len(w) : z[Len(y) + i] = w[i])
  BY <1>2
<1>4. Len(u) \in Nat /\ Len(x) \in Nat /\ Len(w) \in Nat
  OBVIOUS
<1> HIDE DEF z
<1>5. /\ z \in Seq(A)
      /\ Len(z) = Len(u) + Len(x) + Len(w)
      /\ \A i \in 1..Len(u) : z[i] = u[i]
      /\ \A i \in 1..Len(x) : z[Len(u) + i] = x[i]
      /\ \A i \in 1..Len(w) : z[Len(u) + Len(x) + i] = w[i]
  BY <1>1, <1>3, <1>4
<1> QED BY <1>5 DEF y, z

\* Trim finds what is between blanks.
LEMMA TrimBetween ==
  ASSUME NEW A, NEW u \in Seq(A), NEW x \in Seq(A), NEW w \in Seq(A),
         IsBlank(u), IsBlank(w), Inked(x)
  PROVE  Trim((u \o x) \o w) = x
<1> DEFINE z == (u \o x) \o w
           a == Len(u)
           n == Len(x)
           ink == {i \in 1..Len(z) : z[i] # Blank}
<1>1. a \in Nat /\ n \in Nat /\ Len(w) \in Nat
  OBVIOUS
<1>2. /\ z \in Seq(A)
      /\ Len(z) = a + n + Len(w)
      /\ \A i \in 1..a : z[i] = u[i]
      /\ \A i \in 1..n : z[a + i] = x[i]
      /\ \A i \in 1..Len(w) : z[a + n + i] = w[i]
  BY ThreeTexts
<1> HIDE DEF z, a, n
<1>3. \A i \in 1..a : z[i] = Blank
  BY <1>2 DEF IsBlank, a
<1>4. ASSUME NEW i \in (a + n + 1)..Len(z) PROVE z[i] = Blank
  <2>1. i - (a + n) \in 1..Len(w) /\ i = a + n + (i - (a + n))
    BY <1>1, <1>2
  <2> QED BY <1>2, <2>1 DEF IsBlank
<1>5. ink \subseteq (a + 1)..(a + n)
  BY <1>1, <1>2, <1>3, <1>4
<1>6. CASE n = 0
  <2>1. ink = {}
    BY <1>1, <1>5, <1>6
  <2>2. x = << >>
    BY <1>6 DEF n
  <2> QED BY <2>1, <2>2 DEF Trim, z
<1>7. CASE n # 0
  <2>1. x[1] # Blank /\ x[n] # Blank
    BY <1>7 DEF Inked, n
  <2>2. a + 1 \in ink /\ a + n \in ink
    <3>1. z[a + 1] = x[1] /\ z[a + n] = x[n]
      BY <1>1, <1>2, <1>7
    <3> QED BY <1>1, <1>2, <1>7, <2>1, <3>1
  <2>3. ink \subseteq Int /\ \A k \in ink : a + 1 <= k /\ k <= a + n
    BY <1>1, <1>5
  <2> HIDE DEF ink
  <2>4. Min(ink) = a + 1 /\ Max(ink) = a + n
    BY <2>2, <2>3, MinIs, MaxIs
  <2>5. SubSeq(z, a + 1, a + n) = x
    <3> DEFINE s == SubSeq(z, a + 1, a + n)
    <3>0. \A i \in (a + 1)..(a + n) : z[i] \in A
      BY <1>1, <1>2
    <3>1. s \in Seq(A) /\ Len(s) = n /\ \A i \in 1..n : s[i] = z[a + 1 + i - 1]
      BY <1>1, <1>7, <3>0, SubSeqProperties
    <3> HIDE DEF s
    <3>2. ASSUME NEW i \in 1..n PROVE s[i] = x[i]
      <4>1. a + 1 + i - 1 = a + i
        BY <1>1
      <4>2. z[a + i] = x[i] /\ s[i] = z[a + 1 + i - 1]
        BY <1>2, <3>1
      <4> QED BY <4>1, <4>2
    <3>3. s = x
      BY <3>1, <3>2, SeqEqual DEF n
    <3> QED BY <3>3 DEF s
  <2>6. ink # {}
    BY <2>2
  <2> QED BY <2>4, <2>5, <2>6 DEF Trim, z, ink
<1> QED BY <1>6, <1>7

\* The empty text is blank, and has no blanks at its ends.
LEMMA EmptyBlank ==
  IsBlank(<< >>) /\ Inked(<< >>)
  BY DEF IsBlank, Inked

\* Every text is what Trim leaves of it, between blanks.
LEMMA TrimParts ==
  ASSUME NEW A, NEW text \in Seq(A)
  PROVE  /\ Trim(text) \in Seq(A) /\ Inked(Trim(text))
         /\ \E u \in Seq(A), w \in Seq(A) :
              IsBlank(u) /\ IsBlank(w) /\ text = (u \o Trim(text)) \o w
<1> DEFINE n == Len(text)
           ink == {i \in 1..n : text[i] # Blank}
<1>1. n \in Nat
  OBVIOUS
<1>2. CASE ink = {}
  <2>1. Trim(text) = << >>
    BY <1>2 DEF Trim
  <2>2. IsBlank(text) /\ << >> \in Seq(A) /\ text = (text \o << >>) \o << >>
    BY <1>2 DEF IsBlank
  <2> QED BY <2>1, <2>2, EmptyBlank, Zenon
<1>3. CASE ink # {}
  <2>0. ink \subseteq 1..n /\ ink \subseteq Nat /\ ink \subseteq Int
    BY <1>1
  <2>a. \A k \in ink : text[k] # Blank
    OBVIOUS
  <2>b. \A k \in 1..n : k \notin ink => text[k] = Blank
    OBVIOUS
  <2>c. Trim(text) = SubSeq(text, Min(ink), Max(ink))
    BY <1>3 DEF Trim
  <2> HIDE DEF ink
  <2>1. PICK m \in ink : \A k \in ink : m <= k
    BY <1>3, <2>0, Least
  <2>2. PICK r \in ink : \A k \in ink : k <= r
    BY <1>1, <1>3, <2>0, Greatest
  <2>3. Min(ink) = m /\ Max(ink) = r
    BY <2>0, <2>1, <2>2, MinIs, MaxIs
  <2>4. m \in 1..n /\ r \in 1..n /\ m <= r
    BY <2>0, <2>1, <2>2
  <2> DEFINE u == SubSeq(text, 1, m - 1)
             x == SubSeq(text, m, r)
             w == SubSeq(text, r + 1, n)
  <2>5. u \in Seq(A) /\ Len(u) = m - 1 /\ \A i \in 1..(m - 1) : u[i] = text[i]
    BY <1>1, <2>4
  <2>6. x \in Seq(A) /\ Len(x) = r - m + 1
        /\ \A i \in 1..(r - m + 1) : x[i] = text[m + i - 1]
    BY <1>1, <2>4
  <2>7. w \in Seq(A) /\ Len(w) = n - r /\ \A i \in 1..(n - r) : w[i] = text[r + i]
    BY <1>1, <2>4
  <2>8. text = (u \o x) \o w
    <3>1. SubSeq(text, 1, m - 1) \o SubSeq(text, m - 1 + 1, r) = SubSeq(text, 1, r)
      BY <1>1, <2>4, ConcatAdjacentSubSeq
    <3>2. m - 1 + 1 = m
      BY <1>1, <2>4
    <3>3. SubSeq(text, 1, r) \o SubSeq(text, r + 1, n) = SubSeq(text, 1, n)
      BY <1>1, <2>4, ConcatAdjacentSubSeq
    <3>4. SubSeq(text, 1, n) = text
      BY SubSeqFull
    <3> QED BY <3>1, <3>2, <3>3, <3>4
  <2> HIDE DEF u, x, w
  <2>9. IsBlank(u)
    <3> SUFFICES ASSUME NEW i \in 1..(m - 1) PROVE u[i] = Blank
      BY <2>5 DEF IsBlank
    <3>1. i \in 1..n /\ ~ (m <= i)
      BY <1>1, <2>4
    <3>2. i \notin ink
      BY <2>1, <3>1
    <3> QED BY <2>5, <2>b, <3>1, <3>2
  <2>10. IsBlank(w)
    <3> SUFFICES ASSUME NEW i \in 1..(n - r) PROVE w[i] = Blank
      BY <2>7 DEF IsBlank
    <3>1. r + i \in 1..n /\ ~ (r + i <= r)
      BY <1>1, <2>4
    <3>2. r + i \notin ink
      BY <2>2, <3>1
    <3> QED BY <2>7, <2>b, <3>1, <3>2
  <2>11. Inked(x)
    <3>1. x[1] = text[m] /\ x[Len(x)] = text[r]
      <4>1. 1 \in 1..(r - m + 1) /\ r - m + 1 \in 1..(r - m + 1)
            /\ m + 1 - 1 = m /\ m + (r - m + 1) - 1 = r
        BY <1>1, <2>4
      <4> QED BY <2>6, <4>1
    <3> QED BY <2>1, <2>2, <2>a, <3>1 DEF Inked
  <2>12. Trim(text) = x
    BY <2>3, <2>c DEF x
  <2> QED BY <2>5, <2>6, <2>7, <2>8, <2>9, <2>10, <2>11, <2>12, Zenon
<1> QED BY <1>2, <1>3

\* Blank texts in a row are blank.
LEMMA BlankConcat ==
  ASSUME NEW A, NEW u \in Seq(A), NEW w \in Seq(A), IsBlank(u), IsBlank(w)
  PROVE  IsBlank(u \o w) /\ u \o w \in Seq(A)
  BY SMTT(30) DEF IsBlank

\* Texts without the separator in a row have none.
LEMMA FreeConcat ==
  ASSUME NEW A, NEW u \in Seq(A), NEW w \in Seq(A), NEW sep,
         Free(u, sep), Free(w, sep)
  PROVE  Free(u \o w, sep) /\ u \o w \in Seq(A)
  BY DEF Free

\* A blank text has no separator.
LEMMA BlankFree ==
  ASSUME NEW b, IsBlank(b), NEW sep, sep # Blank
  PROVE  Free(b, sep)
  BY DEF IsBlank, Free

\* Texts in a row, put together from the left or from the right.
LEMMA Assoc ==
  ASSUME NEW S, NEW s \in Seq(S), NEW t \in Seq(S), NEW u \in Seq(S)
  PROVE  s \o (t \o u) = (s \o t) \o u
  OBVIOUS

\* A text over some tokens is one over more of them.
LEMMA WiderSeq ==
  ASSUME NEW A, NEW B, A \subseteq B, NEW s \in Seq(A)
  PROVE  s \in Seq(B)
  OBVIOUS

\* Texts in a row are a text.
LEMMA ConcatType ==
  ASSUME NEW S, NEW s \in Seq(S), NEW t \in Seq(S)
  PROVE  s \o t \in Seq(S)
  OBVIOUS

\* Blanks before and behind make no difference to Trim.
LEMMA TrimAround ==
  ASSUME NEW A, NEW x \in Seq(A), NEW b \in Seq(A), IsBlank(b)
  PROVE  Trim(b \o x) = Trim(x) /\ Trim(x \o b) = Trim(x)
<1> DEFINE y == Trim(x)
<1>1. y \in Seq(A) /\ Inked(y)
  BY TrimParts
<1>2. PICK u \in Seq(A), w \in Seq(A) :
        IsBlank(u) /\ IsBlank(w) /\ x = (u \o y) \o w
  BY TrimParts, Zenon
<1> HIDE DEF y
<1>3. /\ b \o u \in Seq(A) /\ IsBlank(b \o u)
      /\ w \o b \in Seq(A) /\ IsBlank(w \o b)
  BY <1>2, BlankConcat
<1>4. Trim(((b \o u) \o y) \o w) = y
  BY <1>1, <1>2, <1>3, TrimBetween, Zenon
<1>5. Trim((u \o y) \o (w \o b)) = y
  BY <1>1, <1>2, <1>3, TrimBetween, Zenon
<1>6. b \o ((u \o y) \o w) = ((b \o u) \o y) \o w
  <2>1. u \o y \in Seq(A)
    BY <1>1, ConcatType
  <2>2. b \o (u \o y) = (b \o u) \o y
    BY <1>1, SMTT(30)
  <2>3. ASSUME NEW z \in Seq(A) PROVE b \o (z \o w) = (b \o z) \o w
    OBVIOUS
  <2> QED BY <2>1, <2>2, <2>3, Zenon
<1>7. ((u \o y) \o w) \o b = (u \o y) \o (w \o b)
  <2>1. u \o y \in Seq(A)
    BY <1>1
  <2>2. ASSUME NEW z \in Seq(A) PROVE (z \o w) \o b = z \o (w \o b)
    BY ConcatAssociative, SMTT(30)
  <2> QED BY <2>1, <2>2, Zenon
<1> QED BY <1>2, <1>4, <1>5, <1>6, <1>7, Zenon DEF y

\* Trim leaves a text alone that has no blanks at its ends.
LEMMA TrimInked ==
  ASSUME NEW A, NEW x \in Seq(A), Inked(x)
  PROVE  Trim(x) = x
<1>1. << >> \in Seq(A) /\ (<< >> \o x) \o << >> = x
  OBVIOUS
<1>2. Trim((<< >> \o x) \o << >>) = x
  BY <1>1, TrimBetween, EmptyBlank, Zenon
<1> QED BY <1>1, <1>2, Zenon

(***************************************************************************)
(* Pieces and their blanks                                                 *)
(***************************************************************************)
TrimAll(ps) == [k \in 1..Len(ps) |-> Trim(ps[k])]

\* TrimmedPieces trims the pieces of Split.
LEMMA TrimmedIsTrimAll ==
  ASSUME NEW text, NEW sep
  PROVE  TrimmedPieces(text, sep) = TrimAll(Split(text, sep))
  BY DEF TrimmedPieces, TrimAll

\* Trimmed pieces are texts, one for each piece.
LEMMA TrimAllType ==
  ASSUME NEW A, NEW ps \in Seq(Seq(A))
  PROVE  /\ TrimAll(ps) \in Seq(Seq(A)) /\ Len(TrimAll(ps)) = Len(ps)
         /\ \A k \in 1..Len(ps) : TrimAll(ps)[k] = Trim(ps[k])
<1>1. \A k \in 1..Len(ps) : Trim(ps[k]) \in Seq(A)
  BY TrimParts
<1>2. Len(ps) \in Nat
  OBVIOUS
<1> QED BY <1>1, <1>2 DEF TrimAll

\* Pieces in a row are trimmed each.
LEMMA TrimAllConcat ==
  ASSUME NEW A, NEW ps \in Seq(Seq(A)), NEW qs \in Seq(Seq(A))
  PROVE  TrimAll(ps \o qs) = TrimAll(ps) \o TrimAll(qs)
<1> DEFINE all == ps \o qs
           L == TrimAll(all)
           P == TrimAll(ps)
           Q == TrimAll(qs)
<1>1. /\ all \in Seq(Seq(A)) /\ Len(all) = Len(ps) + Len(qs)
      /\ \A i \in 1..Len(ps) : all[i] = ps[i]
      /\ \A i \in 1..Len(qs) : all[Len(ps) + i] = qs[i]
  BY TwoTexts
<1>2. /\ P \in Seq(Seq(A)) /\ Len(P) = Len(ps) /\ \A k \in 1..Len(ps) : P[k] = Trim(ps[k])
      /\ Q \in Seq(Seq(A)) /\ Len(Q) = Len(qs) /\ \A k \in 1..Len(qs) : Q[k] = Trim(qs[k])
  BY TrimAllType
<1>3. Len(ps) \in Nat /\ Len(qs) \in Nat
  OBVIOUS
<1> HIDE DEF all
<1>4. L \in Seq(Seq(A)) /\ Len(L) = Len(all) /\ \A k \in 1..Len(all) : L[k] = Trim(all[k])
  BY <1>1, TrimAllType
<1> HIDE DEF L, P, Q
<1> DEFINE R == P \o Q
<1>a. P \in Seq(Seq(A)) /\ Q \in Seq(Seq(A))
  BY <1>2
<1>5. /\ R \in Seq(Seq(A)) /\ Len(R) = Len(P) + Len(Q)
      /\ \A i \in 1..Len(P) : R[i] = P[i]
      /\ \A i \in 1..Len(Q) : R[Len(P) + i] = Q[i]
  BY <1>a, TwoTexts
<1> HIDE DEF R
<1>6. ASSUME NEW i \in 1..Len(L) PROVE L[i] = R[i]
  <2>1. CASE i <= Len(ps)
    <3>1. i \in 1..Len(ps) /\ i \in 1..Len(all)
      BY <1>1, <1>3, <1>4, <2>1
    <3> QED BY <1>1, <1>2, <1>4, <1>5, <3>1
  <2>2. CASE i > Len(ps)
    <3>1. i - Len(ps) \in 1..Len(qs) /\ i \in 1..Len(all) /\ i = Len(ps) + (i - Len(ps))
      BY <1>1, <1>3, <1>4, <2>2
    <3>2. all[i] = qs[i - Len(ps)]
      BY <1>1, <3>1
    <3>3. R[i] = Q[i - Len(ps)]
      BY <1>2, <1>5, <3>1
    <3> QED BY <1>2, <1>4, <3>1, <3>2, <3>3
  <2> QED BY <1>1, <1>3, <1>4, <2>1, <2>2
<1>7. L = R
  BY <1>1, <1>2, <1>4, <1>5, <1>6, SeqEqual
<1> QED BY <1>7 DEF L, R, P, Q, all

\* The only piece is trimmed.
LEMMA TrimAllOne ==
  ASSUME NEW A, NEW x \in Seq(A)
  PROVE  TrimAll(<<x>>) = <<Trim(x)>>
  BY DEF TrimAll

\* Blanks around a text make no difference to its trimmed pieces.
LEMMA PiecesAround ==
  ASSUME NEW A, NEW sep, sep # Blank, NEW v \in Seq(A), NEW b \in Seq(A), IsBlank(b)
  PROVE  /\ TrimmedPieces(b \o v, sep) = TrimmedPieces(v, sep)
         /\ TrimmedPieces(v \o b, sep) = TrimmedPieces(v, sep)
<1>1. Free(b, sep)
  BY BlankFree
<1>2. TrimAll(Split(b \o v, sep)) = TrimAll(Split(v, sep))
  <2>1. PICK x \in Seq(A), gs \in Seq(Seq(A)) :
          /\ Split(v, sep) = <<x>> \o gs
          /\ Split(b \o v, sep) = <<b \o x>> \o gs
    <3>1. Widened(Split(v, sep), b, Split(b \o v, sep), A)
      BY <1>1, SplitBehind
    <3> QED BY <3>1, Zenon DEF Widened
  <2>2. b \o x \in Seq(A) /\ Trim(b \o x) = Trim(x)
    BY TrimAround, ConcatType
  <2>3. ASSUME NEW y \in Seq(A)
        PROVE  TrimAll(<<y>> \o gs) = <<Trim(y)>> \o TrimAll(gs)
    <3>1. <<y>> \in Seq(Seq(A))
      OBVIOUS
    <3>2. TrimAll(<<y>> \o gs) = TrimAll(<<y>>) \o TrimAll(gs)
      BY <3>1, TrimAllConcat
    <3>3. TrimAll(<<y>>) = <<Trim(y)>>
      BY TrimAllOne
    <3> QED BY <3>2, <3>3, Zenon
  <2> QED BY <2>1, <2>2, <2>3, Zenon
<1>3. TrimAll(Split(v \o b, sep)) = TrimAll(Split(v, sep))
  <2>1. Split(v, sep) \in Pieces(A)
    BY SplitType
  <2>2. PICK fs \in Seq(Seq(A)), x \in Seq(A) : Split(v, sep) = Append(fs, x)
    BY <2>1, LastPiece, Zenon
  <2>3. Split(v \o b, sep) = Append(fs, x \o b)
    <3>1. Split(v \o b, sep) = Behind(Split(v, sep), b)
      BY <1>1, SplitPlain
    <3>2. Behind(Append(fs, x), b) = Append(fs, x \o b)
      BY BehindLast
    <3> QED BY <2>2, <3>1, <3>2, Zenon
  <2>4. x \o b \in Seq(A) /\ Trim(x \o b) = Trim(x)
    BY TrimAround, ConcatType
  <2>5. ASSUME NEW y \in Seq(A)
        PROVE  TrimAll(Append(fs, y)) = TrimAll(fs) \o <<Trim(y)>>
    <3>1. <<y>> \in Seq(Seq(A)) /\ Append(fs, y) = fs \o <<y>>
      OBVIOUS
    <3>2. TrimAll(fs \o <<y>>) = TrimAll(fs) \o TrimAll(<<y>>)
      BY <3>1, TrimAllConcat
    <3>3. TrimAll(<<y>>) = <<Trim(y)>>
      BY TrimAllOne
    <3> QED BY <3>1, <3>2, <3>3, Zenon
  <2> QED BY <2>2, <2>3, <2>4, <2>5, Zenon
<1> QED BY <1>2, <1>3, TrimmedIsTrimAll, Zenon

\* Nor does it matter whether the text is trimmed first.
LEMMA PiecesOfTrimmed ==
  ASSUME NEW A, NEW sep, sep # Blank, NEW text \in Seq(A)
  PROVE  TrimmedPieces(Trim(text), sep) = TrimmedPieces(text, sep)
<1> DEFINE y == Trim(text)
<1>1. y \in Seq(A)
  BY TrimParts
<1>2. PICK u \in Seq(A), w \in Seq(A) :
        IsBlank(u) /\ IsBlank(w) /\ text = (u \o y) \o w
  BY TrimParts, Zenon
<1> HIDE DEF y
<1>3. TrimmedPieces(u \o y, sep) = TrimmedPieces(y, sep) /\ u \o y \in Seq(A)
  BY <1>1, <1>2, PiecesAround, ConcatType
<1>4. TrimmedPieces((u \o y) \o w, sep) = TrimmedPieces(u \o y, sep)
  BY <1>2, <1>3, PiecesAround, ZenonT(40)
<1> QED BY <1>2, <1>3, <1>4, Zenon DEF y

(***************************************************************************)
(* Join                                                                    *)
(***************************************************************************)
JoinStep(k, before, text, sep) == IF k = 1 THEN text ELSE before \o sep \o text

JoinFn(texts, sep) ==
  CHOOSE f : f = [k \in 0..Len(texts) |->
    IF k = 0 THEN << >> ELSE IF k = 1 THEN texts[k] ELSE f[k - 1] \o sep \o texts[k]]

\* Join takes the last value of a function that adds a text at a time.
LEMMA JoinDef ==
  ASSUME NEW A, NEW texts \in Seq(Seq(A)), NEW sep \in Seq(A)
  PROVE  /\ Join(texts, sep) = JoinFn(texts, sep)[Len(texts)]
         /\ JoinFn(texts, sep)[0] = << >>
         /\ \A k \in 1..Len(texts) : JoinFn(texts, sep)[k]
              = JoinStep(k, JoinFn(texts, sep)[k - 1], texts[k], sep)
<1> DEFINE n == Len(texts)
           init == << >>
           Step(k, before) == IF k = 1 THEN texts[k] ELSE before \o sep \o texts[k]
           step == [p \in (1..n) \X Seq(A) |-> Step(p[1], p[2])]
<1>1. n \in Nat /\ init \in Seq(A)
  OBVIOUS
<1>2. step \in [(1..n) \X Seq(A) -> Seq(A)]
  <2>1. ASSUME NEW k \in 1..n, NEW before \in Seq(A) PROVE Step(k, before) \in Seq(A)
    <3>1. texts[k] \in Seq(A)
      OBVIOUS
    <3>2. ASSUME NEW t \in Seq(A) PROVE before \o sep \o t \in Seq(A)
      OBVIOUS
    <3> QED BY <3>1, <3>2
  <2> HIDE DEF Step
  <2> QED BY <2>1
<1>3. PICK f : IsScan(f, n, Seq(A), init, step)
  <2> HIDE DEF n, init, step
  <2> QED BY <1>1, <1>2, RecursionExists
<1>4. ASSUME NEW i \in 1..n PROVE f[i] = Step(i, f[i - 1])
  <2>1. i - 1 \in 0..n
    BY <1>1
  <2>2. f[i - 1] \in Seq(A) /\ f[i] = step[<<i, f[i - 1]>>]
    BY <1>3, <2>1 DEF IsScan
  <2> HIDE DEF Step
  <2> QED BY <2>2
<1>5. f = [i \in 0..n |-> IF i = 0 THEN init ELSE Step(i, f[i - 1])]
  <2>1. \A i \in 0..n : i = 0 \/ i \in 1..n
    BY <1>1
  <2> HIDE DEF init, Step
  <2> QED BY <1>3, <1>4, <2>1 DEF IsScan
<1>6. JoinFn(texts, sep) = [i \in 0..n |->
        IF i = 0 THEN init ELSE Step(i, JoinFn(texts, sep)[i - 1])]
  BY <1>5 DEF JoinFn
<1>7. Join(texts, sep) = JoinFn(texts, sep)[n]
  BY DEF Join, JoinFn
<1> HIDE DEF Step
<1>8. \A i \in 1..n : i # 0 /\ i \in 0..n
  BY <1>1
<1>9. 0 \in 0..n
  BY <1>1
<1>10. /\ JoinFn(texts, sep)[0] = init
       /\ \A k \in 1..n : JoinFn(texts, sep)[k] = Step(k, JoinFn(texts, sep)[k - 1])
  <2> HIDE DEF init
  <2> QED BY <1>6, <1>8, <1>9
<1> QED BY <1>7, <1>10, Zenon DEF Step, JoinStep

\* One text is joined to itself.
LEMMA JoinOne ==
  ASSUME NEW A, NEW t \in Seq(A), NEW sep \in Seq(A)
  PROVE  Join(<<t>>, sep) = t
<1>1. <<t>> \in Seq(Seq(A)) /\ Len(<<t>>) = 1 /\ <<t>>[1] = t /\ 1 \in 1..1
  OBVIOUS
<1> DEFINE ts == <<t>>
<1>2. ts \in Seq(Seq(A)) /\ Len(ts) = 1 /\ ts[1] = t
  BY <1>1
<1> HIDE DEF ts
<1>3. Join(ts, sep) = JoinFn(ts, sep)[1]
      /\ JoinFn(ts, sep)[1] = JoinStep(1, JoinFn(ts, sep)[1 - 1], ts[1], sep)
  BY <1>2, <1>1, JoinDef, ZenonT(40)
<1>4. Join(ts, sep) = t
  BY <1>2, <1>3, Zenon DEF JoinStep
<1> QED BY <1>4 DEF ts

\* A text more comes behind a separator.
LEMMA JoinAppend ==
  ASSUME NEW A, NEW ts \in Seq(Seq(A)), ts # << >>, NEW t \in Seq(A), NEW sep \in Seq(A)
  PROVE  Join(Append(ts, t), sep) = Join(ts, sep) \o sep \o t
<1> DEFINE longer == Append(ts, t)
           n == Len(ts)
           f == JoinFn(ts, sep)
           g == JoinFn(longer, sep)
           T == {i \in Nat : i <= n => f[i] = g[i]}
<1>1. /\ longer \in Seq(Seq(A)) /\ Len(longer) = n + 1 /\ longer[n + 1] = t
      /\ n \in Nat \ {0}
      /\ \A i \in 1..n : longer[i] = ts[i]
  OBVIOUS
<1>2. f[0] = << >> /\ Join(ts, sep) = f[n]
      /\ \A i \in 1..n : f[i] = JoinStep(i, f[i - 1], ts[i], sep)
  BY JoinDef
<1> HIDE DEF longer
<1>3. g[0] = << >> /\ Join(longer, sep) = g[n + 1]
      /\ \A i \in 1..(n + 1) : g[i] = JoinStep(i, g[i - 1], longer[i], sep)
  BY <1>1, JoinDef, ZenonT(40)
<1> HIDE DEF f, g, n
<1>4. ASSUME NEW i \in Nat, i \in T PROVE i + 1 \in T
  <2> SUFFICES ASSUME i + 1 <= n PROVE f[i + 1] = g[i + 1]
    OBVIOUS
  <2>1. i + 1 \in 1..n /\ i + 1 \in 1..(n + 1) /\ i + 1 - 1 = i /\ f[i] = g[i]
        /\ longer[i + 1] = ts[i + 1]
    BY <1>1, <1>4
  <2> HIDE DEF T
  <2>2. /\ f[i + 1] = JoinStep(i + 1, f[i], ts[i + 1], sep)
        /\ g[i + 1] = JoinStep(i + 1, g[i], longer[i + 1], sep)
    BY <1>2, <1>3, <2>1
  <2> QED BY <2>1, <2>2, Zenon
<1>5. 0 \in T
  BY <1>2, <1>3
<1> HIDE DEF T
<1>6. n \in T
  BY <1>1, <1>4, <1>5, NatInd
<1>7. f[n] = g[n]
  BY <1>1, <1>6 DEF T
<1>8. PICK m : m = n + 1
  OBVIOUS
<1>9. m \in 1..(n + 1) /\ m # 1 /\ m - 1 = n
  BY <1>1, <1>8
<1>10. g[m] = g[n] \o sep \o longer[m]
  <2>1. g[m] = JoinStep(m, g[n], longer[m], sep)
    BY <1>3, <1>9
  <2> QED BY <1>9, <2>1, Zenon DEF JoinStep
<1>11. Join(longer, sep) = Join(ts, sep) \o sep \o t
  BY <1>1, <1>2, <1>3, <1>7, <1>8, <1>10, Zenon
<1> QED BY <1>11 DEF longer

\* What is joined is a text.
LEMMA JoinType ==
  ASSUME NEW A, NEW ts \in Seq(Seq(A)), NEW sep \in Seq(A)
  PROVE  Join(ts, sep) \in Seq(A)
<1> DEFINE T == {u \in Seq(Seq(A)) : Join(u, sep) \in Seq(A)}
<1>1. << >> \in T
  <2>1. << >> \in Seq(Seq(A)) /\ Len(<< >>) = 0
    OBVIOUS
  <2>2. Join(<< >>, sep) = << >>
    BY <2>1, JoinDef
  <2>3. << >> \in Seq(A)
    OBVIOUS
  <2> QED BY <2>1, <2>2, <2>3
<1>2. ASSUME NEW u \in Seq(Seq(A)), NEW t \in Seq(A), u \in T PROVE Append(u, t) \in T
  <2>1. Append(u, t) \in Seq(Seq(A))
    OBVIOUS
  <2>2. CASE u = << >>
    <3>1. Append(u, t) = <<t>>
      BY <2>2
    <3>2. Join(<<t>>, sep) = t
      BY JoinOne
    <3> QED BY <2>1, <3>1, <3>2
  <2>3. CASE u # << >>
    <3>1. Join(Append(u, t), sep) = Join(u, sep) \o sep \o t
      BY <2>3, JoinAppend
    <3>2. Join(u, sep) \in Seq(A)
      BY <1>2
    <3>3. ASSUME NEW j \in Seq(A) PROVE j \o sep \o t \in Seq(A)
      OBVIOUS
    <3> QED BY <2>1, <3>1, <3>2, <3>3, Zenon
  <2> QED BY <2>2, <2>3
<1> HIDE DEF T
<1>3. Seq(Seq(A)) \subseteq T
  BY <1>1, <1>2, AppendInd
<1> QED BY <1>3 DEF T

\* A separator between two texts separates their pieces.
LEMMA PiecesAt ==
  ASSUME NEW A, NEW sep \in A, NEW v \in Seq(A), NEW w \in Seq(A)
  PROVE  TrimmedPieces(Append(v, sep) \o w, sep)
           = TrimmedPieces(v, sep) \o TrimmedPieces(w, sep)
<1>1. Split(v, sep) \in Seq(Seq(A)) /\ Split(w, sep) \in Seq(Seq(A))
  BY SplitType DEF Pieces
<1>2. Split(Append(v, sep) \o w, sep) = Split(v, sep) \o Split(w, sep)
  BY SplitAt
<1>3. TrimAll(Split(v, sep) \o Split(w, sep))
        = TrimAll(Split(v, sep)) \o TrimAll(Split(w, sep))
  BY <1>1, TrimAllConcat, Zenon
<1> QED BY <1>2, <1>3, TrimmedIsTrimAll, Zenon

\* glue is the separator, with any blanks before and behind it.
IsGlue(glue, sep, A) ==
  \E b \in Seq(A), c \in Seq(A) :
    IsBlank(b) /\ IsBlank(c) /\ glue = Append(b, sep) \o c

\* Glue is a text.
LEMMA GlueType ==
  ASSUME NEW A, NEW sep \in A, NEW glue, IsGlue(glue, sep, A)
  PROVE  glue \in Seq(A)
<1>1. PICK b \in Seq(A), c \in Seq(A) : glue = Append(b, sep) \o c
  BY Zenon DEF IsGlue
<1>2. Append(b, sep) \o c \in Seq(A)
  OBVIOUS
<1> QED BY <1>1, <1>2, Zenon

\* Also when there are blanks around the separator.
LEMMA PiecesGlued ==
  ASSUME NEW A, NEW sep \in A, sep # Blank, NEW v \in Seq(A), NEW w \in Seq(A),
         NEW glue, IsGlue(glue, sep, A)
  PROVE  TrimmedPieces(v \o glue \o w, sep)
           = TrimmedPieces(v, sep) \o TrimmedPieces(w, sep)
<1>0. PICK b \in Seq(A), c \in Seq(A) :
        IsBlank(b) /\ IsBlank(c) /\ glue = Append(b, sep) \o c
  BY Zenon DEF IsGlue
<1>1. v \o b \in Seq(A) /\ c \o w \in Seq(A)
  BY ConcatType
<1>2. (v \o (Append(b, sep) \o c)) \o w = Append(v \o b, sep) \o (c \o w)
  <2>1. ASSUME NEW d \in Seq(A) PROVE (v \o (d \o c)) \o w = (v \o d) \o (c \o w)
    <3>1. v \o (d \o c) = (v \o d) \o c
      BY Assoc, SMTT(30)
    <3>2. v \o d \in Seq(A)
      BY ConcatType
    <3>3. ASSUME NEW e \in Seq(A) PROVE (e \o c) \o w = e \o (c \o w)
      BY Assoc, SMTT(30)
    <3> QED BY <3>1, <3>2, <3>3, Zenon
  <2>2. Append(b, sep) \in Seq(A) /\ v \o Append(b, sep) = Append(v \o b, sep)
    BY ConcatAppend
  <2> QED BY <2>1, <2>2, Zenon
<1>3. TrimmedPieces(Append(v \o b, sep) \o (c \o w), sep)
        = TrimmedPieces(v \o b, sep) \o TrimmedPieces(c \o w, sep)
  BY <1>1, PiecesAt, Zenon
<1>4. TrimmedPieces(v \o b, sep) = TrimmedPieces(v, sep)
      /\ TrimmedPieces(c \o w, sep) = TrimmedPieces(w, sep)
  BY <1>0, PiecesAround
<1> QED BY <1>0, <1>2, <1>3, <1>4, Zenon

\* No text of ts has a separator.
AllFree(ts, sep) == \A k \in 1..Len(ts) : Free(ts[k], sep)

\* Texts without the separator, and the last of them.
LEMMA AllFreeAppend ==
  ASSUME NEW A, NEW ts \in Seq(Seq(A)), NEW t \in Seq(A), NEW sep,
         AllFree(Append(ts, t), sep)
  PROVE  AllFree(ts, sep) /\ Free(t, sep)
<1> DEFINE longer == Append(ts, t)
<1>1. /\ Len(longer) = Len(ts) + 1 /\ longer[Len(ts) + 1] = t
      /\ \A i \in 1..Len(ts) : longer[i] = ts[i] /\ i \in 1..Len(longer)
      /\ Len(ts) + 1 \in 1..Len(longer)
  OBVIOUS
<1> HIDE DEF longer
<1>2. AllFree(longer, sep)
  BY DEF longer
<1> QED BY <1>1, <1>2, Zenon DEF AllFree

\* One text more is trimmed.
LEMMA TrimAllAppend ==
  ASSUME NEW A, NEW ts \in Seq(Seq(A)), NEW t \in Seq(A)
  PROVE  TrimAll(Append(ts, t)) = TrimAll(ts) \o <<Trim(t)>>
<1>1. <<t>> \in Seq(Seq(A)) /\ Append(ts, t) = ts \o <<t>>
  OBVIOUS
<1>2. TrimAll(ts \o <<t>>) = TrimAll(ts) \o TrimAll(<<t>>)
  BY <1>1, TrimAllConcat
<1>3. TrimAll(<<t>>) = <<Trim(t)>>
  BY TrimAllOne
<1> QED BY <1>1, <1>2, <1>3, Zenon

\* A text without separators is its only piece.
LEMMA PiecesFree ==
  ASSUME NEW A, NEW sep, NEW t \in Seq(A), Free(t, sep)
  PROVE  TrimmedPieces(t, sep) = <<Trim(t)>>
  BY SplitFree, TrimmedIsTrimAll, TrimAllOne, Zenon

\* What Join puts together with a separator between blanks, split takes apart.
LEMMA PiecesOfJoin ==
  ASSUME NEW A, NEW sep \in A, sep # Blank, NEW glue, IsGlue(glue, sep, A),
         NEW ts \in Seq(Seq(A)), ts # << >>, AllFree(ts, sep)
  PROVE  TrimmedPieces(Join(ts, glue), sep) = TrimAll(ts)
<1> DEFINE P(u) == u # << >> /\ AllFree(u, sep)
                     => TrimmedPieces(Join(u, glue), sep) = TrimAll(u)
           T == {u \in Seq(Seq(A)) : P(u)}
<1>0. glue \in Seq(A)
  BY GlueType
<1>1. << >> \in T
  OBVIOUS
<1>2. ASSUME NEW u \in Seq(Seq(A)), NEW t \in Seq(A), u \in T PROVE Append(u, t) \in T
  <2>1. Append(u, t) \in Seq(Seq(A))
    OBVIOUS
  <2> SUFFICES ASSUME AllFree(Append(u, t), sep)
               PROVE  TrimmedPieces(Join(Append(u, t), glue), sep) = TrimAll(Append(u, t))
    BY <2>1
  <2>2. AllFree(u, sep) /\ Free(t, sep)
    BY AllFreeAppend
  <2>3. TrimmedPieces(t, sep) = <<Trim(t)>>
    BY <2>2, PiecesFree
  <2>4. CASE u = << >>
    <3>1. Append(u, t) = <<t>>
      BY <2>4
    <3>2. Join(<<t>>, glue) = t
      BY <1>0, JoinOne
    <3>3. TrimAll(<<t>>) = <<Trim(t)>>
      BY TrimAllOne
    <3> QED BY <2>3, <3>1, <3>2, <3>3, Zenon
  <2>5. CASE u # << >>
    <3>1. Join(Append(u, t), glue) = Join(u, glue) \o glue \o t
      BY <1>0, <2>5, JoinAppend
    <3>2. Join(u, glue) \in Seq(A)
      BY <1>0, JoinType
    <3>3. TrimmedPieces(Join(u, glue), sep) = TrimAll(u)
      BY <1>2, <2>2, <2>5
    <3>4. TrimAll(Append(u, t)) = TrimAll(u) \o <<Trim(t)>>
      BY TrimAllAppend
    <3> DEFINE j == Join(u, glue)
    <3> HIDE DEF j
    <3>5. TrimmedPieces(j \o glue \o t, sep)
            = TrimmedPieces(j, sep) \o TrimmedPieces(t, sep)
      BY <3>2, PiecesGlued, SMTT(30) DEF j
    <3> QED BY <2>3, <3>1, <3>3, <3>4, <3>5, Zenon DEF j
  <2> QED BY <2>4, <2>5
<1>3. P(ts)
  <2> HIDE DEF P
  <2>1. << >> \in T /\ \A u \in Seq(Seq(A)), t \in Seq(A) : u \in T => Append(u, t) \in T
    BY <1>1, <1>2
  <2> HIDE DEF T
  <2>2. Seq(Seq(A)) \subseteq T
    BY <2>1, AppendInd
  <2> QED BY <2>2 DEF T
<1> QED BY <1>3

(***************************************************************************)
(* Depth                                                                   *)
(***************************************************************************)
DepthFn(rest) ==
  CHOOSE f : f = [k \in 0..Len(rest) |->
    IF k = 0 THEN 1 ELSE DepthAfter(f[k - 1], rest[k])]

\* The depth is an integer.
LEMMA DepthAfterType ==
  ASSUME NEW d \in Int, NEW token
  PROVE  DepthAfter(d, token) \in Int
  BY DEF DepthAfter

\* Depth takes a value of a function that counts parentheses a token at a time.
LEMMA DepthDef ==
  ASSUME NEW A, NEW rest \in Seq(A)
  PROVE  /\ DepthFn(rest)[0] = 1
         /\ \A i \in 0..Len(rest) : Depth(rest, i) = DepthFn(rest)[i]
              /\ DepthFn(rest)[i] \in Int
         /\ \A i \in 1..Len(rest) :
              DepthFn(rest)[i] = DepthAfter(DepthFn(rest)[i - 1], rest[i])
<1> DEFINE n == Len(rest)
           step == [p \in (1..n) \X Int |-> DepthAfter(p[2], rest[p[1]])]
           init == 1
<1>1. n \in Nat /\ init \in Int
  OBVIOUS
<1>2. step \in [(1..n) \X Int -> Int]
  BY DepthAfterType
<1>3. PICK f : IsScan(f, n, Int, init, step)
  <2> HIDE DEF n, init, step
  <2> QED BY <1>1, <1>2, RecursionExists
<1>4. ASSUME NEW i \in 1..n PROVE f[i] = DepthAfter(f[i - 1], rest[i])
  <2>1. i - 1 \in 0..n
    BY <1>1
  <2>2. f[i - 1] \in Int /\ f[i] = step[<<i, f[i - 1]>>]
    BY <1>3, <2>1 DEF IsScan
  <2> QED BY <2>2
<1>5. f = [i \in 0..n |-> IF i = 0 THEN init ELSE DepthAfter(f[i - 1], rest[i])]
  <2>1. \A i \in 0..n : i = 0 \/ i \in 1..n
    BY <1>1
  <2> HIDE DEF init
  <2> QED BY <1>3, <1>4, <2>1 DEF IsScan
<1>6. DepthFn(rest) = [i \in 0..n |->
        IF i = 0 THEN init ELSE DepthAfter(DepthFn(rest)[i - 1], rest[i])]
  BY <1>5 DEF DepthFn
<1>7. \A i : Depth(rest, i) = DepthFn(rest)[i]
  BY DEF Depth, DepthFn
<1> DEFINE F == DepthFn(rest)
<1> HIDE DEF F, step
<1>8. F[0] = 1 /\ \A i \in 1..n : F[i] = DepthAfter(F[i - 1], rest[i])
  BY <1>1, <1>6 DEF F
<1> DEFINE T == {i \in Nat : i <= n => F[i] \in Int}
<1>9. 0 \in T
  BY <1>8
<1>10. ASSUME NEW i \in Nat, i \in T PROVE i + 1 \in T
  <2> SUFFICES ASSUME i + 1 <= n PROVE F[i + 1] \in Int
    OBVIOUS
  <2>1. i + 1 \in 1..n /\ i + 1 - 1 = i /\ F[i] \in Int
    BY <1>1, <1>10
  <2>2. F[i + 1] = DepthAfter(F[i], rest[i + 1])
    BY <1>8, <2>1
  <2> QED BY <2>1, <2>2, DepthAfterType
<1> HIDE DEF T
<1>11. Nat \subseteq T
  BY <1>9, <1>10, NatInd
<1>12. \A i \in 0..n : F[i] \in Int
  BY <1>1, <1>11 DEF T
<1> QED BY <1>7, <1>8, <1>12 DEF F

\* The depth inside a text does not depend on what follows.
LEMMA DepthAppend ==
  ASSUME NEW A, NEW s \in Seq(A), NEW c \in A
  PROVE  /\ \A i \in 0..Len(s) : Depth(Append(s, c), i) = Depth(s, i)
         /\ Depth(Append(s, c), Len(s) + 1) = DepthAfter(Depth(s, Len(s)), c)
<1> DEFINE longer == Append(s, c)
           n == Len(s)
           f == DepthFn(s)
           g == DepthFn(longer)
           T == {i \in Nat : i <= n => f[i] = g[i]}
<1>1. /\ longer \in Seq(A) /\ Len(longer) = n + 1 /\ longer[n + 1] = c
      /\ n \in Nat
      /\ \A i \in 1..n : longer[i] = s[i]
  OBVIOUS
<1>2. f[0] = 1 /\ (\A i \in 0..n : Depth(s, i) = f[i])
      /\ \A i \in 1..n : f[i] = DepthAfter(f[i - 1], s[i])
  BY DepthDef
<1> HIDE DEF longer
<1>3. g[0] = 1 /\ (\A i \in 0..(n + 1) : Depth(longer, i) = g[i])
      /\ \A i \in 1..(n + 1) : g[i] = DepthAfter(g[i - 1], longer[i])
  BY <1>1, DepthDef
<1> HIDE DEF f, g, n
<1>4. ASSUME NEW i \in Nat, i \in T PROVE i + 1 \in T
  <2> SUFFICES ASSUME i + 1 <= n PROVE f[i + 1] = g[i + 1]
    OBVIOUS
  <2>1. i + 1 \in 1..n /\ i + 1 \in 1..(n + 1) /\ i + 1 - 1 = i /\ f[i] = g[i]
        /\ longer[i + 1] = s[i + 1]
    BY <1>1, <1>4
  <2> HIDE DEF T
  <2>2. /\ f[i + 1] = DepthAfter(f[i], s[i + 1])
        /\ g[i + 1] = DepthAfter(g[i], longer[i + 1])
    BY <1>2, <1>3, <2>1
  <2> QED BY <2>1, <2>2, Zenon
<1>5. 0 \in T
  BY <1>2, <1>3
<1> HIDE DEF T
<1>6. Nat \subseteq T
  BY <1>4, <1>5, NatInd
<1>7. \A i \in 0..n : f[i] = g[i]
  BY <1>1, <1>6 DEF T
<1>8. PICK m : m = n + 1
  OBVIOUS
<1>9. m \in 1..(n + 1) /\ m \in 0..(n + 1) /\ m - 1 = n /\ n \in 0..n
  BY <1>1, <1>8
<1>10. g[m] = DepthAfter(g[n], longer[m])
  BY <1>3, <1>9
<1>11. \A i \in 0..n : Depth(longer, i) = Depth(s, i)
  <2>1. \A i \in 0..n : i \in 0..(n + 1)
    BY <1>1
  <2> QED BY <1>2, <1>3, <1>7, <2>1
<1>12. Depth(longer, n + 1) = DepthAfter(Depth(s, n), c)
  <2>1. Depth(longer, m) = g[m]
    BY <1>3, <1>9
  <2>2. Depth(s, n) = f[n] /\ f[n] = g[n] /\ longer[m] = c
    BY <1>1, <1>2, <1>7, <1>8, <1>9
  <2> QED BY <1>8, <1>10, <2>1, <2>2, Zenon
<1> QED BY <1>11, <1>12 DEF longer, n

\* The closing parenthesis of an intent is found behind data that survives.
LEMMA ClosingFound ==
  ASSUME NEW A, ")" \in A, NEW data \in Seq(A), Survives(data)
  PROVE  UpToClosing(Append(data, ")")) = data
<1> DEFINE rest == Append(data, ")")
           n == Len(data)
           closing == {i \in 1..Len(rest) : Depth(rest, i) = 0}
<1>1. n \in Nat /\ Len(rest) = n + 1
  OBVIOUS
<1>2. \A i \in 1..n : Depth(rest, i) >= 1
  BY <1>1, DepthAppend DEF Survives
<1>3. Depth(rest, n + 1) = 0
  <2>1. Depth(rest, n + 1) = DepthAfter(Depth(data, n), ")")
    BY DepthAppend
  <2>2. Depth(data, n) = 1
    BY DEF Survives
  <2>3. DepthAfter(1, ")") = 0
    BY DEF DepthAfter
  <2> QED BY <2>1, <2>2, <2>3, Zenon
<1>4. SubSeq(rest, 1, n + 1 - 1) = data
  OBVIOUS
<1>5. UpToClosing(rest) = IF closing = {} THEN << >> ELSE SubSeq(rest, 1, Min(closing) - 1)
  BY DEF UpToClosing
<1> HIDE DEF rest
<1>6. closing \subseteq Int /\ n + 1 \in closing /\ \A k \in closing : n + 1 <= k
  BY <1>1, <1>2, <1>3
<1> HIDE DEF closing
<1>7. Min(closing) = n + 1
  BY <1>1, <1>6, MinIs
<1>8. UpToClosing(rest) = data
  BY <1>4, <1>5, <1>6, <1>7
<1> QED BY <1>8 DEF rest

\* The first parenthesis of a text that starts with a name and a parenthesis.
LEMMA OpeningSecond ==
  ASSUME NEW part, NEW n \in Nat, Len(part) = n, n >= 2, part[1] # "(", part[2] = "("
  PROVE  Opening(part) = 2
<1> DEFINE I == {i \in 1..Len(part) : part[i] = "("}
<1>1. I \subseteq Int /\ 2 \in I /\ \A k \in I : 2 <= k
  OBVIOUS
<1>2. Opening(part) = IF I # {} THEN Min(I) ELSE 0
  BY DEF Opening, SelectInSeq
<1> HIDE DEF I
<1>3. Min(I) = 2
  BY <1>1, MinIs
<1> QED BY <1>1, <1>2, <1>3

(***************************************************************************)
(* One intent                                                              *)
(***************************************************************************)
\* The text of an intent: its type, and its data in parentheses.
TextOf(type, data) == type \o <<"(">> \o data \o <<")">>

\* The first token of a text, as a text.
LEMMA FirstOnly ==
  ASSUME NEW A, NEW s \in Seq(A), Len(s) >= 1
  PROVE  SubSeq(s, 1, 1) = <<s[1]>>
<1> DEFINE t == SubSeq(s, 1, 1)
<1>1. t \in Seq(A) /\ Len(t) = 1 /\ t[1] = s[1]
  OBVIOUS
<1> HIDE DEF t
<1>2. t = <<t[1]>>
  BY <1>1
<1> QED BY <1>1, <1>2 DEF t

\* Where the tokens of text are.
IsTextOf(text, name, data, A) ==
  /\ text \in Seq(A) /\ Len(text) = Len(data) + 3
  /\ text[1] = name /\ text[2] = "(" /\ text[Len(data) + 3] = ")"
  /\ \A i \in 1..Len(data) : text[i + 2] = data[i]
  /\ SubSeq(text, 1, 1) = <<name>>
  /\ SubSeq(text, 3, Len(data) + 3) = Append(data, ")")

\* Where the tokens of the text of an intent are.
LEMMA TextOfTokens ==
  ASSUME NEW A, "(" \in A, ")" \in A, NEW name \in A, NEW data \in Seq(A)
  PROVE  IsTextOf(TextOf(<<name>>, data), name, data, A)
<1> DEFINE head == <<name>> \o <<"(">>
           tail == <<")">>
           text == (head \o data) \o tail
           n == Len(data)
<1>1. head \in Seq(A) /\ Len(head) = 2 /\ head[1] = name /\ head[2] = "("
  OBVIOUS
<1>2. tail \in Seq(A) /\ Len(tail) = 1 /\ tail[1] = ")" /\ n \in Nat
  OBVIOUS
<1>3. TextOf(<<name>>, data) = text
  BY DEF TextOf
<1> HIDE DEF head, tail
<1>a. /\ text \in Seq(A) /\ Len(text) = Len(head) + n + Len(tail)
      /\ \A i \in 1..Len(head) : text[i] = head[i]
      /\ \A i \in 1..n : text[Len(head) + i] = data[i]
      /\ \A i \in 1..Len(tail) : text[Len(head) + n + i] = tail[i]
  <2>1. head \in Seq(A) /\ tail \in Seq(A)
    BY <1>1, <1>2
  <2> QED BY <2>1, ThreeTexts
<1> HIDE DEF text
<1>4. /\ text \in Seq(A) /\ Len(text) = 2 + n + 1
      /\ \A i \in 1..2 : text[i] = head[i]
      /\ \A i \in 1..n : text[2 + i] = data[i]
      /\ \A i \in 1..1 : text[2 + n + i] = tail[i]
  BY <1>1, <1>2, <1>a
<1>5. /\ Len(text) = n + 3 /\ text[1] = name /\ text[2] = "(" /\ text[n + 3] = ")"
      /\ \A i \in 1..n : text[i + 2] = data[i]
  BY <1>1, <1>2, <1>4
<1>6. SubSeq(text, 1, 1) = <<name>>
  <2>1. Len(text) \in Nat /\ Len(text) >= 1
    BY <1>2, <1>5
  <2>2. SubSeq(text, 1, 1) = <<text[1]>>
    BY <1>4, <2>1, FirstOnly
  <2> QED BY <1>5, <2>2, Zenon
<1>7. SubSeq(text, 3, n + 3) = Append(data, ")")
  <2> DEFINE s == SubSeq(text, 3, n + 3)
             d == Append(data, ")")
  <2>1. s \in Seq(A) /\ Len(s) = n + 1 /\ \A i \in 1..(n + 1) : s[i] = text[i + 2]
    BY <1>2, <1>4, <1>5
  <2>2. d \in Seq(A) /\ Len(d) = n + 1 /\ d[n + 1] = ")"
        /\ \A i \in 1..n : d[i] = data[i]
    BY <1>2
  <2> HIDE DEF s, d
  <2>3. ASSUME NEW i \in 1..(n + 1) PROVE s[i] = d[i]
    <3>1. i \in 1..n \/ i = n + 1
      BY <1>2
    <3>2. n + 1 + 2 = n + 3
      BY <1>2
    <3> QED BY <1>5, <2>1, <2>2, <3>1, <3>2
  <2>4. s = d
    BY <2>1, <2>2, <2>3, SeqEqual
  <2> QED BY <2>4 DEF s, d
<1> QED BY <1>3, <1>4, <1>5, <1>6, <1>7, Zenon DEF IsTextOf

\* parse_intent_string gets the type and the data of such a text back.
LEMMA PartParsed ==
  ASSUME NEW A, "(" \in A, ")" \in A, NEW name \in A, name # "(",
         NEW data \in Seq(A), Survives(data)
  PROVE  /\ Opening(TextOf(<<name>>, data)) # 0
         /\ ParsePart(TextOf(<<name>>, data)) = [type |-> <<name>>, data |-> data]
<1> DEFINE text == TextOf(<<name>>, data)
<1>1. /\ text \in Seq(A) /\ Len(text) = Len(data) + 3 /\ Len(data) \in Nat
      /\ text[1] = name /\ text[2] = "("
      /\ SubSeq(text, 1, 1) = <<name>>
      /\ SubSeq(text, 3, Len(data) + 3) = Append(data, ")")
  <2>1. IsTextOf(text, name, data, A)
    BY TextOfTokens
  <2> QED BY <2>1 DEF IsTextOf
<1> HIDE DEF text
<1>2. Opening(text) = 2
  BY <1>1, OpeningSecond
<1>3. Opening(text) - 1 = 1 /\ Opening(text) + 1 = 3
  BY <1>2
<1>4. UpToClosing(Append(data, ")")) = data
  BY ClosingFound
<1>5. ParsePart(text) = [type |-> <<name>>, data |-> data]
  BY <1>1, <1>3, <1>4, Zenon DEF ParsePart
<1>6. Opening(text) # 0
  BY <1>2
<1> QED BY <1>5, <1>6 DEF text

\* Data that survives has no delimiter.
LEMMA SurvivesFree ==
  ASSUME NEW A, NEW data \in Seq(A), Survives(data)
  PROVE  Free(data, "&&")
  BY DEF Survives, Contains, Free

\* Nothing in such a text is cut off or trimmed.
LEMMA TextOfWhole ==
  ASSUME NEW A, "(" \in A, ")" \in A, NEW name \in A, name \notin Separators,
         NEW data \in Seq(A), Survives(data)
  PROVE  /\ TextOf(<<name>>, data) \in Seq(A)
         /\ Free(TextOf(<<name>>, data), "&&")
         /\ Trim(TextOf(<<name>>, data)) = TextOf(<<name>>, data)
<1> DEFINE text == TextOf(<<name>>, data)
           n == Len(data)
<1>1. /\ text \in Seq(A) /\ Len(text) = n + 3 /\ n \in Nat
      /\ text[1] = name /\ text[2] = "(" /\ text[n + 3] = ")"
      /\ \A i \in 1..n : text[i + 2] = data[i]
  <2>1. IsTextOf(text, name, data, A)
    BY TextOfTokens
  <2> QED BY <2>1, SMTT(30) DEF IsTextOf
<1> HIDE DEF text
<1>2. name # "&&" /\ name # Blank /\ ")" # Blank /\ ")" # "&&" /\ "(" # "&&"
  BY DEF Separators, Blank
<1>3. Free(text, "&&")
  <2> SUFFICES ASSUME NEW i \in 1..(n + 3) PROVE text[i] # "&&"
    BY <1>1 DEF Free
  <2>1. i = 1 \/ i = 2 \/ i = n + 3 \/ (i - 2 \in 1..n /\ i - 2 + 2 = i)
    BY <1>1
  <2>2. CASE i - 2 \in 1..n /\ i - 2 + 2 = i
    <3>1. text[i] = data[i - 2]
      BY <1>1, <2>2
    <3>2. data[i - 2] # "&&"
      BY <2>2, SurvivesFree DEF Free
    <3> QED BY <3>1, <3>2
  <2> QED BY <1>1, <1>2, <2>1, <2>2
<1>4. Inked(text)
  BY <1>1, <1>2 DEF Inked
<1>5. Trim(text) = text
  BY <1>1, <1>4, TrimInked
<1> QED BY <1>1, <1>3, <1>5 DEF text

(***************************************************************************)
(* The intent string                                                       *)
(***************************************************************************)
\* The intents that may be named: the type is a word, the data survives.
Intended(A) ==
  [type : {<<name>> : name \in A \ Separators}, data : {d \in Seq(A) : Survives(d)}]

TextsOf(meant) == [k \in 1..Len(meant) |-> TextOf(meant[k].type, meant[k].data)]

\* The intents of a predicate, each with its statement.
Predicate(meant) ==
  [k \in 1..Len(meant) |->
     [type |-> meant[k].type, statement |-> Statement(meant[k])]]

\* The text of an intent is one part, and is parsed as that intent.
LEMMA IntendedText ==
  ASSUME NEW A, "(" \in A, ")" \in A, NEW intent \in Intended(A)
  PROVE  LET text == TextOf(intent.type, intent.data) IN
         /\ text \in Seq(A) /\ Free(text, "&&") /\ Trim(text) = text
         /\ Opening(text) # 0 /\ ParsePart(text) = intent
<1>1. PICK name \in A \ Separators : intent.type = <<name>>
  BY DEF Intended
<1>2. name \in A /\ name \notin Separators /\ name # "("
  BY DEF Separators
<1>3. intent.data \in Seq(A) /\ Survives(intent.data)
  BY DEF Intended
<1>4. intent = [type |-> intent.type, data |-> intent.data]
  BY DEF Intended
<1> DEFINE data == intent.data
           text == TextOf(<<name>>, data)
<1> HIDE DEF data
<1>5. data \in Seq(A) /\ Survives(data)
  BY <1>3 DEF data
<1>6. text \in Seq(A) /\ Free(text, "&&") /\ Trim(text) = text
  BY <1>2, <1>5, TextOfWhole
<1>7. Opening(text) # 0 /\ ParsePart(text) = [type |-> <<name>>, data |-> data]
  BY <1>2, <1>5, PartParsed
<1> QED BY <1>1, <1>4, <1>6, <1>7, Zenon DEF data

\* parse_intent_string finds the parts that were put together.
LEMMA PartsAsMeant ==
  ASSUME NEW A, "(" \in A, ")" \in A, "&&" \in A,
         NEW meant \in Seq(Intended(A)), meant # << >>,
         NEW b \in Seq(A), IsBlank(b), NEW glue, IsGlue(glue, "&&", A)
  PROVE  Parts(b \o Join(TextsOf(meant), glue)) = TextsOf(meant)
<1> DEFINE ts == TextsOf(meant)
           n == Len(meant)
           j == Join(ts, glue)
<1>1. ASSUME NEW k \in 1..n
      PROVE  /\ ts[k] = TextOf(meant[k].type, meant[k].data)
             /\ ts[k] \in Seq(A) /\ Free(ts[k], "&&") /\ Trim(ts[k]) = ts[k]
  <2>1. meant[k] \in Intended(A)
    OBVIOUS
  <2>2. ts[k] = TextOf(meant[k].type, meant[k].data)
    BY DEF TextsOf
  <2> QED BY <2>1, <2>2, IntendedText, Zenon
<1>2. n \in Nat \ {0} /\ Len(ts) = n /\ ts \in Seq(Seq(A)) /\ ts # << >>
  <2>1. n \in Nat \ {0}
    OBVIOUS
  <2>2. ts = [k \in 1..n |-> ts[k]]
    BY DEF TextsOf
  <2> HIDE DEF ts
  <2>3. ts \in [1..n -> Seq(A)]
    BY <1>1, <2>2
  <2> QED BY <2>1, <2>3
<1> HIDE DEF ts
<1>3. AllFree(ts, "&&")
  BY <1>1, <1>2 DEF AllFree
<1>4. TrimAll(ts) = ts
  <2>1. TrimAll(ts) = [k \in 1..n |-> ts[k]]
    BY <1>1, <1>2 DEF TrimAll
  <2> QED BY <1>2, <2>1
<1>5. "&&" # Blank
  BY DEF Blank
<1>6. glue \in Seq(A)
  BY GlueType
<1>7. j \in Seq(A) /\ TrimmedPieces(j, "&&") = TrimAll(ts)
  BY <1>2, <1>3, <1>5, <1>6, JoinType, PiecesOfJoin
<1> HIDE DEF j
<1>8. TrimmedPieces(b \o j, "&&") = TrimmedPieces(j, "&&")
  BY <1>5, <1>7, PiecesAround
<1> QED BY <1>4, <1>7, <1>8, Zenon DEF Parts, j, ts

\* parse_intents makes of an intent string that is in order the statements of
\* just the intents that it names, in their order.
THEOREM ParsedAsMeant ==
  ASSUME NEW A, "(" \in A, ")" \in A, "&&" \in A,
         NEW meant \in Seq(Intended(A)), meant # << >>,
         NEW b \in Seq(A), IsBlank(b), NEW glue, IsGlue(glue, "&&", A)
  PROVE  ParseIntents(b \o Join(TextsOf(meant), glue)) = Predicate(meant)
<1> DEFINE ts == TextsOf(meant)
           n == Len(meant)
           text == b \o Join(ts, glue)
<1>1. Parts(text) = ts
  BY PartsAsMeant
<1>2. Len(ts) = n
  BY DEF TextsOf
<1>3. ASSUME NEW k \in 1..n PROVE ParsePart(ts[k]) = meant[k]
  <2>1. meant[k] \in Intended(A)
    OBVIOUS
  <2>2. ts[k] = TextOf(meant[k].type, meant[k].data)
    BY DEF TextsOf
  <2> QED BY <2>1, <2>2, IntendedText, Zenon
<1> HIDE DEF ts, text
<1>4. ParseIntents(text) = [k \in 1..n |->
        [type |-> ParsePart(ts[k]).type, statement |-> Statement(ParsePart(ts[k]))]]
  BY <1>1, <1>2, Zenon DEF ParseIntents
<1>5. ParseIntents(text) = [k \in 1..n |->
        [type |-> meant[k].type, statement |-> Statement(meant[k])]]
  BY <1>3, <1>4
<1> QED BY <1>5, Zenon DEF Predicate, text, ts

\* It accepts just the strings that name types there are gadgets for, with data
\* that these can read.
THEOREM AcceptedAsMeant ==
  ASSUME NEW A, "(" \in A, ")" \in A, "&&" \in A,
         NEW meant \in Seq(Intended(A)), meant # << >>,
         NEW b \in Seq(A), IsBlank(b), NEW glue, IsGlue(glue, "&&", A)
  PROVE  ParsesOk(b \o Join(TextsOf(meant), glue)) <=>
           \A k \in 1..Len(meant) : meant[k].type \in Types /\ DataParses(meant[k])
<1> DEFINE ts == TextsOf(meant)
           n == Len(meant)
           text == b \o Join(ts, glue)
<1>1. Parts(text) = ts
  BY PartsAsMeant
<1>2. Len(ts) = n
  BY DEF TextsOf
<1>3. ASSUME NEW k \in 1..n
      PROVE  ParsePart(ts[k]) = meant[k] /\ Opening(ts[k]) # 0
  <2>1. meant[k] \in Intended(A)
    OBVIOUS
  <2>2. ts[k] = TextOf(meant[k].type, meant[k].data)
    BY DEF TextsOf
  <2> QED BY <2>1, <2>2, IntendedText, Zenon
<1> HIDE DEF ts, text
<1>4. ParsesOk(text) <=>
        \A k \in 1..n : Opening(ts[k]) # 0 /\ ParsePart(ts[k]).type \in Types
                       /\ DataParses(ParsePart(ts[k]))
  BY <1>1, <1>2, Zenon DEF ParsesOk
<1> HIDE DEF n
<1>5. ParsesOk(text) <=>
        \A k \in 1..n : meant[k].type \in Types /\ DataParses(meant[k])
  BY <1>3, <1>4, Zenon
<1> QED BY <1>5, Zenon DEF text, ts, n

(***************************************************************************)
(* An intent whose parenthesis is left open                                *)
(***************************************************************************)
\* The text of an intent without its closing parenthesis.
OpenText(type, data) == type \o <<"(">> \o data

\* The depth inside a text does not depend on the texts that follow.
LEMMA DepthPrefix ==
  ASSUME NEW A, NEW d \in Seq(A), NEW w \in Seq(A)
  PROVE  \A i \in 0..Len(d) : Depth(d \o w, i) = Depth(d, i)
<1> DEFINE T == {s \in Seq(A) : \A i \in 0..Len(d) : Depth(d \o s, i) = Depth(d, i)}
<1>1. << >> \in T
  <2>1. << >> \in Seq(A) /\ d \o << >> = d
    OBVIOUS
  <2> QED BY <2>1, Zenon
<1>2. ASSUME NEW s \in Seq(A), NEW c \in A, s \in T PROVE Append(s, c) \in T
  <2>1. d \o Append(s, c) = Append(d \o s, c) /\ d \o s \in Seq(A)
        /\ Append(s, c) \in Seq(A)
    BY ConcatAppend
  <2>2. ASSUME NEW i \in 0..Len(d) PROVE i \in 0..Len(d \o s)
    <3>1. Len(d \o s) = Len(d) + Len(s) /\ Len(d) \in Nat /\ Len(s) \in Nat
      OBVIOUS
    <3> QED BY <3>1
  <2>3. \A i \in 0..Len(d \o s) : Depth(Append(d \o s, c), i) = Depth(d \o s, i)
    BY <2>1, DepthAppend, Zenon
  <2>4. \A i \in 0..Len(d) : Depth(d \o s, i) = Depth(d, i)
    BY <1>2
  <2>5. \A i \in 0..Len(d) : Depth(d \o Append(s, c), i) = Depth(d, i)
    BY <2>1, <2>2, <2>3, <2>4, Zenon
  <2> QED BY <2>1, <2>5
<1> HIDE DEF T
<1>3. Seq(A) \subseteq T
  BY <1>1, <1>2, AppendInd
<1> QED BY <1>3 DEF T

\* Every text is one that does not end in a blank, and blanks.
LEMMA TrimEnd ==
  ASSUME NEW A, NEW text \in Seq(A)
  PROVE  \E d \in Seq(A), w \in Seq(A) :
           IsBlank(w) /\ text = d \o w /\ (d # << >> => d[Len(d)] # Blank)
<1> DEFINE P(s) == \E d \in Seq(A), w \in Seq(A) :
                     IsBlank(w) /\ s = d \o w /\ (d # << >> => d[Len(d)] # Blank)
           T == {s \in Seq(A) : P(s)}
<1>1. << >> \in T
  <2>1. << >> \in Seq(A) /\ << >> = << >> \o << >>
    OBVIOUS
  <2> QED BY <2>1, EmptyBlank, Zenon
<1>2. ASSUME NEW s \in Seq(A), NEW c \in A, s \in T PROVE Append(s, c) \in T
  <2>0. Append(s, c) \in Seq(A)
    OBVIOUS
  <2>1. PICK d \in Seq(A), w \in Seq(A) :
          IsBlank(w) /\ s = d \o w /\ (d # << >> => d[Len(d)] # Blank)
    BY <1>2
  <2>2. CASE c = Blank
    <3>1. Append(w, c) \in Seq(A) /\ IsBlank(Append(w, c))
      BY <2>1, <2>2 DEF IsBlank
    <3>2. d \o Append(w, c) = Append(d \o w, c)
      BY ConcatAppend
    <3>3. Append(s, c) = d \o Append(w, c)
      BY <2>1, <3>2, Zenon
    <3> QED BY <2>0, <2>1, <3>1, <3>3, Zenon
  <2>3. CASE c # Blank
    <3> DEFINE e == Append(s, c)
    <3>1. e \in Seq(A) /\ e[Len(e)] = c /\ << >> \in Seq(A)
      OBVIOUS
    <3> HIDE DEF e
    <3>2. e = e \o << >>
      BY <3>1
    <3>3. P(e)
      BY <2>3, <3>1, <3>2, EmptyBlank, Zenon
    <3> QED BY <3>1, <3>3 DEF e
  <2> QED BY <2>2, <2>3
<1>3. P(text)
  <2> HIDE DEF P
  <2>1. << >> \in T /\ \A s \in Seq(A), c \in A : s \in T => Append(s, c) \in T
    BY <1>1, <1>2
  <2> HIDE DEF T
  <2>2. Seq(A) \subseteq T
    BY <2>1, AppendInd
  <2> QED BY <2>2 DEF T
<1> QED BY <1>3

\* No parenthesis closes the intent in the first part of data that survives.
LEMMA NothingCloses ==
  ASSUME NEW A, NEW d \in Seq(A), NEW w \in Seq(A), Survives(d \o w)
  PROVE  UpToClosing(d) = << >>
<1>1. ASSUME NEW i \in 1..Len(d) PROVE Depth(d, i) # 0
  <2>1. /\ Len(d \o w) = Len(d) + Len(w) /\ Len(d) \in Nat /\ Len(w) \in Nat
    OBVIOUS
  <2>2. i \in 0..Len(d) /\ i \in 1..Len(d \o w)
    BY <2>1
  <2>3. Depth(d \o w, i) = Depth(d, i)
    BY <2>2, DepthPrefix
  <2>4. Depth(d \o w, i) >= 1
    BY <2>2 DEF Survives
  <2>5. Depth(d, i) >= 1
    BY <2>3, <2>4, Zenon
  <2>6. ~ (0 >= 1)
    OBVIOUS
  <2> QED BY <2>5, <2>6, Zenon
<1>2. {i \in 1..Len(d) : Depth(d, i) = 0} = {}
  BY <1>1, Zenon
<1> QED BY <1>2, Zenon DEF UpToClosing

\* Where the tokens of text are.
IsOpenTextOf(text, name, data, A) ==
  /\ text \in Seq(A) /\ Len(text) = Len(data) + 2
  /\ text[1] = name /\ text[2] = "("
  /\ \A i \in 1..Len(data) : text[i + 2] = data[i]
  /\ SubSeq(text, 1, 1) = <<name>>
  /\ SubSeq(text, 3, Len(text)) = data

\* Where the tokens of such a text are.
LEMMA OpenTextTokens ==
  ASSUME NEW A, "(" \in A, NEW name \in A, NEW data \in Seq(A)
  PROVE  IsOpenTextOf(OpenText(<<name>>, data), name, data, A)
<1> DEFINE head == <<name>> \o <<"(">>
           text == head \o data
           n == Len(data)
<1>1. head \in Seq(A) /\ Len(head) = 2 /\ head[1] = name /\ head[2] = "("
  OBVIOUS
<1>2. n \in Nat
  OBVIOUS
<1>3. OpenText(<<name>>, data) = text
  BY DEF OpenText
<1> HIDE DEF head
<1>4. /\ text \in Seq(A) /\ Len(text) = Len(head) + n
      /\ \A i \in 1..Len(head) : text[i] = head[i]
      /\ \A i \in 1..n : text[Len(head) + i] = data[i]
  BY <1>1, TwoTexts, SMTT(30)
<1> HIDE DEF text
<1>5. /\ text \in Seq(A) /\ Len(text) = n + 2 /\ text[1] = name /\ text[2] = "("
      /\ \A i \in 1..n : text[i + 2] = data[i]
  BY <1>1, <1>2, <1>4
<1>6. SubSeq(text, 1, 1) = <<name>>
  <2>1. Len(text) >= 1
    BY <1>2, <1>5
  <2>2. SubSeq(text, 1, 1) = <<text[1]>>
    BY <1>5, <2>1, FirstOnly
  <2> QED BY <1>5, <2>2, Zenon
<1>7. SubSeq(text, 3, Len(text)) = data
  <2> DEFINE s == SubSeq(text, 3, Len(text))
  <2>1. s \in Seq(A) /\ Len(s) = n /\ \A i \in 1..n : s[i] = text[i + 2]
    BY <1>2, <1>5
  <2> HIDE DEF s
  <2>2. \A i \in 1..n : s[i] = data[i]
    BY <1>5, <2>1
  <2>3. s = data
    BY <2>1, <2>2, SeqEqual
  <2> QED BY <2>3 DEF s
<1> QED BY <1>3, <1>5, <1>6, <1>7, Zenon DEF IsOpenTextOf

\* parse_intent_string gets the type of such a text, and no data.
LEMMA OpenPart ==
  ASSUME NEW A, "(" \in A, NEW name \in A, name \notin Separators,
         NEW data \in Seq(A), Survives(data)
  PROVE  LET text == OpenText(<<name>>, data) IN
         /\ text \in Seq(A) /\ Free(text, "&&")
         /\ ParsePart(Trim(text)) = [type |-> <<name>>, data |-> << >>]
<1>0. /\ name # "(" /\ name # "&&" /\ name # Blank /\ "(" # "&&" /\ "(" # Blank
  BY DEF Separators, Blank
<1>1. PICK d \in Seq(A), w \in Seq(A) :
        IsBlank(w) /\ data = d \o w /\ (d # << >> => d[Len(d)] # Blank)
  BY TrimEnd
<1> DEFINE text == OpenText(<<name>>, data)
           kept == OpenText(<<name>>, d)
           m == Len(d)
           n == Len(data)
<1>2. /\ kept \in Seq(A) /\ Len(kept) = m + 2 /\ kept[1] = name /\ kept[2] = "("
      /\ \A i \in 1..m : kept[i + 2] = d[i]
      /\ SubSeq(kept, 1, 1) = <<name>> /\ SubSeq(kept, 3, Len(kept)) = d
  <2>1. IsOpenTextOf(kept, name, d, A)
    BY OpenTextTokens
  <2> HIDE DEF kept
  <2> QED BY <2>1 DEF IsOpenTextOf
<1>3. /\ text \in Seq(A) /\ Len(text) = n + 2 /\ text[1] = name /\ text[2] = "("
      /\ \A i \in 1..n : text[i + 2] = data[i]
  <2>1. IsOpenTextOf(text, name, data, A)
    BY OpenTextTokens
  <2> HIDE DEF text
  <2> QED BY <2>1 DEF IsOpenTextOf
<1>4. m \in Nat /\ n \in Nat
  OBVIOUS
<1>5. text = kept \o w
  <2>1. ASSUME NEW x \in Seq(A), NEW y \in Seq(A), NEW z \in Seq(A)
        PROVE  x \o (y \o z) = (x \o y) \o z
    OBVIOUS
  <2>2. <<name>> \o <<"(">> \in Seq(A)
    OBVIOUS
  <2> QED BY <1>1, <2>1, <2>2, Zenon DEF OpenText
<1> HIDE DEF text, kept
<1>6. Inked(kept)
  <2>1. kept[1] # Blank
    BY <1>0, <1>2
  <2>2. kept[m + 2] # Blank
    <3>1. CASE m = 0
      <4>1. kept[m + 2] = kept[2]
        BY <3>1
      <4> QED BY <1>0, <1>2, <4>1
    <3>2. CASE m # 0
      <4>1. m \in 1..m /\ d # << >>
        BY <1>4, <3>2
      <4>2. kept[m + 2] = d[m]
        BY <1>2, <4>1
      <4> QED BY <1>1, <4>1, <4>2
    <3> QED BY <3>1, <3>2
  <2> QED BY <1>2, <2>1, <2>2, Zenon DEF Inked
<1>7. Trim(text) = kept
  BY <1>1, <1>2, <1>5, <1>6, TrimAround, TrimInked, Zenon
<1>8. Opening(kept) = 2
  BY <1>0, <1>2, <1>4, OpeningSecond
<1>9. UpToClosing(d) = << >>
  BY <1>1, NothingCloses
<1>10. ParsePart(kept) = [type |-> <<name>>, data |-> << >>]
  <2>1. Opening(kept) - 1 = 1 /\ Opening(kept) + 1 = 3
    BY <1>8
  <2> QED BY <1>2, <1>9, <2>1, Zenon DEF ParsePart
<1>11. Free(text, "&&")
  <2> SUFFICES ASSUME NEW i \in 1..(n + 2) PROVE text[i] # "&&"
    BY <1>3 DEF Free
  <2>1. i = 1 \/ i = 2 \/ (i - 2 \in 1..n /\ i - 2 + 2 = i)
    BY <1>4
  <2>2. CASE i - 2 \in 1..n /\ i - 2 + 2 = i
    <3>1. text[i] = data[i - 2]
      BY <1>3, <2>2
    <3>2. data[i - 2] # "&&"
      BY <2>2, SurvivesFree DEF Free
    <3> QED BY <3>1, <3>2
  <2> QED BY <1>0, <1>3, <2>1, <2>2
<1> QED BY <1>3, <1>7, <1>10, <1>11, Zenon DEF text

\* Data that is lost survives the parser too.
LEMMA EmptySurvives == Survives(<< >>)
<1>1. << >> \in Seq({}) /\ Len(<< >>) = 0
  OBVIOUS
<1>2. DepthFn(<< >>)[0] = 1 /\ \A i \in 0..0 : Depth(<< >>, i) = DepthFn(<< >>)[i]
  BY <1>1, DepthDef
<1>3. Depth(<< >>, 0) = 1
  BY <1>2
<1>4. 1..0 = {}
  OBVIOUS
<1> QED BY <1>1, <1>3, <1>4, Zenon DEF Survives, Contains

\* parse_intents makes of texts without delimiters the intents of each, in their
\* order.
LEMMA ParsedTexts ==
  ASSUME NEW A, "&&" \in A, NEW ts \in Seq(Seq(A)), ts # << >>, AllFree(ts, "&&"),
         NEW left, Len(left) = Len(ts),
         \A k \in 1..Len(ts) : ParsePart(Trim(ts[k])) = left[k],
         NEW b \in Seq(A), IsBlank(b), NEW glue, IsGlue(glue, "&&", A)
  PROVE  ParseIntents(b \o Join(ts, glue)) = Predicate(left)
<1> DEFINE n == Len(ts)
           j == Join(ts, glue)
           text == b \o j
           parts == TrimAll(ts)
<1>1. "&&" # Blank
  BY DEF Blank
<1>2. glue \in Seq(A)
  BY GlueType
<1>3. j \in Seq(A) /\ TrimmedPieces(j, "&&") = TrimAll(ts)
  BY <1>1, <1>2, JoinType, PiecesOfJoin
<1> HIDE DEF j
<1>4. TrimmedPieces(b \o j, "&&") = TrimmedPieces(j, "&&")
  BY <1>1, <1>3, PiecesAround
<1>5. Parts(text) = parts
  BY <1>3, <1>4, Zenon DEF Parts
<1>6. Len(parts) = n /\ \A k \in 1..n : parts[k] = Trim(ts[k])
  BY TrimAllType
<1> HIDE DEF text, parts
<1>7. ParseIntents(text) = [k \in 1..n |->
        [type |-> ParsePart(parts[k]).type, statement |-> Statement(ParsePart(parts[k]))]]
  BY <1>5, <1>6, Zenon DEF ParseIntents
<1>8. \A k \in 1..n : ParsePart(parts[k]) = left[k]
  BY <1>6
<1>9. ParseIntents(text) = [k \in 1..n |->
        [type |-> left[k].type, statement |-> Statement(left[k])]]
  BY <1>7, <1>8
<1> QED BY <1>9, Zenon DEF Predicate, text, j

\* Separators that are glue: alone, or with a blank on one side or both.
LEMMA Glue ==
  ASSUME NEW A, NEW sep \in A, NEW b \in A, b = Blank
  PROVE  IsGlue(<<sep>>, sep, A) /\ IsGlue(<<sep, b>>, sep, A) /\ IsGlue(<<b, sep, b>>, sep, A)
<1>1. << >> \in Seq(A) /\ <<b>> \in Seq(A)
  OBVIOUS
<1>2. /\ <<sep>> = Append(<< >>, sep) \o << >>
      /\ <<sep, b>> = Append(<< >>, sep) \o <<b>>
      /\ <<b, sep, b>> = Append(<<b>>, sep) \o <<b>>
  OBVIOUS
<1>3. IsBlank(<<b>>)
  BY DEF IsBlank
<1> QED BY <1>1, <1>2, <1>3, EmptyBlank, Zenon DEF IsGlue

\* A blank string names no intent and does not parse.
LEMMA BlankNotParsed ==
  ASSUME NEW A, NEW text \in Seq(A), IsBlank(text)
  PROVE  ~ ParsesOk(text)
<1>1. "&&" # Blank
  BY DEF Blank
<1>2. Parts(text) = <<Trim(text)>>
  <2>1. ASSUME NEW sep, sep # Blank PROVE TrimmedPieces(text, sep) = <<Trim(text)>>
    BY <2>1, BlankFree, PiecesFree
  <2> QED BY <1>1, <2>1, Zenon DEF Parts
<1>3. Trim(text) = << >>
  <2>1. << >> \in Seq(A) /\ text \o << >> = text
    OBVIOUS
  <2>2. Trim(text \o << >>) = Trim(<< >>)
    BY <2>1, TrimAround, Zenon
  <2>3. Trim(<< >>) = << >>
    BY <2>1, EmptyBlank, TrimInked, Zenon
  <2> QED BY <2>1, <2>2, <2>3, Zenon
<1>4. Opening(<< >>) = 0
  BY DEF Opening, SelectInSeq
<1>5. Parts(text) = << << >> >>
  BY <1>2, <1>3, Zenon
<1>6. Len(Parts(text)) = 1 /\ Parts(text)[1] = << >>
  BY <1>5
<1>7. 1 \in 1..Len(Parts(text))
  BY <1>6
<1> QED BY <1>4, <1>6, <1>7, Zenon DEF ParsesOk

\* The parts of a text are texts.
LEMMA PartsType ==
  ASSUME NEW A, NEW text \in Seq(A)
  PROVE  Parts(text) \in Seq(Seq(A))
<1>1. Split(text, "&&") \in Seq(Seq(A))
  BY SplitType DEF Pieces
<1>2. TrimAll(Split(text, "&&")) \in Seq(Seq(A))
  BY <1>1, TrimAllType, Zenon
<1> QED BY <1>2, TrimmedIsTrimAll, Zenon DEF Parts

\* What parse_intents returns has only the types there are gadgets for.
LEMMA ParsedTypes ==
  ASSUME NEW A, NEW text \in Seq(A), ParsesOk(text)
  PROVE  \A k \in 1..Len(ParseIntents(text)) : ParseIntents(text)[k].type \in Types
<1> DEFINE n == Len(Parts(text))
           I == ParseIntents(text)
<1>1. n \in Nat
  BY PartsType
<1>2. I = [k \in 1..n |-> [type |-> ParsePart(Parts(text)[k]).type,
                           statement |-> Statement(ParsePart(Parts(text)[k]))]]
  BY Zenon DEF ParseIntents
<1>3. \A k \in 1..n : ParsePart(Parts(text)[k]).type \in Types
  BY Zenon DEF ParsesOk
<1> HIDE DEF I, n
<1>4. Len(I) = n
  BY <1>1, <1>2
<1>5. \A k \in 1..n : I[k].type = ParsePart(Parts(text)[k]).type
  BY <1>2
<1> QED BY <1>3, <1>4, <1>5 DEF I

(***************************************************************************)
(* The verdict                                                             *)
(***************************************************************************)
Verdicts(intents, witnesses, chain) ==
  [k \in 1..Len(intents) |-> VerifyIntent(intents[k], witnesses[k], chain)]

\* The first verdict that is not true, if any.
FirstOther(verdicts) == SelectInSeq(verdicts, LAMBDA v : v # "true")

\* FirstOther is 0 if all verdicts are true, and else a place of one that is
\* not.
LEMMA FirstOtherIs ==
  ASSUME NEW n \in Nat, NEW verdicts, Len(verdicts) = n
  PROVE  IF \A k \in 1..n : verdicts[k] = "true" THEN FirstOther(verdicts) = 0
         ELSE FirstOther(verdicts) \in {k \in 1..n : verdicts[k] # "true"}
<1> DEFINE I == {k \in 1..n : verdicts[k] # "true"}
<1>1. FirstOther(verdicts) = IF I # {} THEN Min(I) ELSE 0
  BY DEF FirstOther, SelectInSeq
<1>2. I \subseteq Nat /\ I \subseteq Int
  OBVIOUS
<1>3. (I = {}) <=> \A k \in 1..n : verdicts[k] = "true"
  OBVIOUS
<1>4. I # {} => Min(I) \in I
  <2> SUFFICES ASSUME I # {} PROVE Min(I) \in I
    OBVIOUS
  <2> HIDE DEF I
  <2>1. PICK m \in I : \A k \in I : m <= k
    BY <1>2, Least
  <2>2. Min(I) = m
    BY <1>2, <2>1, MinIs
  <2> QED BY <2>2
<1> QED BY <1>1, <1>3, <1>4

\* verify_intents, with its LET taken apart.
LEMMA VerdictIs ==
  ASSUME NEW intents, NEW witnesses, NEW chain
  PROVE  VerifyIntents(intents, witnesses, chain) =
           IF Len(witnesses) # Len(intents) THEN "panic"
           ELSE IF FirstOther(Verdicts(intents, witnesses, chain)) = 0 THEN "true"
           ELSE Verdicts(intents, witnesses, chain)
                  [FirstOther(Verdicts(intents, witnesses, chain))]
  BY DEF VerifyIntents, FirstOther, Verdicts

\* verify_intents says true if there is a witness for every intent and every
\* gadget says true; it is an error or a panic if the gadgets are.
LEMMA VerifiedAll ==
  ASSUME NEW intents, Len(intents) \in Nat, NEW witnesses, NEW chain
  PROVE  /\ VerifyIntents(intents, witnesses, chain) = "true" <=>
              /\ Len(witnesses) = Len(intents)
              /\ \A k \in 1..Len(intents) :
                   VerifyIntent(intents[k], witnesses[k], chain) = "true"
         /\ (\A k \in 1..Len(intents) :
               VerifyIntent(intents[k], witnesses[k], chain) \in {"true", "error"})
            => VerifyIntents(intents, witnesses, chain) \in {"true", "error", "panic"}
<1> DEFINE n == Len(intents)
           v == Verdicts(intents, witnesses, chain)
           first == FirstOther(v)
<1>1. Len(v) = n /\ \A k \in 1..n : v[k] = VerifyIntent(intents[k], witnesses[k], chain)
  BY DEF Verdicts
<1>2. VerifyIntents(intents, witnesses, chain)
        = IF Len(witnesses) # n THEN "panic" ELSE IF first = 0 THEN "true" ELSE v[first]
  BY VerdictIs
<1> HIDE DEF v
<1>3. IF \A k \in 1..n : v[k] = "true" THEN first = 0
      ELSE first \in {k \in 1..n : v[k] # "true"}
  BY <1>1, FirstOtherIs
<1> HIDE DEF first
<1> QED BY <1>1, <1>2, <1>3

\* The password gadget takes the password and nothing else.
LEMMA PasswordTaken ==
  ASSUME NEW intent, intent.type = <<"Password">>, NEW data,
         intent.statement = Sha256(data), NEW witness, NEW chain
  PROVE  /\ VerifyIntent(intent, witness, chain) \in {"true", "error"}
         /\ VerifyIntent(intent, witness, chain) = "true" <=> witness = data
<1>1. VerifyIntent(intent, witness, chain) = PasswordVerdict(witness, intent.statement)
  BY DEF VerifyIntent
<1>2. (Sha256(witness) = Sha256(data)) <=> (witness = data)
  BY DEF Sha256
<1> QED BY <1>1, <1>2 DEF PasswordVerdict

\* The password gadget queries no chain, so no query of it fails.
LEMMA PasswordsOnly ==
  ASSUME NEW intents, \A k \in 1..Len(intents) : intents[k].type = <<"Password">>,
         NEW witnesses, NEW chain
  PROVE  Verifications(intents, witnesses, chain)
           = {VerifyIntents(intents, witnesses, chain)}
<1>1. ASSUME NEW k \in 1..Len(intents) PROVE ~ Queries(intents[k], witnesses[k])
  <2>1. <<"Password">> # <<"Psp22">> /\ <<"Password">> # <<"Sr25519">>
    OBVIOUS
  <2> QED BY <2>1, Zenon DEF Queries
<1> DEFINE failing == {i \in 1..Len(intents) :
             /\ Len(witnesses) = Len(intents)
             /\ Queries(intents[i], witnesses[i])
             /\ \A j \in 1..(i - 1) :
                  VerifyIntent(intents[j], witnesses[j], chain) = "true"}
           failed == {FailedQuery(intents[k]) : k \in failing}
<1>2. failing = {}
  BY <1>1, Zenon
<1>3. Verifications(intents, witnesses, chain)
        = {VerifyIntents(intents, witnesses, chain)} \cup failed
  BY Zenon DEF Verifications
<1> HIDE DEF failing
<1>4. failed = {}
  BY <1>2
<1> QED BY <1>3, <1>4

\* What is typed with commas between is cut there.
LEMMA CutAtCommas ==
  ASSUME NEW A, "," \in A, NEW ds \in Seq(Seq(A)), ds # << >>,
         AllFree(ds, ","), NEW glue, IsGlue(glue, ",", A)
  PROVE  TrimmedPieces(Join(ds, glue), ",") = TrimAll(ds)
<1>1. "," # Blank
  BY DEF Blank
<1> QED BY <1>1, PiecesOfJoin, Zenon

\* Passwords that are typed with commas between them are the witnesses.
LEMMA WitnessesOfJoin ==
  ASSUME NEW A, "," \in A, NEW ds \in Seq(Seq(A)), ds # << >>,
         AllFree(ds, ","), TrimAll(ds) = ds, NEW glue, IsGlue(glue, ",", A)
  PROVE  Witnesses(Join(ds, glue)) = ds
<1> DEFINE text == Join(ds, glue)
<1>1. "," # Blank
  BY DEF Blank
<1>2. glue \in Seq(A)
  BY GlueType
<1>3. text \in Seq(A)
  BY <1>2, JoinType
<1>4. TrimmedPieces(text, ",") = TrimAll(ds)
  BY CutAtCommas
<1> HIDE DEF text
<1>5. TrimmedPieces(Trim(text), ",") = TrimmedPieces(text, ",")
  BY <1>1, <1>3, PiecesOfTrimmed
<1> QED BY <1>4, <1>5, Zenon DEF Witnesses, text

==============================================================================
