---------------------------- MODULE TestLogProofs -----------------------------
(***************************************************************************)
(* What the page shows of a log is what the log has, for any output, what  *)
(* follows it in the file, chunk size and limits.  First what folds over   *)
(* sequences compute, then decoding, splitting into lines and joining, and *)
(* on these the readers from both ends.                                    *)
(***************************************************************************)
EXTENDS TestLog, SequenceTheorems, FiniteSetTheorems, WellFoundedInduction, TLAPS

-----------------------------------------------------------------------------
(* Induction                                                                *)

LEMMA LeastNat ==
  ASSUME NEW T \in SUBSET Nat, T # {}
  PROVE  \E x \in T : \A y \in T : x <= y
<1> DEFINE Less == {p \in Nat \X Nat : p[1] < p[2]}
<1>1. OpToRel(<, Nat) = Less
  BY DEF OpToRel
<1>2. IsWellFoundedOn(Less, Nat)
  BY <1>1, NatLessThanWellFounded
<1>3. \A x, y \in T : <<y, x>> \notin Less => x <= y
  OBVIOUS
<1>4. \E x \in T : \A y \in T : <<y, x>> \notin Less
  <2> HIDE DEF Less
  <2> QED  BY <1>2, WFMin
<1> QED  BY <1>3, <1>4

LEMMA NatInduct ==
  ASSUME NEW T, 0 \in T, \A n \in Nat : n \in T => n + 1 \in T
  PROVE  Nat \subseteq T
<1> SUFFICES ASSUME Nat \ T # {} PROVE FALSE
  OBVIOUS
<1>1. PICK x \in Nat \ T : \A y \in Nat \ T : x <= y
  BY LeastNat
<1>2. x # 0 /\ x - 1 \in Nat /\ x - 1 \in T
  BY <1>1
<1> QED  BY <1>1, <1>2

\* A sequence is empty or an element after a shorter one.
LEMMA FrontLast ==
  ASSUME NEW S, NEW s \in Seq(S), s # <<>>
  PROVE  /\ Front(s) \in Seq(S) /\ Last(s) \in S /\ s = Append(Front(s), Last(s))
         /\ Len(s) = Len(Front(s)) + 1
<1>1. Len(s) \in Nat \ {0} /\ s[Len(s)] \in S
  OBVIOUS
<1> DEFINE f == SubSeq(s, 1, Len(s) - 1)
<1>2. f \in Seq(S) /\ Len(f) = Len(s) - 1 /\ \A i \in 1..Len(f) : f[i] = s[i]
  <2>1. 1 \in Int /\ Len(s) - 1 \in Int /\ \A i \in 1..(Len(s) - 1) : s[i] \in S
    BY <1>1
  <2>2. /\ f \in Seq(S) /\ Len(f) = IF 1 <= Len(s) - 1 THEN Len(s) - 1 - 1 + 1 ELSE 0
        /\ \A i \in 1..(Len(s) - 1 - 1 + 1) : f[i] = s[1 + i - 1]
    BY <2>1, SubSeqProperties
  <2> HIDE DEF f
  <2>3. Len(f) = Len(s) - 1
    <3>1. \A n \in Nat \ {0} : (IF 1 <= n - 1 THEN n - 1 - 1 + 1 ELSE 0) = n - 1
      OBVIOUS
    <3> QED  BY <1>1, <2>2, <3>1
  <2>4. \A i \in 1..Len(f) : i \in 1..(Len(s) - 1 - 1 + 1) /\ 1 + i - 1 = i
    BY <1>1, <2>3
  <2> QED  BY <2>2, <2>3, <2>4
<1>3. s = Append(f, s[Len(s)])
  <2> DEFINE t == Append(f, s[Len(s)])
  <2>1. t \in Seq(S) /\ Len(t) = Len(s)
    BY <1>1, <1>2
  <2>2. \A i \in 1..Len(s) : t[i] = s[i]
    <3>1. \A i \in 1..Len(s) : i \in 1..Len(f) \/ i = Len(f) + 1
      BY <1>1, <1>2
    <3>2. t[Len(f) + 1] = s[Len(s)] /\ \A i \in 1..Len(f) : t[i] = f[i]
      BY <1>1, <1>2
    <3> HIDE DEF t, f
    <3> QED  BY <1>1, <1>2, <3>1, <3>2
  <2> HIDE DEF t
  <2>3. t = s
    BY <2>1, <2>2, SeqEqual
  <2> QED  BY <2>3 DEF t
<1> HIDE DEF f
<1>4. Front(s) = f /\ Last(s) = s[Len(s)]
  BY DEF Front, Last, f
<1> QED  BY <1>1, <1>2, <1>3, <1>4

LEMMA FrontLastAppend ==
  ASSUME NEW S, NEW s \in Seq(S), NEW e \in S
  PROVE  /\ Front(Append(s, e)) = s /\ Last(Append(s, e)) = e /\ Append(s, e) # <<>>
         /\ Append(s, e) \in Seq(S)
<1>1. Append(s, e) \in Seq(S) /\ Len(Append(s, e)) = Len(s) + 1
  OBVIOUS
<1>2. SubSeq(Append(s, e), 1, Len(s)) = s
  OBVIOUS
<1>3. Append(s, e)[Len(s) + 1] = e /\ Append(s, e) # <<>>
  OBVIOUS
<1>4. Len(Append(s, e)) - 1 = Len(s)
  BY <1>1
<1> DEFINE t == Append(s, e)
<1> HIDE DEF t
<1>5. Front(t) = SubSeq(t, 1, Len(t) - 1) /\ Last(t) = t[Len(t)]
  BY DEF Front, Last
<1> QED  BY <1>1, <1>2, <1>3, <1>4, <1>5 DEF t

LEMMA SeqInduct ==
  ASSUME NEW S, NEW T, <<>> \in T,
         \A s \in Seq(S), e \in S : s \in T => Append(s, e) \in T
  PROVE  Seq(S) \subseteq T
<1> DEFINE N == {n \in Nat : \A s \in Seq(S) : Len(s) = n => s \in T}
<1>1. 0 \in N
  <2>1. \A s \in Seq(S) : Len(s) = 0 => s = <<>>
    OBVIOUS
  <2> QED  BY <2>1
<1>2. ASSUME NEW n \in Nat, n \in N PROVE n + 1 \in N
  <2> SUFFICES ASSUME NEW s \in Seq(S), Len(s) = n + 1 PROVE s \in T
    OBVIOUS
  <2>1. s # <<>>
    OBVIOUS
  <2>2. /\ Front(s) \in Seq(S) /\ Last(s) \in S /\ s = Append(Front(s), Last(s))
        /\ Len(s) = Len(Front(s)) + 1 /\ Len(Front(s)) \in Nat
    BY <2>1, FrontLast
  <2>3. Front(s) \in T
    BY <1>2, <2>2
  <2> QED  BY <2>2, <2>3
<1>3. Nat \subseteq N
  <2> HIDE DEF N
  <2> QED  BY <1>1, <1>2, NatInduct
<1> QED  BY <1>3

-----------------------------------------------------------------------------
(* Folds                                                                    *)

\* A fold is defined for every sequence, and goes one step per element.
LEMMA FoldingUnfolds ==
  ASSUME NEW S, NEW step, DOMAIN step = S, NEW base
  PROVE  /\ Folding(step, base)[<<>>] = base
         /\ \A s \in Seq(S), e \in S :
              Folding(step, base)[Append(s, e)] = step[e][Folding(step, base)[s]]
<1> DEFINE Short(n) == {s \in Seq(S) : Len(s) <= n}
           Is(D, f) == f = [s \in D |-> IF s = <<>> THEN base
                                        ELSE step[Last(s)][f[Front(s)]]]
           T == {n \in Nat : \E f : Is(Short(n), f)}
<1>1. 0 \in T
  <2>1. \A s \in Short(0) : s = <<>>
    OBVIOUS
  <2>2. Is(Short(0), [s \in Short(0) |-> base])
    BY <2>1
  <2> QED  BY <2>2
<1>2. ASSUME NEW n \in Nat, n \in T PROVE n + 1 \in T
  <2>1. PICK f : Is(Short(n), f)
    BY <1>2
  <2> DEFINE g == [s \in Short(n + 1) |-> IF s = <<>> THEN base
                                          ELSE step[Last(s)][f[Front(s)]]]
  <2>2. \A s \in Short(n) : s \in Short(n + 1)
    OBVIOUS
  <2>3. \A s \in Short(n + 1) : s # <<>> => Front(s) \in Short(n)
    BY FrontLast
  <2>4. \A s \in Short(n) : g[s] = f[s]
    <3> HIDE DEF Short
    <3> QED  BY <2>1, <2>2
  <2>5. Is(Short(n + 1), g)
    <3> HIDE DEF Short
    <3> QED  BY <2>3, <2>4
  <2> HIDE DEF Is, g, Short
  <2>6. \E h : Is(Short(n + 1), h)
    BY <2>5
  <2> QED  BY <2>6
<1>3. ASSUME NEW n \in Nat PROVE \E f : Is(Short(n), f)
  <2>1. n \in T
    <3> HIDE DEF T
    <3> QED  BY <1>1, <1>2, NatInduct
  <2> QED  BY <2>1
<1> DEFINE A(n) == CHOOSE f : Is(Short(n), f)
<1>4. ASSUME NEW n \in Nat PROVE Is(Short(n), A(n))
  <2> HIDE DEF Is, Short
  <2> QED  BY <1>3
<1> DEFINE Agree == {s \in Seq(S) : \A n, m \in Nat :
                       Len(s) <= n /\ Len(s) <= m => A(n)[s] = A(m)[s]}
<1>5. ASSUME NEW n \in Nat, NEW s \in Seq(S), Len(s) <= n
      PROVE  A(n)[s] = IF s = <<>> THEN base ELSE step[Last(s)][A(n)[Front(s)]]
  <2>1. s \in Short(n)
    BY <1>5
  <2>2. A(n) = [r \in Short(n) |-> IF r = <<>> THEN base ELSE step[Last(r)][A(n)[Front(r)]]]
    <3> HIDE DEF A, Short
    <3> QED  BY <1>4
  <2> HIDE DEF A, Short
  <2> QED  BY <2>1, <2>2
<1>6. Seq(S) \subseteq Agree
  <2>1. <<>> \in Agree
    <3>1. ASSUME NEW n \in Nat PROVE A(n)[<<>>] = base
      <4>1. <<>> \in Seq(S) /\ Len(<<>>) <= n
        OBVIOUS
      <4> HIDE DEF A
      <4> QED  BY <1>5, <4>1
    <3> HIDE DEF A
    <3> QED  BY <3>1
  <2>2. ASSUME NEW s \in Seq(S), NEW e \in S, s \in Agree PROVE Append(s, e) \in Agree
    <3> DEFINE t == Append(s, e)
    <3>1. t \in Seq(S) /\ t # <<>> /\ Front(t) = s /\ Last(t) = e /\ Len(t) = Len(s) + 1
      BY FrontLastAppend
    <3> SUFFICES ASSUME NEW n \in Nat, NEW m \in Nat, Len(t) <= n, Len(t) <= m
                 PROVE  A(n)[t] = A(m)[t]
      BY <3>1
    <3> HIDE DEF A, t
    <3>2. A(n)[t] = step[e][A(n)[s]] /\ A(m)[t] = step[e][A(m)[s]]
      BY <1>5, <3>1
    <3>3. Len(s) <= n /\ Len(s) <= m
      BY <3>1
    <3>4. A(n)[s] = A(m)[s]
      BY <2>2, <3>3
    <3> QED  BY <3>2, <3>4
  <2> HIDE DEF Agree
  <2> QED  BY <2>1, <2>2, SeqInduct
<1> DEFINE h == [s \in Seq(S) |-> A(Len(s))[s]]
<1>7. Is(Seq(S), h)
  <2> SUFFICES ASSUME NEW s \in Seq(S)
               PROVE  h[s] = IF s = <<>> THEN base ELSE step[Last(s)][h[Front(s)]]
    <3> HIDE DEF h
    <3>1. h = [s \in Seq(S) |-> h[s]]
      BY DEF h
    <3> QED  BY <3>1
  <2> HIDE DEF A
  <2>0. Len(s) \in Nat
    OBVIOUS
  <2>1. CASE s = <<>>
    <3>1. Len(s) <= Len(s)
      BY <2>0
    <3>2. A(Len(s))[s] = IF s = <<>> THEN base ELSE step[Last(s)][A(Len(s))[Front(s)]]
      BY <1>5, <2>0, <3>1
    <3>3. A(Len(s))[s] = base
      BY <2>1, <3>2
    <3> QED  BY <2>1, <3>3
  <2>2. CASE s # <<>>
    <3>1. Front(s) \in Seq(S) /\ Len(s) = Len(Front(s)) + 1
      BY <2>2, FrontLast
    <3>2. A(Len(s))[Front(s)] = A(Len(Front(s)))[Front(s)]
      <4>1. Front(s) \in Agree
        BY <1>6, <3>1
      <4> QED  BY <3>1, <4>1
    <3>3. h[s] = step[Last(s)][A(Len(s))[Front(s)]]
      BY <1>5, <2>2
    <3> QED  BY <2>2, <3>1, <3>2, <3>3
  <2> QED  BY <2>1, <2>2
<1> DEFINE F == Folding(step, base)
<1>8. Is(Seq(S), F)
  <2>1. F = CHOOSE f : Is(Seq(S), f)
    BY DEF Folding
  <2> HIDE DEF Is, h, F
  <2> QED  BY <1>7, <2>1
<1>9. \A s \in Seq(S) : F[s] = IF s = <<>> THEN base ELSE step[Last(s)][F[Front(s)]]
  <2> HIDE DEF F
  <2> QED  BY <1>8
<1> HIDE DEF F
<1>10. F[<<>>] = base
  <2>1. <<>> \in Seq(S)
    OBVIOUS
  <2> QED  BY <1>9, <2>1
<1>11. ASSUME NEW s \in Seq(S), NEW e \in S PROVE F[Append(s, e)] = step[e][F[s]]
  <2>1. /\ Append(s, e) \in Seq(S) /\ Append(s, e) # <<>>
        /\ Front(Append(s, e)) = s /\ Last(Append(s, e)) = e
    BY FrontLastAppend
  <2> QED  BY <1>9, <2>1
<1> QED  BY <1>10, <1>11 DEF F

-----------------------------------------------------------------------------
(* Decoding                                                                 *)

LEMMA Appending ==
  ASSUME NEW S, NEW a \in Seq(S), NEW b \in Seq(S), NEW e \in S
  PROVE  a \o Append(b, e) = Append(a \o b, e) /\ a \o b \in Seq(S)
  OBVIOUS

LEMMA DecodedUnfolds ==
  /\ Decoded(<<>>) = <<>>
  /\ \A s \in Text, b \in Byte :
       /\ Decoded(s) \in Text
       /\ Decoded(Append(s, b)) = IF b = "hi" THEN Decoded(s) ELSE Append(Decoded(s), b)
<1>1. DOMAIN Decoding = Byte
  BY DEF Decoding
<1>2. \A b \in Byte, t \in Text : Decoding[b][t] = IF b = "hi" THEN t ELSE Append(t, b)
  BY DEF Decoding
<1>3. /\ Decoded(<<>>) = <<>>
      /\ \A s \in Text, b \in Byte : Decoded(Append(s, b)) = Decoding[b][Decoded(s)]
  BY <1>1, FoldingUnfolds DEF Decoded, Text
<1> DEFINE T == {s \in Text : Decoded(s) \in Text}
<1>4. <<>> \in T
  <2>1. <<>> \in Text
    BY DEF Text
  <2> QED  BY <1>3, <2>1
<1>5. ASSUME NEW s \in Text, NEW b \in Byte, s \in T PROVE Append(s, b) \in T
  <2>1. Append(s, b) \in Text /\ Append(Decoded(s), b) \in Text
    BY <1>5 DEF Text
  <2> QED  BY <1>2, <1>3, <1>5, <2>1
<1>6. Text \subseteq T
  <2> HIDE DEF T
  <2> QED  BY <1>4, <1>5, SeqInduct DEF Text
<1> QED  BY <1>2, <1>3, <1>6

\* Whatever chunks the bytes come in, they are decoded to the same text.
LEMMA DecodedConcat ==
  ASSUME NEW a \in Text, NEW b \in Text
  PROVE  /\ Decoded(a \o b) = Decoded(a) \o Decoded(b)
         /\ Decoded(a) \in Text /\ Decoded(b) \in Text /\ a \o b \in Text
<1> DEFINE T == {s \in Text : Decoded(a \o s) = Decoded(a) \o Decoded(s)}
<1>1. Decoded(a) \in Text
  BY DecodedUnfolds DEF Byte
<1>2. <<>> \in T
  <2>1. a \o <<>> = a /\ Decoded(a) \o <<>> = Decoded(a)
    BY <1>1, ConcatEmptySeq DEF Text
  <2> QED  BY <2>1, DecodedUnfolds DEF Text
<1>3. ASSUME NEW s \in Text, NEW e \in Byte, s \in T PROVE Append(s, e) \in T
  <2>1. /\ a \o Append(s, e) = Append(a \o s, e) /\ a \o s \in Text
        /\ Append(s, e) \in Text
    BY Appending DEF Text
  <2>2. Decoded(s) \in Text
    BY DecodedUnfolds
  <2>3. Decoded(a) \o Append(Decoded(s), e) = Append(Decoded(a) \o Decoded(s), e)
    BY <1>1, <2>2, Appending DEF Text
  <2>4. Decoded(a \o Append(s, e)) = IF e = "hi" THEN Decoded(a \o s)
                                     ELSE Append(Decoded(a \o s), e)
    BY <2>1, DecodedUnfolds
  <2>5. Decoded(Append(s, e)) = IF e = "hi" THEN Decoded(s) ELSE Append(Decoded(s), e)
    BY DecodedUnfolds
  <2> QED  BY <1>3, <2>1, <2>3, <2>4, <2>5
<1>4. Text \subseteq T
  <2> HIDE DEF T
  <2> QED  BY <1>2, <1>3, SeqInduct DEF Text
<1>5. Decoded(b) \in Text
  BY DecodedUnfolds DEF Byte
<1> QED  BY <1>1, <1>4, <1>5 DEF Text

Plain == Byte \ {"nl"}
Whole == {Append(s, "nl") : s \in Seq(Plain)}

LEMMA DecodedPlain ==
  ASSUME NEW s \in Seq(Plain)
  PROVE  s \in Text /\ Decoded(s) \in Seq(Plain)
<1> DEFINE T == {r \in Seq(Plain) : Decoded(r) \in Seq(Plain)}
<1>1. \A r \in Seq(Plain) : r \in Text
  BY DEF Text, Plain
<1>2. <<>> \in T
  <2>1. <<>> \in Seq(Plain)
    OBVIOUS
  <2> QED  BY <2>1, DecodedUnfolds
<1>3. ASSUME NEW r \in Seq(Plain), NEW e \in Plain, r \in T PROVE Append(r, e) \in T
  <2>1. Append(r, e) \in Seq(Plain) /\ Append(Decoded(r), e) \in Seq(Plain) /\ e \in Byte
    BY <1>3 DEF Plain
  <2>2. Decoded(Append(r, e)) = IF e = "hi" THEN Decoded(r) ELSE Append(Decoded(r), e)
    BY <1>1, <2>1, DecodedUnfolds
  <2> QED  BY <1>3, <2>1, <2>2
<1>4. Seq(Plain) \subseteq T
  <2> HIDE DEF T
  <2> QED  BY <1>2, <1>3, SeqInduct
<1> QED  BY <1>1, <1>4

\* Single-byte characters are decoded to themselves.
LEMMA DecodedSingle ==
  ASSUME NEW s \in Seq(Byte \ {"hi"})
  PROVE  Decoded(s) = s
<1> DEFINE T == {r \in Seq(Byte \ {"hi"}) : Decoded(r) = r}
<1>1. <<>> \in T
  BY DecodedUnfolds
<1>2. ASSUME NEW r \in Seq(Byte \ {"hi"}), NEW e \in Byte \ {"hi"}, r \in T
      PROVE  Append(r, e) \in T
  <2>1. r \in Text /\ e \in Byte /\ e # "hi" /\ Append(r, e) \in Seq(Byte \ {"hi"})
    BY DEF Text
  <2> QED  BY <1>2, <2>1, DecodedUnfolds
<1>3. Seq(Byte \ {"hi"}) \subseteq T
  <2> HIDE DEF T
  <2> QED  BY <1>1, <1>2, SeqInduct
<1> QED  BY <1>3

-----------------------------------------------------------------------------
(* Lines                                                                    *)

LEMMA Empties ==
  /\ <<>> \in Text /\ <<>> \in Seq(Text) /\ <<>> \in Seq(Plain) /\ <<>> \in Seq(Whole)
  /\ \A t \in Seq(Plain) : t \in Text
  /\ \A l \in Whole : l \in Text
  /\ \A ls \in Seq(Whole) : ls \in Seq(Text)
<1>1. \A t \in Seq(Plain) : t \in Seq(Byte)
  BY DEF Plain
<1>2. \A l \in Whole : l \in Seq(Byte)
  <2>1. "nl" \in Byte /\ \A t \in Seq(Byte) : Append(t, "nl") \in Seq(Byte)
    BY DEF Byte
  <2> QED  BY <1>1, <2>1 DEF Whole
<1>3. \A ls \in Seq(Whole) : ls \in Seq(Text)
  BY <1>2 DEF Text
<1> QED  BY <1>1, <1>2, <1>3 DEF Text

\* Splitting goes byte by byte; the lines end in their only newline, the rest has none.
LEMMA SplitUnfolds ==
  /\ Split(<<>>) = [lines |-> <<>>, rest |-> <<>>]
  /\ \A t \in Text, c \in Byte :
       /\ Split(t) \in [lines: Seq(Whole), rest: Seq(Plain)]
       /\ Split(Append(t, c)) =
            IF c = "nl"
            THEN [lines |-> Append(Split(t).lines, Append(Split(t).rest, c)), rest |-> <<>>]
            ELSE [lines |-> Split(t).lines, rest |-> Append(Split(t).rest, c)]
<1> DEFINE State == [lines: Seq(Text), rest: Text]
           Good == [lines: Seq(Whole), rest: Seq(Plain)]
           Step(c, s) == IF c = "nl"
                         THEN [lines |-> Append(s.lines, Append(s.rest, c)), rest |-> <<>>]
                         ELSE [lines |-> s.lines, rest |-> Append(s.rest, c)]
<1>1. DOMAIN Splitting = Byte
  BY DEF Splitting
<1>2. \A c \in Byte, s \in State : Splitting[c][s] = Step(c, s)
  BY DEF Splitting
<1>3. /\ Split(<<>>) = [lines |-> <<>>, rest |-> <<>>]
      /\ \A t \in Text, c \in Byte : Split(Append(t, c)) = Splitting[c][Split(t)]
  BY <1>1, FoldingUnfolds DEF Split, Text
<1>4. \A s \in Good : s \in State
  <2> SUFFICES ASSUME NEW s \in Good PROVE s.lines \in Seq(Text) /\ s.rest \in Text
    OBVIOUS
  <2> QED  BY Empties
<1> DEFINE T == {t \in Text : Split(t) \in Good}
<1>5. <<>> \in T
  <2>1. <<>> \in Text /\ <<>> \in Seq(Whole) /\ <<>> \in Seq(Plain)
    BY Empties
  <2>2. [lines |-> <<>>, rest |-> <<>>] \in Good
    BY <2>1
  <2> HIDE DEF Good
  <2> QED  BY <1>3, <2>1, <2>2
<1>6. ASSUME NEW c \in Byte, NEW s \in Good PROVE Step(c, s) \in Good
  <2>1. s.lines \in Seq(Whole) /\ s.rest \in Seq(Plain)
    OBVIOUS
  <2>2. CASE c = "nl"
    <3>1. Append(s.rest, c) \in Whole
      BY <2>1, <2>2 DEF Whole
    <3>2. Append(s.lines, Append(s.rest, c)) \in Seq(Whole)
      BY <2>1, <3>1
    <3> QED  BY <2>2, <3>2, Empties
  <2>3. CASE c # "nl"
    <3>1. Append(s.rest, c) \in Seq(Plain)
      BY <2>1, <2>3 DEF Plain
    <3> QED  BY <2>1, <2>3, <3>1
  <2> QED  BY <2>2, <2>3
<1>7. ASSUME NEW t \in Text, NEW c \in Byte, t \in T PROVE Append(t, c) \in T
  <2>1. Append(t, c) \in Text
    BY DEF Text
  <2>2. Split(Append(t, c)) = Step(c, Split(t))
    <3> HIDE DEF Step, Good, State
    <3> QED  BY <1>2, <1>3, <1>4, <1>7
  <2>3. Step(c, Split(t)) \in Good
    <3> HIDE DEF Step, Good, State
    <3> QED  BY <1>6, <1>7
  <2> HIDE DEF Step, Good
  <2> QED  BY <2>1, <2>2, <2>3
<1>8. Text \subseteq T
  <2> HIDE DEF T
  <2> QED  BY <1>5, <1>7, SeqInduct DEF Text
<1>9. \A t \in Text : Split(t) \in Good
  BY <1>8
<1>10. \A t \in Text, c \in Byte : Split(Append(t, c)) = Step(c, Split(t))
  <2> HIDE DEF Step, Good, State
  <2> QED  BY <1>2, <1>3, <1>4, <1>9
<1> QED  BY <1>3, <1>9, <1>10

LEMMA JoinedUnfolds ==
  /\ Joined(<<>>) = <<>>
  /\ \A ls \in Seq(Text), l \in Text :
       Joined(ls) \in Text /\ Joined(Append(ls, l)) = Joined(ls) \o l
<1>1. DOMAIN Joining = Text
  BY DEF Joining
<1>2. \A l \in Text, t \in Text : Joining[l][t] = t \o l
  BY DEF Joining
<1>3. /\ Joined(<<>>) = <<>>
      /\ \A ls \in Seq(Text), l \in Text : Joined(Append(ls, l)) = Joining[l][Joined(ls)]
  BY <1>1, FoldingUnfolds DEF Joined
<1> DEFINE T == {ls \in Seq(Text) : Joined(ls) \in Text}
<1>4. <<>> \in T
  BY <1>3, Empties
<1>5. ASSUME NEW ls \in Seq(Text), NEW l \in Text, ls \in T PROVE Append(ls, l) \in T
  <2>1. Append(ls, l) \in Seq(Text) /\ Joined(ls) \o l \in Text
    BY <1>5 DEF Text
  <2> QED  BY <1>2, <1>3, <1>5, <2>1
<1>6. Seq(Text) \subseteq T
  <2> HIDE DEF T
  <2> QED  BY <1>4, <1>5, SeqInduct
<1>7. Text # {}
  BY Empties
<1> QED  BY <1>2, <1>3, <1>6, <1>7

LEMMA JoinedConcat ==
  ASSUME NEW a \in Seq(Text), NEW b \in Seq(Text)
  PROVE  /\ Joined(a \o b) = Joined(a) \o Joined(b)
         /\ a \o b \in Seq(Text) /\ Joined(a) \in Text /\ Joined(b) \in Text
<1>1. \A s \in Seq(Text) : Joined(s) \in Text
  BY JoinedUnfolds, Empties
<1> DEFINE T == {s \in Seq(Text) : Joined(a \o s) = Joined(a) \o Joined(s)}
<1>2. <<>> \in T
  <2>1. a \o <<>> = a /\ Joined(a) \o <<>> = Joined(a)
    BY <1>1, ConcatEmptySeq DEF Text
  <2> QED  BY <2>1, JoinedUnfolds, Empties
<1>3. ASSUME NEW s \in Seq(Text), NEW e \in Text, s \in T PROVE Append(s, e) \in T
  <2>1. /\ a \o Append(s, e) = Append(a \o s, e) /\ a \o s \in Seq(Text)
        /\ Append(s, e) \in Seq(Text)
    BY Appending
  <2>2. Joined(a \o Append(s, e)) = Joined(a \o s) \o e
    BY <2>1, JoinedUnfolds
  <2>3. Joined(Append(s, e)) = Joined(s) \o e
    BY JoinedUnfolds
  <2>4. (Joined(a) \o Joined(s)) \o e = Joined(a) \o (Joined(s) \o e)
    <3>1. Joined(a) \in Seq(Byte) /\ Joined(s) \in Seq(Byte) /\ e \in Seq(Byte)
      BY <1>1 DEF Text
    <3> QED  BY <3>1, ConcatAssociative
  <2> QED  BY <1>3, <2>1, <2>2, <2>3, <2>4
<1>4. Seq(Text) \subseteq T
  <2> HIDE DEF T
  <2> QED  BY <1>2, <1>3, SeqInduct
<1>5. a \o b \in Seq(Text)
  OBVIOUS
<1> QED  BY <1>1, <1>4, <1>5

\* Text without a newline is left as the rest, after the lines that are complete.
LEMMA SplitPlain ==
  ASSUME NEW t \in Text, NEW r \in Seq(Plain), Split(t).rest = <<>>
  PROVE  Split(t \o r) = [lines |-> Split(t).lines, rest |-> r]
<1> DEFINE T == {s \in Seq(Plain) : Split(t \o s) = [lines |-> Split(t).lines, rest |-> s]}
<1>1. <<>> \in T
  <2>1. t \o <<>> = t
    BY ConcatEmptySeq DEF Text
  <2>2. "a" \in Byte
    BY DEF Byte
  <2>3. Split(t) \in [lines: Seq(Whole), rest: Seq(Plain)]
    BY <2>2, SplitUnfolds
  <2>4. Split(t) = [lines |-> Split(t).lines, rest |-> <<>>]
    BY <2>3
  <2> QED  BY <2>1, <2>4, Empties
<1>2. ASSUME NEW s \in Seq(Plain), NEW e \in Plain, s \in T PROVE Append(s, e) \in T
  <2>1. s \in Text /\ e \in Byte /\ e # "nl" /\ Append(s, e) \in Seq(Plain)
    BY Empties DEF Plain
  <2>2. t \o Append(s, e) = Append(t \o s, e) /\ t \o s \in Text
    BY <2>1, Appending DEF Text
  <2>3. Split(Append(t \o s, e)) = [lines |-> Split(t \o s).lines,
                                    rest |-> Append(Split(t \o s).rest, e)]
    BY <2>1, <2>2, SplitUnfolds
  <2>4. Split(t \o s).lines = Split(t).lines /\ Split(t \o s).rest = s
    BY <1>2
  <2> QED  BY <2>1, <2>2, <2>3, <2>4
<1>3. Seq(Plain) \subseteq T
  <2> HIDE DEF T
  <2> QED  BY <1>1, <1>2, SeqInduct
<1> QED  BY <1>3

LEMMA SplitJoined ==
  ASSUME NEW ls \in Seq(Whole)
  PROVE  Split(Joined(ls)) = [lines |-> ls, rest |-> <<>>] /\ Joined(ls) \in Text
<1> DEFINE T == {ks \in Seq(Whole) : Split(Joined(ks)) = [lines |-> ks, rest |-> <<>>]}
<1>1. \A ks \in Seq(Whole) : Joined(ks) \in Text
  BY JoinedUnfolds, Empties
<1>2. <<>> \in T
  BY SplitUnfolds, JoinedUnfolds, Empties
<1>3. ASSUME NEW ks \in Seq(Whole), NEW l \in Whole, ks \in T PROVE Append(ks, l) \in T
  <2>1. PICK s \in Seq(Plain) : l = Append(s, "nl")
    BY DEF Whole
  <2>2. Append(ks, l) \in Seq(Whole) /\ s \in Text /\ l \in Text
    BY Empties
  <2>3. Joined(Append(ks, l)) = Joined(ks) \o Append(s, "nl")
    BY <2>1, <2>2, JoinedUnfolds, Empties
  <2>4. /\ Joined(ks) \o Append(s, "nl") = Append(Joined(ks) \o s, "nl")
        /\ Joined(ks) \o s \in Text /\ "nl" \in Byte
    <3>1. "nl" \in Byte
      BY DEF Byte
    <3> QED  BY <1>1, <2>2, <3>1, Appending DEF Text
  <2>5. Split(Joined(ks) \o s) = [lines |-> ks, rest |-> s]
    <3>1. Split(Joined(ks)).rest = <<>> /\ Split(Joined(ks)).lines = ks
      BY <1>3
    <3> QED  BY <1>1, <3>1, SplitPlain
  <2>6. Split(Append(Joined(ks) \o s, "nl")) =
          [lines |-> Append(ks, Append(s, "nl")), rest |-> <<>>]
    <3>1. Split(Joined(ks) \o s).lines = ks /\ Split(Joined(ks) \o s).rest = s
      BY <2>5
    <3> QED  BY <2>4, <3>1, SplitUnfolds
  <2> QED  BY <2>1, <2>2, <2>3, <2>4, <2>6
<1>4. Seq(Whole) \subseteq T
  <2> HIDE DEF T
  <2> QED  BY <1>2, <1>3, SeqInduct
<1> QED  BY <1>1, <1>4

\* The lines and the rest are what a text is made of, and in one way only.
LEMMA SplitForm ==
  ASSUME NEW ls \in Seq(Whole), NEW r \in Seq(Plain)
  PROVE  /\ Joined(ls) \o r \in Text
         /\ Split(Joined(ls) \o r) = [lines |-> ls, rest |-> r]
         /\ Lines(Joined(ls) \o r) = IF r = <<>> THEN ls ELSE Append(ls, r)
<1>1. Split(Joined(ls)).rest = <<>> /\ Split(Joined(ls)).lines = ls /\ Joined(ls) \in Text
  BY SplitJoined
<1>2. Split(Joined(ls) \o r) = [lines |-> ls, rest |-> r]
  BY <1>1, SplitPlain
<1>3. Joined(ls) \o r \in Text
  <2>1. r \in Text
    BY Empties
  <2> QED  BY <1>1, <2>1 DEF Text
<1>4. Split(Joined(ls) \o r).lines = ls /\ Split(Joined(ls) \o r).rest = r
  BY <1>2
<1> QED  BY <1>2, <1>3, <1>4 DEF Lines

LEMMA TextForm ==
  ASSUME NEW t \in Text
  PROVE  /\ Split(t).lines \in Seq(Whole) /\ Split(t).rest \in Seq(Plain)
         /\ t = Joined(Split(t).lines) \o Split(t).rest
<1> DEFINE Form(s) == s = Joined(Split(s).lines) \o Split(s).rest
           T == {s \in Text : Form(s)}
<1>1. \A s \in Text : /\ Split(s) \in [lines: Seq(Whole), rest: Seq(Plain)]
                      /\ Split(s).lines \in Seq(Whole) /\ Split(s).rest \in Seq(Plain)
  <2>1. "a" \in Byte
    BY DEF Byte
  <2>2. \A s \in Text : Split(s) \in [lines: Seq(Whole), rest: Seq(Plain)]
    BY <2>1, SplitUnfolds
  <2> QED  BY <2>2
<1>2. <<>> \in T
  <2>1. Split(<<>>).lines = <<>> /\ Split(<<>>).rest = <<>> /\ Joined(<<>>) = <<>>
    BY SplitUnfolds, JoinedUnfolds
  <2>2. <<>> \o <<>> = <<>>
    OBVIOUS
  <2> QED  BY <2>1, <2>2, Empties
<1>3. ASSUME NEW s \in Text, NEW c \in Byte, s \in T PROVE Append(s, c) \in T
  <2> DEFINE ls == Split(s).lines
             r == Split(s).rest
  <2>1. /\ Append(s, c) \in Text /\ ls \in Seq(Whole) /\ r \in Seq(Plain)
        /\ ls \in Seq(Text) /\ r \in Text /\ Joined(ls) \in Text
    <3>1. ls \in Seq(Whole) /\ r \in Seq(Plain)
      BY <1>1
    <3>2. ls \in Seq(Text) /\ r \in Text
      BY <3>1, Empties
    <3>3. Joined(ls) \in Text
      BY <3>2, JoinedUnfolds
    <3>4. Append(s, c) \in Text
      BY DEF Text
    <3> QED  BY <3>1, <3>2, <3>3, <3>4
  <2>2. s = Joined(ls) \o r
    BY <1>3
  <2>3. Append(s, c) = Joined(ls) \o Append(r, c) /\ Append(r, c) \in Text
    <3> HIDE DEF ls, r
    <3>1. Joined(ls) \in Seq(Byte) /\ r \in Seq(Byte)
      BY <2>1 DEF Text
    <3>2. Joined(ls) \o Append(r, c) = Append(Joined(ls) \o r, c)
      BY <3>1, Appending
    <3> QED  BY <2>2, <3>1, <3>2 DEF Text
  <2>4. CASE c = "nl"
    <3>1. Split(Append(s, c)).lines = Append(ls, Append(r, c)) /\ Split(Append(s, c)).rest = <<>>
      BY <2>4, SplitUnfolds
    <3>2. Joined(Append(ls, Append(r, c))) = Joined(ls) \o Append(r, c)
      BY <2>1, <2>3, JoinedUnfolds
    <3>3. Append(s, c) \o <<>> = Append(s, c)
      BY <2>1, ConcatEmptySeq DEF Text
    <3> HIDE DEF ls, r
    <3> QED  BY <2>1, <2>3, <3>1, <3>2, <3>3
  <2>5. CASE c # "nl"
    <3>1. Split(Append(s, c)).lines = ls /\ Split(Append(s, c)).rest = Append(r, c)
      BY <2>5, SplitUnfolds
    <3> HIDE DEF ls, r
    <3> QED  BY <2>1, <2>3, <3>1
  <2> QED  BY <2>4, <2>5
<1>4. Text \subseteq T
  <2> HIDE DEF T
  <2> QED  BY <1>2, <1>3, SeqInduct DEF Text
<1> QED  BY <1>1, <1>4

\* The lines after complete lines are the lines of the text after them.
LEMMA LinesAfter ==
  ASSUME NEW ls \in Seq(Whole), NEW t \in Text
  PROVE  /\ Joined(ls) \o t \in Text
         /\ Lines(Joined(ls) \o t) = ls \o Lines(t)
         /\ Split(Joined(ls) \o t) = [lines |-> ls \o Split(t).lines, rest |-> Split(t).rest]
<1> DEFINE ks == Split(t).lines
           r == Split(t).rest
<1>1. /\ ks \in Seq(Whole) /\ r \in Seq(Plain) /\ t = Joined(ks) \o r
      /\ Lines(t) = IF r = <<>> THEN ks ELSE Append(ks, r)
  BY TextForm DEF Lines
<1> HIDE DEF ks, r
<1>2. /\ ls \in Seq(Text) /\ ks \in Seq(Text) /\ r \in Text /\ ls \o ks \in Seq(Whole)
  BY <1>1, Empties
<1>3. Joined(ls \o ks) = Joined(ls) \o Joined(ks) /\ Joined(ls) \in Text /\ Joined(ks) \in Text
  BY <1>2, JoinedConcat
<1>4. Joined(ls) \o t = Joined(ls \o ks) \o r
  <2>1. Joined(ls) \in Seq(Byte) /\ Joined(ks) \in Seq(Byte) /\ r \in Seq(Byte)
    BY <1>2, <1>3 DEF Text
  <2>2. (Joined(ls) \o Joined(ks)) \o r = Joined(ls) \o (Joined(ks) \o r)
    BY <2>1, ConcatAssociative
  <2> QED  BY <1>1, <1>3, <2>2
<1>5. /\ Joined(ls) \o t \in Text
      /\ Split(Joined(ls) \o t) = [lines |-> ls \o ks, rest |-> r]
      /\ Lines(Joined(ls) \o t) = IF r = <<>> THEN ls \o ks ELSE Append(ls \o ks, r)
  BY <1>1, <1>2, <1>4, SplitForm
<1>6. Append(ls \o ks, r) = ls \o Append(ks, r)
  <2>1. ls \in Seq(Text) /\ ks \in Seq(Text) /\ r \in Text
    BY <1>2
  <2>2. \A a, b \in Seq(Text), e \in Text : a \o Append(b, e) = Append(a \o b, e)
    BY Appending
  <2> QED  BY <2>1, <2>2
<1> QED  BY <1>1, <1>5, <1>6 DEF ks, r

\* The lines of a text, one after the other, are the text.
LEMMA JoinedLines ==
  ASSUME NEW t \in Text
  PROVE  Joined(Lines(t)) = t /\ Lines(t) \in Seq(Text)
<1> DEFINE ks == Split(t).lines
           r == Split(t).rest
<1>1. /\ ks \in Seq(Whole) /\ r \in Seq(Plain) /\ t = Joined(ks) \o r
      /\ Lines(t) = IF r = <<>> THEN ks ELSE Append(ks, r)
  BY TextForm DEF Lines
<1> HIDE DEF ks, r
<1>2. ks \in Seq(Text) /\ r \in Text
  BY <1>1, Empties
<1>3. Joined(ks) \in Text /\ Joined(Append(ks, r)) = Joined(ks) \o r
  BY <1>2, JoinedUnfolds
<1>4. Joined(ks) \o <<>> = Joined(ks)
  BY <1>3, ConcatEmptySeq DEF Text
<1>5. Append(ks, r) \in Seq(Text)
  BY <1>2
<1>6. CASE r = <<>>
  BY <1>1, <1>2, <1>4, <1>6
<1>7. CASE r # <<>>
  BY <1>1, <1>3, <1>5, <1>7
<1> QED  BY <1>6, <1>7

-----------------------------------------------------------------------------
(* One step of the line decoder                                             *)

Decoder == [buf: Text, offset: Nat, remaining: Nat, text: Text]
Inputs == /\ log \in Text /\ next \in Text
          /\ limit \in [chunk: Nat \ {0}, lines: Nat \ {0}, bytes: Nat]

\* The bytes left in the buffer are the next bytes of the file, and what was decoded
\* so far, lines and unfinished text, is the part of the output before them.
Buffered(d) ==
  /\ d.offset \in 0..Len(d.buf) /\ d.remaining \in 0..LogLen
  /\ LogLen - d.remaining + Len(d.buf) - d.offset <= LogLen + Len(next)
  /\ \A i \in 1..(Len(d.buf) - d.offset) :
       d.buf[d.offset + i] = (log \o next)[LogLen - d.remaining + i]
Sofar(d, ls, t) == Joined(ls) \o t = Decoded(SubSeq(log, 1, LogLen - d.remaining))

LEMMA Slices ==
  ASSUME NEW S, NEW s \in Seq(S), NEW a \in 0..Len(s), NEW b \in a..Len(s)
  PROVE  /\ SubSeq(s, a + 1, b) \in Seq(S) /\ Len(SubSeq(s, a + 1, b)) = b - a
         /\ \A i \in 1..(b - a) : SubSeq(s, a + 1, b)[i] = s[a + i]
<1>1. Len(s) \in Nat /\ a \in Nat /\ b \in Nat /\ a <= b /\ b <= Len(s)
  OBVIOUS
<1>2. \A i \in (a + 1)..b : s[i] \in S
  BY <1>1, ElementOfSeq
<1> DEFINE u == SubSeq(s, a + 1, b)
<1>3. /\ u \in Seq(S) /\ Len(u) = IF a + 1 <= b THEN b - (a + 1) + 1 ELSE 0
      /\ \A i \in 1..(b - (a + 1) + 1) : u[i] = s[(a + 1) + i - 1]
  BY <1>1, <1>2, SubSeqProperties
<1> HIDE DEF u
<1>4. Len(u) = b - a
  BY <1>1, <1>3
<1>5. \A i \in 1..(b - a) : i \in 1..(b - (a + 1) + 1) /\ (a + 1) + i - 1 = a + i
  BY <1>1
<1>6. \A i \in 1..(b - a) : u[i] = s[a + i]
  BY <1>3, <1>5
<1> QED  BY <1>3, <1>4, <1>6 DEF u

LEMMA Adjacent ==
  ASSUME NEW S, NEW s \in Seq(S), NEW a \in 0..Len(s), NEW b \in a..Len(s)
  PROVE  /\ SubSeq(s, 1, a) \o SubSeq(s, a + 1, b) = SubSeq(s, 1, b)
         /\ SubSeq(s, 1, a) \in Seq(S) /\ SubSeq(s, 1, b) \in Seq(S)
<1>1. Len(s) \in Nat /\ a \in Nat /\ b \in Nat /\ a <= b /\ b <= Len(s)
  OBVIOUS
<1>2. 1 \in 1..(Len(s) + 1) /\ a \in 1 - 1..Len(s) /\ b \in a..Len(s)
  BY <1>1
<1>3. SubSeq(s, 1, a) \o SubSeq(s, a + 1, b) = SubSeq(s, 1, b)
  BY <1>2, ConcatAdjacentSubSeq
<1>4. \A c \in 0..Len(s) : SubSeq(s, 1, c) \in Seq(S)
  <2> SUFFICES ASSUME NEW c \in 0..Len(s) PROVE SubSeq(s, 1, c) \in Seq(S)
    OBVIOUS
  <2>1. 0 \in 0..Len(s) /\ c \in 0..Len(s) /\ 0 + 1 = 1
    BY <1>1
  <2>2. SubSeq(s, 0 + 1, c) \in Seq(S)
    BY <2>1, Slices
  <2> QED  BY <2>1, <2>2
<1> QED  BY <1>1, <1>3, <1>4

LEMMA OneMore ==
  ASSUME NEW S, NEW s \in Seq(S), NEW n \in Nat, n + 1 <= Len(s)
  PROVE  SubSeq(s, 1, n + 1) = Append(SubSeq(s, 1, n), s[n + 1])
<1> DEFINE u == SubSeq(s, n + 1, n + 1)
           v == SubSeq(s, 1, n)
           e == s[n + 1]
<1>1. /\ Len(s) \in Nat /\ n \in 0..Len(s) /\ n + 1 \in n..Len(s) /\ n + 1 \in 1..Len(s)
      /\ e \in S
  OBVIOUS
<1>2. v \o u = SubSeq(s, 1, n + 1) /\ v \in Seq(S)
  BY <1>1, Adjacent
<1>3. u \in Seq(S) /\ Len(u) = (n + 1) - n /\ \A i \in 1..((n + 1) - n) : u[i] = s[n + i]
  BY <1>1, Slices
<1> HIDE DEF u, v
<1>4. Len(u) = 1 /\ u[1] = e
  BY <1>3
<1> HIDE DEF e
<1>5. u = <<e>>
  <2>1. u \in Seq(S) /\ \A q \in Seq(S) : Len(q) = 1 => q = <<q[1]>>
    BY <1>3
  <2> QED  BY <1>4, <2>1
<1>6. v \o <<e>> = Append(v, e)
  BY <1>1, <1>2
<1> QED  BY <1>2, <1>5, <1>6 DEF v, e

\* Taking m bytes from the buffer extends what was decoded by their characters.
LEMMA Taken ==
  ASSUME Inputs, NEW d \in Decoder, Buffered(d), NEW ls \in Seq(Whole), Sofar(d, ls, d.text),
         NEW m \in Nat, m <= Len(d.buf) - d.offset, m <= d.remaining
  PROVE  /\ SubSeq(d.buf, d.offset + 1, d.offset + m) \in Text
         /\ Len(SubSeq(d.buf, d.offset + 1, d.offset + m)) = m
         /\ Joined(ls) \o (d.text \o Decoded(SubSeq(d.buf, d.offset + 1, d.offset + m)))
              = Decoded(SubSeq(log, 1, LogLen - d.remaining + m))
<1> DEFINE c == LogLen - d.remaining
           u == SubSeq(d.buf, d.offset + 1, d.offset + m)
           v == SubSeq(log, c + 1, c + m)
<1>1. /\ d.buf \in Seq(Byte) /\ d.offset \in Nat /\ d.remaining \in Nat /\ d.text \in Text
      /\ log \in Seq(Byte) /\ next \in Seq(Byte) /\ LogLen = Len(log) /\ LogLen \in Nat
  BY DEF Decoder, Inputs, Text, LogLen
<1>2. d.offset \in 0..Len(d.buf) /\ d.offset + m \in d.offset..Len(d.buf)
  BY <1>1 DEF Buffered
<1>3. c \in Nat /\ c \in 0..Len(log) /\ c + m \in c..Len(log) /\ c + m \in Nat
  <2>1. d.remaining \in 0..LogLen
    BY DEF Buffered
  <2> QED  BY <1>1, <2>1
<1>4. u \in Seq(Byte) /\ Len(u) = m /\ \A i \in 1..m : u[i] = d.buf[d.offset + i]
  <2> DEFINE o == d.offset
             b == d.buf
  <2>1. o \in 0..Len(b) /\ o + m \in o..Len(b) /\ b \in Seq(Byte) /\ (o + m) - o = m
    BY <1>1, <1>2
  <2> HIDE DEF o, b
  <2>2. /\ SubSeq(b, o + 1, o + m) \in Seq(Byte) /\ Len(SubSeq(b, o + 1, o + m)) = (o + m) - o
        /\ \A i \in 1..((o + m) - o) : SubSeq(b, o + 1, o + m)[i] = b[o + i]
    BY <2>1, Slices
  <2>3. /\ SubSeq(b, o + 1, o + m) \in Seq(Byte) /\ Len(SubSeq(b, o + 1, o + m)) = m
        /\ \A i \in 1..m : SubSeq(b, o + 1, o + m)[i] = b[o + i]
    BY <2>1, <2>2
  <2> QED  BY <2>3 DEF o, b
<1>5. v \in Seq(Byte) /\ Len(v) = m /\ \A i \in 1..m : v[i] = log[c + i]
  <2>1. (c + m) - c = m
    BY <1>3
  <2> HIDE DEF c
  <2> QED  BY <1>1, <1>3, <2>1, Slices
<1>6. \A i \in 1..m : d.buf[d.offset + i] = log[c + i]
  <2> SUFFICES ASSUME NEW i \in 1..m PROVE d.buf[d.offset + i] = log[c + i]
    OBVIOUS
  <2>1. i \in 1..(Len(d.buf) - d.offset) /\ c + i \in 1..Len(log)
    <3>1. Len(d.buf) \in Nat /\ i \in Nat /\ 1 <= i /\ i <= m
      BY <1>1
    <3>2. i \in 1..(Len(d.buf) - d.offset)
      BY <1>1, <3>1
    <3>3. c + i \in 1..Len(log)
      <4> HIDE DEF c
      <4> QED  BY <1>1, <1>3, <3>1
    <3> QED  BY <3>2, <3>3
  <2>2. d.buf[d.offset + i] = (log \o next)[c + i]
    BY <2>1 DEF Buffered
  <2>3. c + i <= Len(log) /\ c + i \in 1..(Len(log) + Len(next))
    BY <1>1, <2>1
  <2>4. (log \o next)[c + i] = log[c + i]
    <3> HIDE DEF c
    <3> QED  BY <1>1, <2>3, ConcatProperties
  <2> QED  BY <2>2, <2>4
<1>7. u = v
  <2>1. \A i \in 1..Len(u) : u[i] = v[i]
    <3> HIDE DEF u, v, c
    <3> QED  BY <1>4, <1>5, <1>6
  <2> HIDE DEF u, v
  <2> QED  BY <1>4, <1>5, <2>1, SeqEqual
<1>8. /\ SubSeq(log, 1, c) \o v = SubSeq(log, 1, c + m)
      /\ SubSeq(log, 1, c) \in Text
  <2> HIDE DEF c
  <2> QED  BY <1>1, <1>3, Adjacent DEF Text
<1> HIDE DEF u, v, c
<1>9. u \in Text /\ Decoded(u) \in Text
  BY <1>4, DecodedConcat DEF Text
<1>10. Decoded(SubSeq(log, 1, c + m)) = Decoded(SubSeq(log, 1, c)) \o Decoded(u)
  BY <1>7, <1>8, <1>9, DecodedConcat
<1>11. Joined(ls) \o d.text = Decoded(SubSeq(log, 1, c))
  BY DEF Sofar, c
<1>12. Joined(ls) \o (d.text \o Decoded(u)) = (Joined(ls) \o d.text) \o Decoded(u)
  <2>1. Joined(ls) \in Seq(Byte) /\ d.text \in Seq(Byte) /\ Decoded(u) \in Seq(Byte)
    BY <1>1, <1>9, SplitJoined DEF Text
  <2>2. \A a, b, e \in Seq(Byte) : (a \o b) \o e = a \o (b \o e)
    <3>1. \A S : \A a, b, e \in Seq(S) : (a \o b) \o e = a \o (b \o e)
      BY ONLY ConcatAssociative
    <3> QED  BY ONLY <3>1
  <2> QED  BY <2>1, <2>2
<1>13. Joined(ls) \o (d.text \o Decoded(u)) = Decoded(SubSeq(log, 1, c + m))
  BY <1>10, <1>11, <1>12
<1> QED  BY <1>4, <1>9, <1>13 DEF u, c

LEMMA NextNewlineIs ==
  ASSUME NEW d \in Decoder
  PROVE  \/ NextNewline(d) = 0
         \/ /\ NextNewline(d) \in (d.offset + 1)..Len(d.buf)
            /\ d.buf[NextNewline(d)] = "nl"
<1> DEFINE I == {i \in (d.offset + 1)..Len(d.buf) : d.buf[i] = "nl"}
<1>1. NextNewline(d) = IF I # {} THEN Min(I) ELSE 0
  BY DEF NextNewline, SelectInSubSeq
<1>2. I \subseteq Nat
  BY DEF Decoder
<1>3. I # {} => Min(I) \in I
  <2> SUFFICES ASSUME I # {} PROVE Min(I) \in I
    OBVIOUS
  <2>1. \E x \in I : \A y \in I : x <= y
    <3> HIDE DEF I
    <3> QED  BY <1>2, LeastNat
  <2> HIDE DEF I
  <2> QED  BY <2>1 DEF Min
<1> QED  BY <1>1, <1>3

\* What a step of the decoder gives: a text up to a newline or up to the end, or
\* nothing, and then there is more to decode.
Given(d, ls, t) ==
  /\ d \in Decoder /\ Buffered(d) /\ t \in Text
  /\ \/ /\ Sofar(d, ls, t)
        /\ d.remaining = 0 \/ (Split(t).rest = <<>> /\ d.text = <<>>)
     \/ /\ Sofar(d, ls, d.text) /\ t = <<>> /\ d.remaining # 0

LEMMA Decoding1 ==
  ASSUME Inputs, NEW d \in Decoder, Buffered(d), NEW ls \in Seq(Whole), Sofar(d, ls, d.text)
  PROVE  Given(Decode(d).dec, ls, Decode(d).text)
<1> DEFINE nl == NextNewline(d)
           line == SubSeq(d.buf, d.offset + 1, nl)
           size == Least(Len(d.buf) - d.offset, d.remaining)
           rest == SubSeq(d.buf, d.offset + 1, d.offset + size)
<1>1. /\ d.buf \in Seq(Byte) /\ d.offset \in Nat /\ d.remaining \in Nat /\ d.text \in Text
      /\ Len(d.buf) \in Nat /\ LogLen \in Nat
      /\ d = [buf |-> d.buf, offset |-> d.offset, remaining |-> d.remaining, text |-> d.text]
  BY DEF Decoder, Inputs, Text, LogLen
<1>2. /\ d.offset \in 0..Len(d.buf) /\ d.remaining \in 0..LogLen
      /\ LogLen - d.remaining + Len(d.buf) - d.offset <= LogLen + Len(next)
  BY DEF Buffered
<1>3. CASE InBounds(d, nl)
  <2>1. /\ nl \in (d.offset + 1)..Len(d.buf) /\ d.buf[nl] = "nl"
        /\ nl # 0 /\ nl - 1 < d.remaining
    BY <1>3, NextNewlineIs DEF InBounds
  <2>2. PICK m \in Nat : nl = d.offset + m /\ m # 0
    <3>1. nl - d.offset \in Nat /\ nl = d.offset + (nl - d.offset) /\ nl - d.offset # 0
      BY <1>1, <2>1
    <3> QED  BY <3>1
  <2>3. m <= Len(d.buf) - d.offset /\ m <= d.remaining
    BY <1>1, <2>1, <2>2
  <2> DEFINE t == d.text \o Decoded(line)
             e == [buf |-> d.buf, offset |-> nl, remaining |-> d.remaining - Len(line),
                   text |-> <<>>]
  <2>4. Decode(d).text = t /\ Decode(d).dec = e
    BY <1>3 DEF Decode
  <2>5. line \in Text /\ Len(line) = m
        /\ Joined(ls) \o t = Decoded(SubSeq(log, 1, LogLen - d.remaining + m))
    <3> HIDE DEF nl
    <3> QED  BY <2>2, <2>3, Taken
  <2>6. e = [buf |-> d.buf, offset |-> nl, remaining |-> d.remaining - m, text |-> <<>>]
    <3> HIDE DEF nl, line
    <3> QED  BY <2>5
  <2> HIDE DEF t, e
  <2>7. e \in Decoder /\ Sofar(e, ls, t)
    <3>1. d.remaining - m \in Nat /\ nl \in Nat
      BY <1>1, <2>1, <2>3
    <3>2. LogLen - (d.remaining - m) = LogLen - d.remaining + m
      BY <1>1
    <3> HIDE DEF nl
    <3>3. e \in Decoder
      BY <1>1, <2>6, <3>1, Empties DEF Decoder, Text
    <3> QED  BY <2>5, <2>6, <3>2, <3>3 DEF Sofar
  <2>8. Buffered(e)
    <3>1. /\ e.offset = nl /\ e.buf = d.buf /\ e.remaining = d.remaining - m
      BY <2>6
    <3>2. nl \in 0..Len(d.buf) /\ d.remaining - m \in 0..LogLen
      <4> DEFINE b == Len(d.buf)
                 z == d.remaining
      <4>1. b \in Nat /\ nl \in (d.offset + 1)..b /\ d.offset \in Nat
        BY <1>1, <2>1
      <4>2. z \in 0..LogLen /\ m <= z /\ LogLen \in Nat
        BY <1>1, <1>2, <2>3
      <4> HIDE DEF nl, b, z
      <4>3. nl \in 0..b
        BY <4>1
      <4>4. z - m \in 0..LogLen
        BY <4>2
      <4> QED  BY <4>3, <4>4 DEF b, z
    <3>3. LogLen - (d.remaining - m) + Len(d.buf) - nl <= LogLen + Len(next)
      <4>1. nl \in Nat /\ nl = d.offset + m
        BY <1>1, <2>1, <2>2
      <4> HIDE DEF nl
      <4>2. LogLen - (d.remaining - m) + Len(d.buf) - nl
              = LogLen - d.remaining + Len(d.buf) - d.offset
        BY <1>1, <4>1
      <4> QED  BY <1>2, <4>2
    <3>4. ASSUME NEW i \in 1..(Len(d.buf) - nl)
          PROVE  d.buf[nl + i] = (log \o next)[LogLen - (d.remaining - m) + i]
      <4>1. /\ m + i \in 1..(Len(d.buf) - d.offset) /\ d.offset + (m + i) = nl + i
            /\ LogLen - d.remaining + (m + i) = LogLen - (d.remaining - m) + i
        <5>1. nl \in Nat /\ nl = d.offset + m
          BY <1>1, <2>1, <2>2
        <5> DEFINE o == d.offset
                   b == Len(d.buf)
                   z == d.remaining
        <5>2. /\ o \in Nat /\ b \in Nat /\ z \in Nat /\ LogLen \in Nat
              /\ nl = o + m /\ i \in 1..(b - nl)
          BY <1>1, <5>1
        <5> HIDE DEF nl, o, b, z
        <5>3. /\ m + i \in 1..(b - o) /\ o + (m + i) = nl + i
              /\ LogLen - z + (m + i) = LogLen - (z - m) + i
          BY <5>2
        <5> QED  BY <5>3 DEF o, b, z
      <4>2. d.buf[d.offset + (m + i)] = (log \o next)[LogLen - d.remaining + (m + i)]
        BY <4>1 DEF Buffered
      <4> QED  BY <4>1, <4>2
    <3> HIDE DEF nl
    <3> QED  BY <3>1, <3>2, <3>3, <3>4 DEF Buffered
  <2>9. t \in Text /\ Split(t).rest = <<>>
    <3> DEFINE u == SubSeq(d.buf, d.offset + 1, d.offset + (m - 1))
    <3>1. m - 1 \in Nat /\ m - 1 <= Len(d.buf) - d.offset /\ m - 1 <= d.remaining
      BY <1>1, <2>2, <2>3
    <3>2. u \in Text
      BY <3>1, Taken
    <3>3. line = Append(u, "nl")
      <4>1. d.offset + 1 \in 1..Len(d.buf) /\ nl \in (d.offset + 1)..Len(d.buf)
            /\ nl - 1 = d.offset + (m - 1)
        BY <1>1, <2>1, <2>2
      <4> HIDE DEF nl
      <4>2. line = SubSeq(d.buf, d.offset + 1, nl - 1) \o <<d.buf[nl]>>
        BY <1>1, <4>1, SubSeqRecursiveSecond
      <4>3. line = u \o <<"nl">>
        BY <2>1, <4>1, <4>2
      <4> HIDE DEF line, u
      <4> QED  BY <3>2, <4>3 DEF Text
    <3> HIDE DEF line, u
    <3>4. Decoded(line) = Append(Decoded(u), "nl") /\ Decoded(u) \in Text /\ "nl" \in Byte
      <4>1. "nl" \in Byte
        BY DEF Byte
      <4> QED  BY <3>2, <3>3, <4>1, DecodedUnfolds
    <3>5. t = Append(d.text \o Decoded(u), "nl") /\ d.text \o Decoded(u) \in Text
      BY <1>1, <3>4, Appending DEF t, Text
    <3>6. Split(t).rest = <<>>
      BY <3>4, <3>5, SplitUnfolds
    <3> QED  BY <3>4, <3>5, <3>6 DEF Text
  <2>10. e.text = <<>>
    BY <2>6
  <2> QED  BY <2>4, <2>7, <2>8, <2>9, <2>10 DEF Given
<1>4. CASE ~InBounds(d, nl)
  <2> DEFINE e == [buf |-> <<>>, offset |-> 0, remaining |-> d.remaining - Len(rest),
                   text |-> d.text \o Decoded(rest)]
             t == IF Len(rest) = d.remaining THEN d.text \o Decoded(rest) ELSE <<>>
  <2>1. Decode(d).text = t /\ Decode(d).dec = e
    BY <1>4 DEF Decode
  <2>2. size \in Nat /\ size <= Len(d.buf) - d.offset /\ size <= d.remaining
    BY <1>1, <1>2 DEF Least
  <2>3. /\ rest \in Text /\ Len(rest) = size
        /\ Joined(ls) \o (d.text \o Decoded(rest))
             = Decoded(SubSeq(log, 1, LogLen - d.remaining + size))
    <3> HIDE DEF size
    <3> QED  BY <2>2, Taken
  <2> DEFINE x == d.text \o Decoded(rest)
  <2>4. e = [buf |-> <<>>, offset |-> 0, remaining |-> d.remaining - size, text |-> x]
    <3> HIDE DEF size, rest
    <3> QED  BY <2>3
  <2>5. x \in Text
    <3> HIDE DEF rest
    <3> QED  BY <1>1, <2>3, DecodedConcat DEF Text
  <2>6. t = IF size = d.remaining THEN x ELSE <<>>
    <3> HIDE DEF size, rest
    <3> QED  BY <2>3
  <2> HIDE DEF x, e, t
  <2>7. e \in Decoder /\ Buffered(e) /\ e.remaining = d.remaining - size /\ e.text = x
    <3>1. d.remaining - size \in 0..LogLen /\ d.remaining - size \in Nat
      BY <1>1, <1>2, <2>2
    <3>2. e.buf = <<>> /\ e.offset = 0 /\ e.remaining = d.remaining - size /\ e.text = x
      BY <2>4
    <3>3. LogLen - (d.remaining - size) + 0 - 0 <= LogLen + Len(next) /\ Len(<<>>) = 0
      <4>1. Len(next) \in Nat
        BY DEF Inputs, Text
      <4> QED  BY <1>1, <3>1, <4>1
    <3> HIDE DEF size
    <3>4. e \in Decoder
      BY <2>4, <2>5, <3>1, Empties DEF Decoder
    <3>5. Buffered(e)
      BY <3>1, <3>2, <3>3 DEF Buffered
    <3> QED  BY <3>2, <3>4, <3>5
  <2>8. Sofar(e, ls, x)
    <3>1. LogLen - (d.remaining - size) = LogLen - d.remaining + size
      BY <1>1, <2>2
    <3> HIDE DEF size, rest
    <3> QED  BY <2>3, <2>7, <3>1 DEF Sofar, x
  <2>9. size = d.remaining <=> d.remaining - size = 0
    BY <1>1, <2>2
  <2> HIDE DEF size
  <2> QED  BY <2>1, <2>5, <2>6, <2>7, <2>8, <2>9, Empties DEF Given
<1> QED  BY <1>3, <1>4

-----------------------------------------------------------------------------
(* The head                                                                 *)

\* While the head is read: the lines so far are whole, fewer than the limit, and they
\* and the unfinished text are the output so far.  After that they are its first lines.
\* A line is decoded from the back only when a chunk was fetched.
HeadRead ==
  /\ dec \in Decoder /\ Buffered(dec) /\ dec.remaining # 0
  /\ head \in Seq(Whole) /\ Sofar(dec, head, dec.text) /\ Len(head) < limit.lines
  /\ SingleByte => headEnd = Len(Joined(head))
  /\ rev = [from |-> LogLen, offset |-> 0, out |-> LogLen, first |-> TRUE]
  /\ tail = <<>> /\ log # <<>>
HeadFound ==
  /\ head \in Seq(Text) /\ limit.lines <= Len(head)
  /\ \E x \in Seq(Text) : AllLines = head \o x
  /\ SingleByte => headEnd = Len(Joined(head))
HeadEnded ==
  /\ head \in Seq(Text) /\ \E x \in Seq(Text) : AllLines = head \o x
  /\ headEnd <= limit.bytes => head = AllLines
Behind ==
  /\ rev = [from |-> rev.from, offset |-> rev.offset, out |-> rev.out, first |-> rev.first]
  /\ rev.from \in 0..LogLen /\ (rev.from = LogLen => rev.offset <= 0)
HeadInv ==
  /\ Inputs
  /\ pc = "head" => HeadRead
  /\ pc = "tail" => HeadFound /\ Behind
  /\ HeadOnly => HeadEnded

\* The output is the part decoded so far and what the remaining bytes are decoded to.
LEMMA WholeLog ==
  ASSUME Inputs, NEW c \in 0..LogLen
  PROVE  /\ SubSeq(log, 1, LogLen) = log
         /\ \E x \in Text : Decoded(log) = Decoded(SubSeq(log, 1, c)) \o x
         /\ Decoded(log) \in Text
<1>1. log \in Seq(Byte) /\ LogLen = Len(log) /\ LogLen \in Nat
  BY DEF Inputs, Text, LogLen
<1>2. LogLen \in c..Len(log) /\ c \in 0..Len(log) /\ SubSeq(log, 1, LogLen) = log
  BY <1>1
<1>3. SubSeq(log, 1, c) \o SubSeq(log, c + 1, LogLen) = log /\ SubSeq(log, 1, c) \in Text
  <2>1. /\ SubSeq(log, 1, c) \o SubSeq(log, c + 1, LogLen) = SubSeq(log, 1, LogLen)
        /\ SubSeq(log, 1, c) \in Seq(Byte)
    <3>1. \A S : \A s \in Seq(S) : \A a \in 0..Len(s) : \A b \in a..Len(s) :
            /\ SubSeq(s, 1, a) \o SubSeq(s, a + 1, b) = SubSeq(s, 1, b)
            /\ SubSeq(s, 1, a) \in Seq(S)
      BY ONLY Adjacent
    <3> QED  BY ONLY <1>1, <1>2, <3>1
  <2> QED  BY <1>2, <2>1 DEF Text
<1>4. SubSeq(log, c + 1, LogLen) \in Text
  BY <1>1, <1>2, Slices DEF Text
<1> DEFINE a == SubSeq(log, 1, c)
           b == SubSeq(log, c + 1, LogLen)
<1> HIDE DEF a, b
<1>5. Decoded(a \o b) = Decoded(a) \o Decoded(b) /\ Decoded(a \o b) \in Text /\ Decoded(b) \in Text
  BY <1>3, <1>4, DecodedConcat DEF a, b
<1> QED  BY <1>2, <1>3, <1>5 DEF a, b

\* The lines of what a step gives are the next lines of the output, and the last ones
\* when no bytes remain.
LEMMA NextLines ==
  ASSUME Inputs, NEW d, NEW ls \in Seq(Whole), NEW t, Given(d, ls, t)
  PROVE  /\ Lines(t) \in Seq(Text) /\ (Lines(t) # <<>> => Sofar(d, ls, t))
         /\ \E x \in Seq(Text) : AllLines = ls \o (Lines(t) \o x)
         /\ d.remaining = 0 => AllLines = ls \o Lines(t)
         /\ d.remaining # 0 => /\ Lines(t) \in Seq(Whole)
                               /\ Sofar(d, ls \o Lines(t), d.text)
<1> DEFINE c == LogLen - d.remaining
           done == Decoded(SubSeq(log, 1, c))
<1>1. /\ d.remaining \in Nat /\ d.remaining \in 0..LogLen /\ LogLen \in Nat /\ c \in 0..LogLen
      /\ d.text \in Text /\ t \in Text /\ Lines(t) \in Seq(Text) /\ ls \in Seq(Text)
  <2>1. d \in Decoder /\ d.remaining \in 0..LogLen /\ t \in Text
    BY DEF Given, Buffered
  <2>2. LogLen \in Nat
    BY DEF Inputs, Text, LogLen
  <2> QED  BY <2>1, <2>2, JoinedLines, Empties DEF Decoder
<1>2. PICK x \in Text : Decoded(log) = done \o x
  <2> HIDE DEF c
  <2> QED  BY <1>1, WholeLog
<1>3. Lines(<<>>) = <<>> /\ Joined(ls) \in Text
  BY SplitUnfolds, SplitJoined DEF Lines
<1> DEFINE More(u) == /\ Joined(ls) \o u = done => Decoded(log) = Joined(ls) \o (u \o x)
                      /\ u \o x \in Text
<1>4. ASSUME NEW u \in Text PROVE More(u)
  <2>1. Joined(ls) \in Seq(Byte) /\ u \in Seq(Byte) /\ x \in Seq(Byte)
    BY <1>3 DEF Text
  <2>2. (Joined(ls) \o u) \o x = Joined(ls) \o (u \o x)
    BY <2>1, ConcatAssociative
  <2>3. u \o x \in Text
    BY <2>1 DEF Text
  <2> HIDE DEF done
  <2> QED  BY <1>2, <2>2, <2>3
<1>5. CASE Sofar(d, ls, t) /\ d.remaining = 0
  <2>1. done = Decoded(log)
    <3>1. c = LogLen
      BY <1>1, <1>5
    <3>2. SubSeq(log, 1, LogLen) = log
      BY <1>1, WholeLog
    <3> QED  BY <3>1, <3>2
  <2>2. AllLines = ls \o Lines(t)
    <3>1. Decoded(log) = Joined(ls) \o t
      BY <1>5, <2>1 DEF Sofar
    <3> QED  BY <1>1, <3>1, LinesAfter DEF AllLines
  <2>3. Lines(t) = Lines(t) \o <<>>
    BY <1>1
  <2> QED  BY <1>1, <1>5, <2>2, <2>3, Empties
<1>6. CASE Sofar(d, ls, t) /\ Split(t).rest = <<>> /\ d.text = <<>> /\ d.remaining # 0
  <2> DEFINE ks == Lines(t)
  <2>1. ks \in Seq(Whole) /\ t = Joined(ks)
    <3>1. /\ Split(t).lines \in Seq(Whole) /\ t = Joined(Split(t).lines) \o <<>>
          /\ Lines(t) = Split(t).lines
      BY <1>1, <1>6, TextForm DEF Lines
    <3>2. Joined(ks) \in Seq(Byte)
      BY <3>1, SplitJoined DEF Text
    <3>3. Joined(ks) \o <<>> = Joined(ks)
      BY <3>2, ConcatEmptySeq
    <3> QED  BY <3>1, <3>3
  <2> HIDE DEF ks
  <2>2. Joined(ls) \o t = done
    BY <1>6 DEF Sofar
  <2>3. Decoded(log) = Joined(ls) \o (Joined(ks) \o x) /\ Joined(ks) \o x \in Text
    <3> HIDE DEF done
    <3> QED  BY <1>1, <1>4, <2>1, <2>2
  <2>4. AllLines = ls \o (ks \o Lines(x)) /\ Lines(x) \in Seq(Text)
    <3>1. Lines(Joined(ks) \o x) = ks \o Lines(x)
      BY <2>1, LinesAfter
    <3>2. Lines(Joined(ls) \o (Joined(ks) \o x)) = ls \o Lines(Joined(ks) \o x)
      BY <2>3, LinesAfter
    <3> QED  BY <2>3, <3>1, <3>2, JoinedLines DEF AllLines
  <2>5. Sofar(d, ls \o ks, d.text)
    <3>1. Joined(ls \o ks) = Joined(ls) \o Joined(ks) /\ Joined(ls \o ks) \in Seq(Byte)
      <4>1. ks \in Seq(Text)
        BY <2>1, Empties
      <4>2. ls \o ks \in Seq(Text)
        BY <1>1, <4>1
      <4> QED  BY <1>1, <4>1, <4>2, JoinedConcat, JoinedUnfolds, Empties DEF Text
    <3>2. Joined(ls \o ks) \o <<>> = Joined(ls \o ks)
      BY <3>1, ConcatEmptySeq
    <3> QED  BY <1>6, <2>1, <2>2, <3>1, <3>2 DEF Sofar
  <2> QED  BY <1>1, <1>6, <2>1, <2>4, <2>5 DEF ks
<1>7. CASE Sofar(d, ls, d.text) /\ t = <<>> /\ d.remaining # 0
  <2>1. Joined(ls) \o d.text = done
    BY <1>7 DEF Sofar
  <2>2. Decoded(log) = Joined(ls) \o (d.text \o x) /\ d.text \o x \in Text
    <3> HIDE DEF done
    <3> QED  BY <1>1, <1>4, <2>1
  <2>3. AllLines = ls \o Lines(d.text \o x) /\ Lines(d.text \o x) \in Seq(Text)
    BY <2>2, LinesAfter, JoinedLines DEF AllLines
  <2>4. <<>> \o Lines(d.text \o x) = Lines(d.text \o x) /\ ls \o <<>> = ls
    <3> DEFINE y == Lines(d.text \o x)
    <3> HIDE DEF y
    <3>1. y \in Seq(Text)
      BY <2>3 DEF y
    <3>2. <<>> \o y = y
      BY <3>1, ConcatEmptySeq
    <3>3. ls \o <<>> = ls
      BY <1>1, ConcatEmptySeq
    <3> QED  BY <3>2, <3>3 DEF y
  <2> QED  BY <1>3, <1>7, <2>3, <2>4, Empties
<1> QED  BY <1>5, <1>6, <1>7 DEF Given

\* In a log of single-byte characters, positions in the text are positions in the log.
LEMMA SingleLength ==
  ASSUME Inputs, SingleByte, NEW c \in 0..LogLen
  PROVE  Len(Decoded(SubSeq(log, 1, c))) = c
<1> DEFINE s == SubSeq(log, 1, c)
<1>1. /\ log \in Seq(Byte) /\ LogLen = Len(log) /\ LogLen \in Nat
      /\ \A i \in 1..Len(log) : log[i] # "hi"
  BY DEF Inputs, Text, LogLen, SingleByte
<1>2. 0 \in 0..Len(log) /\ c \in 0..Len(log) /\ c - 0 = c /\ 0 + 1 = 1 /\ c \in Nat
  BY <1>1
<1>3. s \in Seq(Byte) /\ Len(s) = c /\ \A i \in 1..c : s[i] = log[0 + i]
  <2>1. /\ SubSeq(log, 0 + 1, c) \in Seq(Byte) /\ Len(SubSeq(log, 0 + 1, c)) = c - 0
        /\ \A i \in 1..(c - 0) : SubSeq(log, 0 + 1, c)[i] = log[0 + i]
    BY <1>1, <1>2, Slices
  <2> QED  BY <1>2, <2>1
<1>4. s \in Seq(Byte \ {"hi"})
  <2>1. \A i \in 1..c : i \in 1..Len(log) /\ 0 + i = i
    BY <1>2
  <2>2. \A i \in 1..Len(s) : s[i] \in Byte \ {"hi"}
    <3> HIDE DEF s
    <3> QED  BY <1>1, <1>3, <2>1
  <2> HIDE DEF s
  <2> QED  BY <1>3, <2>2
<1> HIDE DEF s
<1>5. Decoded(s) = s
  BY <1>4, DecodedSingle
<1> QED  BY <1>3, <1>5 DEF s

LEMMA SinglePositions ==
  ASSUME Inputs, SingleByte, NEW d \in Decoder, Buffered(d), NEW ls \in Seq(Whole),
         NEW t \in Text, Sofar(d, ls, t)
  PROVE  LogLen - d.remaining - Len(t) = Len(Joined(ls))
<1> DEFINE c == LogLen - d.remaining
<1>1. c \in 0..LogLen
  BY DEF Inputs, Text, LogLen, Buffered
<1>2. Joined(ls) \o t = Decoded(SubSeq(log, 1, c))
  BY DEF Sofar
<1> HIDE DEF c
<1>3. Len(Joined(ls) \o t) = c
  BY <1>1, <1>2, SingleLength
<1>4. Joined(ls) \in Seq(Byte) /\ t \in Seq(Byte)
  BY SplitJoined DEF Text
<1>5. c = Len(Joined(ls)) + Len(t) /\ Len(t) \in Nat /\ Len(Joined(ls)) \in Nat
  BY <1>3, <1>4
<1>6. c - Len(t) = Len(Joined(ls))
  BY <1>5
<1> QED  BY <1>6 DEF c

\* The lines of a decoded text are taken up to the first that is enough.  If reading
\* ends here, within the limit of bytes, all lines were read.
LEMMA HeadStep ==
  ASSUME HeadInv, DecodeHead
  PROVE  /\ HeadInv'
         /\ pc' = "done" /\ headEnd' <= limit.bytes => head' = AllLines
         /\ pc' \in {"head", "tail", "done"} /\ rev' = rev /\ tail' = tail
<1> DEFINE d == Decode(dec)
           lines == Lines(d.text)
           ends == LineEnds(d.text)
           start == LogLen - d.dec.remaining - Len(d.text)
           Enough(i) == Len(head) + i >= limit.lines \/ start + ends[i] > limit.bytes
           stops == {i \in DOMAIN lines : Enough(i)}
           taken == IF stops = {} THEN Len(lines)
                    ELSE CHOOSE i \in stops : \A j \in stops : i <= j
<1>1. /\ pc = "head" /\ dec' = d.dec /\ head' = head \o SubSeq(lines, 1, taken)
      /\ headEnd' = IF taken = 0 THEN headEnd ELSE start + ends[taken]
      /\ pc' = IF stops = {} /\ d.dec.remaining > 0 THEN "head"
               ELSE IF Len(head') < limit.lines THEN "done" ELSE "tail"
      /\ log' = log /\ next' = next /\ limit' = limit /\ rev' = rev /\ tail' = tail
  BY DEF DecodeHead, input
<1>2. /\ Inputs /\ dec \in Decoder /\ Buffered(dec) /\ Sofar(dec, head, dec.text)
      /\ head \in Seq(Whole) /\ head \in Seq(Text) /\ Len(head) \in Nat
      /\ Len(head) < limit.lines
      /\ limit.lines \in Nat /\ limit.bytes \in Nat
      /\ SingleByte => headEnd = Len(Joined(head))
      /\ rev = [from |-> LogLen, offset |-> 0, out |-> LogLen, first |-> TRUE]
      /\ tail = <<>> /\ log # <<>>
  <2>1. Inputs /\ HeadRead
    BY <1>1 DEF HeadInv
  <2>2. head \in Seq(Whole) /\ head \in Seq(Text) /\ Len(head) \in Nat
    BY <2>1, Empties DEF HeadRead
  <2>3. limit.lines \in Nat /\ limit.bytes \in Nat
    BY <2>1 DEF Inputs
  <2> QED  BY <2>1, <2>2, <2>3 DEF HeadRead
<1>3. Given(d.dec, head, d.text)
  BY <1>2, Decoding1
<1>4. /\ lines \in Seq(Text) /\ (lines # <<>> => Sofar(d.dec, head, d.text))
      /\ \E x \in Seq(Text) : AllLines = head \o (lines \o x)
      /\ d.dec.remaining = 0 => AllLines = head \o lines
      /\ d.dec.remaining # 0 => /\ lines \in Seq(Whole)
                                /\ Sofar(d.dec, head \o lines, d.dec.text)
  <2> HIDE DEF d
  <2> QED  BY <1>2, <1>3, NextLines
<1>5. /\ d.dec \in Decoder /\ Buffered(d.dec) /\ d.text \in Text
      /\ d.dec.remaining \in Nat /\ LogLen \in Nat /\ Len(d.text) \in Nat /\ start \in Int
  <2>1. d.dec \in Decoder /\ Buffered(d.dec) /\ d.text \in Text
    BY <1>3 DEF Given
  <2>2. Len(d.text) \in Nat /\ LogLen \in Nat
    BY <1>2, <2>1 DEF Inputs, Text, LogLen
  <2>3. d.dec.remaining \in Nat
    BY <2>1 DEF Decoder
  <2> HIDE DEF d
  <2> QED  BY <2>1, <2>2, <2>3
<1> HIDE DEF d
<1>6. /\ Len(lines) \in Nat /\ DOMAIN lines = 1..Len(lines)
      /\ \A i \in 1..Len(lines) : ends[i] = Len(Joined(SubSeq(lines, 1, i))) /\ ends[i] \in Nat
  <2>1. Len(lines) \in Nat /\ DOMAIN lines = 1..Len(lines)
    BY <1>4
  <2>2. ASSUME NEW i \in 1..Len(lines)
        PROVE  ends[i] = Len(Joined(SubSeq(lines, 1, i))) /\ ends[i] \in Nat
    <3>1. ends[i] = Len(Joined(SubSeq(lines, 1, i)))
      BY <2>1 DEF LineEnds
    <3>2. SubSeq(lines, 1, i) \in Seq(Text)
      <4>1. 0 \in 0..Len(lines) /\ i \in 0..Len(lines)
        BY <2>1
      <4> QED  BY <1>4, <4>1, Adjacent
    <3>3. Joined(SubSeq(lines, 1, i)) \in Seq(Byte)
      BY <3>2, JoinedUnfolds, Empties DEF Text
    <3> QED  BY <3>1, <3>3
  <2> QED  BY <2>1, <2>2
<1> HIDE DEF lines, ends, start
<1>7. /\ taken \in 0..Len(lines)
      /\ stops = {} => taken = Len(lines)
      /\ stops # {} => taken \in 1..Len(lines) /\ Enough(taken)
      /\ \A i \in 1..Len(lines) : stops = {} => Len(head) + i < limit.lines
  <2>1. stops # {} => taken \in stops
    <3> SUFFICES ASSUME stops # {} PROVE taken \in stops
      OBVIOUS
    <3>1. stops \subseteq Nat
      BY <1>6
    <3> HIDE DEF stops
    <3>2. \E i \in stops : \A j \in stops : i <= j
      BY <3>1, LeastNat
    <3> QED  BY <3>2
  <2>2. \A i \in stops : i \in 1..Len(lines) /\ Enough(i)
    BY <1>6
  <2>3. \A i \in 1..Len(lines) : stops = {} => ~(Len(head) + i >= limit.lines)
    BY <1>6
  <2>4. stops = {} => taken = Len(lines)
    OBVIOUS
  <2>5. Len(lines) \in 0..Len(lines) /\ \A i \in 1..Len(lines) : i \in 0..Len(lines)
    BY <1>6
  <2>6. \A i \in 1..Len(lines) : stops = {} => Len(head) + i < limit.lines
    <3> HIDE DEF stops
    <3> QED  BY <1>2, <2>3
  <2> HIDE DEF stops, taken, Enough
  <2> QED  BY <2>1, <2>2, <2>4, <2>5, <2>6
<1> DEFINE first == SubSeq(lines, 1, taken)
           rest == SubSeq(lines, taken + 1, Len(lines))
<1>8. /\ first \in Seq(Text) /\ Len(first) = taken /\ rest \in Seq(Text) /\ first \o rest = lines
      /\ stops = {} => first = lines
  <2> HIDE DEF taken, stops
  <2>1. 0 \in 0..Len(lines) /\ taken \in 0..Len(lines) /\ Len(lines) \in taken..Len(lines)
        /\ 0 + 1 = 1 /\ taken - 0 = taken /\ Len(lines) \in 0..Len(lines)
    <3>1. taken \in 0..Len(lines) /\ Len(lines) \in Nat
      BY <1>6, <1>7
    <3> QED  BY <3>1
  <2>2. SubSeq(lines, 1, Len(lines)) = lines
    BY <1>4
  <2>3. first \o rest = lines /\ first \in Seq(Text)
    BY <1>4, <2>1, <2>2, Adjacent
  <2>4. rest \in Seq(Text)
    BY <1>4, <2>1, Slices
  <2>5. Len(first) = taken
    <3>1. Len(SubSeq(lines, 0 + 1, taken)) = taken - 0
      BY <1>4, <2>1, Slices
    <3> QED  BY <2>1, <3>1
  <2> QED  BY <1>7, <2>2, <2>3, <2>4, <2>5
<1> HIDE DEF rest
<1>9. head' \in Seq(Text) /\ Len(head') = Len(head) + taken
  <2>1. head' = head \o first
    BY <1>1
  <2>2. first \in Seq(Text) /\ Len(first) = taken
    BY <1>8
  <2> HIDE DEF first, taken
  <2> QED  BY <1>2, <2>1, <2>2, ConcatProperties
<1>10. \E x \in Seq(Text) : AllLines = head' \o x
  <2>1. PICK x \in Seq(Text) : AllLines = head \o (lines \o x)
    BY <1>4
  <2>2. head \o ((first \o rest) \o x) = (head \o first) \o (rest \o x) /\ rest \o x \in Seq(Text)
    <3>1. first \in Seq(Text) /\ rest \in Seq(Text)
      BY <1>8
    <3> HIDE DEF first
    <3>2. \A a, b, e \in Seq(Text) : (a \o b) \o e = a \o (b \o e)
      BY ConcatAssociative
    <3>3. (first \o rest) \o x = first \o (rest \o x)
      BY <3>1, <3>2
    <3>4. rest \o x \in Seq(Text)
      BY <3>1
    <3>5. (head \o first) \o (rest \o x) = head \o (first \o (rest \o x))
      BY <1>2, <3>1, <3>2, <3>4
    <3> QED  BY <3>3, <3>4, <3>5
  <2>3. head' = head \o first
    BY <1>1
  <2> HIDE DEF first
  <2> QED  BY <1>8, <2>1, <2>2, <2>3
<1>11. SingleByte => headEnd' = Len(Joined(head'))
  <2> SUFFICES ASSUME SingleByte PROVE headEnd' = Len(Joined(head'))
    OBVIOUS
  <2>1. head' = head \o first
    BY <1>1
  <2> HIDE DEF taken, stops
  <2>2. CASE taken = 0
    <3>1. first = <<>>
      BY <2>2
    <3>2. head' = head
      BY <1>2, <2>1, <3>1, ConcatEmptySeq
    <3> QED  BY <1>1, <1>2, <2>2, <3>2
  <2>3. CASE taken # 0
    <3>1. taken \in 1..Len(lines) /\ lines # <<>>
      <4>1. taken \in 0..Len(lines) /\ Len(lines) \in Nat
        BY <1>6, <1>7
      <4>2. taken \in 1..Len(lines) /\ Len(lines) # 0
        BY <2>3, <4>1
      <4> QED  BY <4>2
    <3>2. start = Len(Joined(head))
      BY <1>2, <1>4, <1>5, <3>1, SinglePositions DEF start
    <3>3. headEnd' = start + Len(Joined(first))
      BY <1>1, <1>6, <2>3, <3>1
    <3> HIDE DEF first
    <3>4. /\ Joined(head') = Joined(head) \o Joined(first)
          /\ Joined(head) \in Seq(Byte) /\ Joined(first) \in Seq(Byte)
      BY <1>2, <1>8, <2>1, JoinedConcat DEF Text
    <3>5. Len(Joined(head')) = Len(Joined(head)) + Len(Joined(first))
      BY <3>4
    <3> QED  BY <3>2, <3>3, <3>5
  <2> QED  BY <2>2, <2>3
<1>12. Inputs' /\ LogLen' = LogLen /\ AllLines' = AllLines /\ (SingleByte' <=> SingleByte)
  BY <1>1, <1>2 DEF Inputs, LogLen, AllLines, SingleByte
<1>13. ASSUME pc' = "head" PROVE HeadRead'
  <2>1. stops = {} /\ d.dec.remaining # 0
    <3> HIDE DEF stops
    <3> QED  BY <1>1, <1>5, <1>13
  <2>2. head' = head \o lines /\ lines \in Seq(Whole)
    BY <1>1, <1>4, <1>8, <2>1
  <2>3. head' \in Seq(Whole)
    BY <1>2, <2>2
  <2>4. Len(head') < limit.lines
    <3>1. taken = Len(lines)
      BY <1>7, <2>1
    <3> HIDE DEF taken, stops
    <3>2. CASE Len(lines) = 0
      BY <1>2, <1>9, <3>1, <3>2
    <3>3. CASE Len(lines) # 0
      <4>1. Len(lines) \in 1..Len(lines)
        BY <1>6, <3>3
      <4> QED  BY <1>7, <1>9, <2>1, <3>1, <4>1
    <3> QED  BY <3>2, <3>3
  <2>5. Sofar(dec, head, dec.text)'
    <3>1. Sofar(d.dec, head \o lines, d.dec.text)
      BY <1>4, <2>1
    <3> QED  BY <1>1, <1>12, <2>2, <3>1 DEF Sofar
  <2>6. Buffered(dec)'
    <3>1. Buffered(d.dec)
      BY <1>5
    <3> HIDE DEF lines, taken, stops, first, Enough
    <3> QED  BY <1>1, <1>12, <3>1 DEF Buffered
  <2> HIDE DEF taken, stops, first, Enough
  <2> QED  BY <1>1, <1>2, <1>5, <1>11, <1>12, <2>1, <2>3, <2>4, <2>5, <2>6
           DEF HeadRead, Decoder
<1>14. ASSUME pc' = "tail" PROVE HeadFound'
  <2>1. ~(Len(head') < limit.lines)
    <3> HIDE DEF taken, stops, first, Enough
    <3> QED  BY <1>1, <1>14
  <2>2. limit.lines <= Len(head')
    BY <1>2, <1>9, <2>1
  <2> HIDE DEF taken, stops, first, Enough
  <2> QED  BY <1>1, <1>9, <1>10, <1>11, <1>12, <2>2 DEF HeadFound
<1>15. ASSUME pc' = "done", headEnd' <= limit.bytes PROVE head' = AllLines
  <2>1. Len(head') < limit.lines /\ ~(stops = {} /\ d.dec.remaining > 0)
    <3> HIDE DEF taken, stops, first, Enough
    <3> QED  BY <1>1, <1>15
  <2>2. stops = {}
    <3> SUFFICES ASSUME stops # {} PROVE FALSE
      OBVIOUS
    <3>1. taken \in 1..Len(lines) /\ (Len(head) + taken >= limit.lines \/ start + ends[taken] > limit.bytes)
      BY <1>7
    <3>2. headEnd' = start + ends[taken] /\ ends[taken] \in Nat
      <4> HIDE DEF taken, stops, first, Enough
      <4> QED  BY <1>1, <1>6, <3>1
    <3> HIDE DEF taken, stops, first, Enough
    <3> QED  BY <1>2, <1>5, <1>6, <1>9, <1>15, <2>1, <3>1, <3>2
  <2>3. d.dec.remaining = 0
    BY <1>5, <2>1, <2>2
  <2>4. head' = head \o lines
    BY <1>1, <1>8, <2>2
  <2> QED  BY <1>4, <2>3, <2>4
<1> HIDE DEF taken, stops, first, Enough
<1>16. pc' = "tail" => Behind'
  <2>1. /\ rev' = [from |-> LogLen, offset |-> 0, out |-> LogLen, first |-> TRUE]
        /\ LogLen' = LogLen /\ LogLen \in Nat
    BY <1>1, <1>2, <1>5, <1>12
  <2> QED  BY <2>1 DEF Behind
<1>17. HeadOnly' => HeadEnded'
  <2>1. pc' = "done" => HeadEnded'
    BY <1>1, <1>9, <1>10, <1>12, <1>15 DEF HeadEnded
  <2> QED  BY <2>1 DEF HeadOnly
<1> QED  BY <1>1, <1>12, <1>13, <1>14, <1>15, <1>16, <1>17 DEF HeadInv

LEMMA HeadStart == Init => HeadInv
<1> SUFFICES ASSUME Init PROVE HeadInv
  OBVIOUS
<1>1. /\ log \in Logs /\ next \in Nexts /\ limit \in Limits
      /\ pc = IF log = <<>> THEN "done" ELSE "head"
      /\ dec = [buf |-> <<>>, offset |-> 0, remaining |-> Len(log), text |-> <<>>]
      /\ head = <<>> /\ headEnd = 0
      /\ rev = [from |-> Len(log), offset |-> 0, out |-> Len(log), first |-> TRUE]
      /\ tail = <<>>
  BY DEF Init
<1>2. Inputs
  BY <1>1, InputsAssumption DEF Inputs
<1>3. /\ LogLen = Len(log) /\ LogLen \in Nat /\ (log # <<>> => LogLen # 0) /\ LogLen - LogLen = 0
      /\ Len(next) \in Nat
  BY <1>2 DEF Inputs, Text, LogLen
<1>4. dec \in Decoder /\ dec.remaining = LogLen /\ dec.text = <<>>
  BY <1>1, <1>3, Empties DEF Decoder
<1>5. Buffered(dec)
  <2>1. dec.buf = <<>> /\ dec.offset = 0 /\ dec.remaining = LogLen /\ Len(<<>>) = 0
    BY <1>1, <1>3
  <2> QED  BY <1>3, <2>1 DEF Buffered
<1>6. Sofar(dec, head, dec.text)
  <2>1. SubSeq(log, 1, 0) = <<>> /\ <<>> \o <<>> = <<>>
    OBVIOUS
  <2> QED  BY <1>1, <1>3, <1>4, <2>1, JoinedUnfolds, DecodedUnfolds DEF Sofar
<1>7. Len(head) < limit.lines /\ headEnd = Len(Joined(head)) /\ head \in Seq(Whole)
  <2>1. Len(head) = 0 /\ Len(Joined(head)) = 0
    BY <1>1, JoinedUnfolds
  <2>2. limit.lines \in Nat \ {0}
    BY <1>2 DEF Inputs
  <2> QED  BY <1>1, <2>1, <2>2, Empties
<1>8. pc = "head" => HeadRead
  BY <1>1, <1>3, <1>4, <1>5, <1>6, <1>7 DEF HeadRead
<1>9. pc # "tail"
  BY <1>1
<1>10. HeadOnly => HeadEnded
  <2> SUFFICES ASSUME pc = "done" PROVE HeadEnded
    BY DEF HeadOnly
  <2>1. log = <<>> /\ head = <<>> /\ head \in Seq(Text)
    BY <1>1, Empties
  <2>2. AllLines = <<>>
    BY <2>1, DecodedUnfolds, SplitUnfolds DEF AllLines, Lines
  <2>3. AllLines = head \o <<>>
    BY <2>1, <2>2
  <2> QED  BY <2>1, <2>2, <2>3 DEF HeadEnded
<1> QED  BY <1>2, <1>8, <1>9, <1>10 DEF HeadInv

\* A fetch fills the buffer with the bytes after those that were consumed.
LEMMA HeadFetched == HeadInv /\ FetchHead => HeadInv'
<1> SUFFICES ASSUME HeadInv, FetchHead PROVE HeadInv'
  OBVIOUS
<1> DEFINE c == LogLen - dec.remaining
           file == log \o next
           b == Least(c + limit.chunk, LogLen)
           e == Least(b + 1, Len(file))
           chunk == SubSeq(file, c + 1, e)
<1>1. /\ pc = "head" /\ dec.buf = <<>> /\ dec' = [dec EXCEPT !.buf = chunk]
      /\ log' = log /\ next' = next /\ limit' = limit /\ pc' = pc /\ head' = head
      /\ headEnd' = headEnd /\ rev' = rev /\ tail' = tail
  BY DEF FetchHead, HeadChunk, Fetched, input
<1>2. /\ Inputs /\ HeadRead /\ dec \in Decoder /\ Buffered(dec)
  BY <1>1 DEF HeadInv, HeadRead
<1>3. /\ log \in Seq(Byte) /\ next \in Seq(Byte) /\ LogLen = Len(log) /\ LogLen \in Nat
      /\ limit.chunk \in Nat /\ dec.remaining \in 0..LogLen /\ dec.offset = 0
      /\ Len(next) \in Nat
  <2>1. dec.offset \in 0..Len(<<>>) /\ Len(<<>>) = 0 /\ dec.remaining \in 0..LogLen
    BY <1>1, <1>2 DEF Buffered
  <2> QED  BY <1>2, <2>1 DEF Inputs, Text, LogLen
<1>4. file \in Seq(Byte) /\ Len(file) = LogLen + Len(next)
  BY <1>3
<1>5. c \in 0..Len(file) /\ e \in c..Len(file) /\ c \in Nat
  <2>1. c \in Nat /\ c <= LogLen
    BY <1>3
  <2> HIDE DEF c, file
  <2>2. b \in Nat /\ c <= b
    BY <1>3, <2>1 DEF Least
  <2> HIDE DEF b
  <2>3. e \in Nat /\ c <= e /\ e <= Len(file)
    BY <1>3, <1>4, <2>1, <2>2 DEF Least
  <2> QED  BY <1>3, <1>4, <2>1, <2>3
<1>6. /\ chunk \in Seq(Byte) /\ Len(chunk) = e - c
      /\ \A i \in 1..(e - c) : chunk[i] = file[c + i]
  <2> HIDE DEF c, e, file
  <2> QED  BY <1>4, <1>5, Slices
<1> HIDE DEF chunk
<1>7. /\ dec'.buf = chunk /\ dec'.offset = 0 /\ dec'.remaining = dec.remaining
      /\ dec'.text = dec.text /\ dec' \in Decoder
  <2>1. /\ dec.offset \in Nat /\ dec.remaining \in Nat /\ dec.text \in Text
        /\ dec = [buf |-> dec.buf, offset |-> dec.offset, remaining |-> dec.remaining,
                  text |-> dec.text]
    BY <1>2 DEF Decoder
  <2>2. dec' = [buf |-> chunk, offset |-> dec.offset, remaining |-> dec.remaining,
                text |-> dec.text]
    BY <1>1, <2>1
  <2>3. chunk \in Text
    BY <1>6 DEF Text
  <2> QED  BY <1>3, <2>1, <2>2, <2>3 DEF Decoder
<1>8. Buffered(dec')
  <2>1. 0 \in 0..Len(chunk)
    <3> HIDE DEF c, e, file
    <3> QED  BY <1>5, <1>6
  <2>2. c + Len(chunk) - 0 <= LogLen + Len(next)
    <3> HIDE DEF c, e, file
    <3> QED  BY <1>4, <1>5, <1>6
  <2>3. \A i \in 1..(Len(chunk) - 0) : chunk[0 + i] = (log \o next)[c + i]
    <3> SUFFICES ASSUME NEW i \in 1..(Len(chunk) - 0) PROVE chunk[0 + i] = file[c + i]
      OBVIOUS
    <3> HIDE DEF c, e, file
    <3>1. i \in 1..(e - c) /\ 0 + i = i
      BY <1>5, <1>6
    <3> QED  BY <1>6, <3>1
  <2> QED  BY <1>3, <1>7, <2>1, <2>2, <2>3 DEF Buffered
<1>9. Inputs' /\ LogLen' = LogLen /\ (SingleByte' <=> SingleByte)
  BY <1>1, <1>2 DEF Inputs, LogLen, SingleByte
<1>10. Buffered(dec)' /\ Sofar(dec, head, dec.text)'
  <2>1. Sofar(dec, head, dec.text)
    BY <1>2 DEF HeadRead
  <2> QED  BY <1>1, <1>7, <1>8, <1>9, <2>1 DEF Buffered, Sofar
<1>11. HeadRead'
  BY <1>1, <1>2, <1>7, <1>9, <1>10 DEF HeadRead, Decoder
<1> QED  BY <1>1, <1>9, <1>11 DEF HeadInv, HeadOnly

LEMMA HeadStays ==
  ASSUME HeadInv, UNCHANGED <<input, dec, head, headEnd, rev, tail>>,
         pc' \in {pc, "failed"}
  PROVE  HeadInv'
  BY DEF HeadInv, HeadRead, HeadFound, HeadOnly, HeadEnded, Behind, Inputs, Buffered, Sofar,
         SingleByte, LogLen, AllLines, input

\* Where the reader from the back is: behind the last chunk it fetched, or before the
\* first fetch, when it has nothing to decode.
LEMMA FetchBehind ==
  ASSUME Behind, FetchTail, pc' = "tail", LogLen' = LogLen, LogLen \in Nat,
         limit.chunk \in Nat \ {0}
  PROVE  Behind'
<1> DEFINE end == rev.from - 1
           start == IF end - limit.chunk > 0 THEN end - limit.chunk ELSE 0
<1>1. rev.from # 0 /\ rev' = [rev EXCEPT !.from = start, !.offset = @ + rev.from - start]
  BY DEF FetchTail, Refused
<1>2. /\ rev = [from |-> rev.from, offset |-> rev.offset, out |-> rev.out, first |-> rev.first]
      /\ rev.from \in Nat /\ rev.from <= LogLen
  BY DEF Behind
<1>3. start \in Nat /\ start < rev.from
  BY <1>1, <1>2
<1> HIDE DEF start
<1>4. rev' = [from |-> start, offset |-> rev.offset + rev.from - start, out |-> rev.out,
              first |-> rev.first]
  BY <1>1, <1>2
<1>5. /\ rev' = [from |-> rev'.from, offset |-> rev'.offset, out |-> rev'.out,
                 first |-> rev'.first]
      /\ rev'.from = start
  BY <1>4
<1>6. start \in 0..LogLen' /\ start # LogLen'
  BY <1>2, <1>3
<1> QED  BY <1>5, <1>6 DEF Behind

LEMMA DecodeBehind ==
  ASSUME Behind, DecodeTail, LogLen' = LogLen, LogLen \in Nat
  PROVE  Behind' /\ rev'.from # LogLen'
<1> DEFINE pos == PreviousNewline(rev)
           d == Reversed(rev)
           skipped == rev.first /\ d.line = <<"nl">>
<1>1. ~WantsInput(rev) /\ rev' = [d.rev EXCEPT !.first = @ /\ ~skipped]
  BY DEF DecodeTail
<1>2. /\ rev = [from |-> rev.from, offset |-> rev.offset, out |-> rev.out, first |-> rev.first]
      /\ rev.from \in 0..LogLen
  BY DEF Behind
<1>3. rev.from # LogLen
  <2>1. rev.offset <= 0 => WantsInput(rev)
    BY DEF WantsInput, PreviousNewline
  <2> QED  BY <1>1, <2>1 DEF Behind
<1>4. d.rev = [rev EXCEPT !.offset = pos - 1, !.out = @ - (rev.offset - pos)]
  BY DEF Reversed
<1> HIDE DEF pos, d
<1>5. d.rev = [from |-> rev.from, offset |-> pos - 1, out |-> rev.out - (rev.offset - pos),
               first |-> rev.first]
  BY <1>2, <1>4
<1> HIDE DEF skipped
<1>6. rev' = [from |-> rev.from, offset |-> pos - 1, out |-> rev.out - (rev.offset - pos),
              first |-> rev.first /\ ~skipped]
  BY <1>1, <1>5
<1>7. /\ rev' = [from |-> rev'.from, offset |-> rev'.offset, out |-> rev'.out,
                 first |-> rev'.first]
      /\ rev'.from = rev.from
  BY <1>6
<1> QED  BY <1>2, <1>3, <1>7 DEF Behind

LEMMA HeadNext == HeadInv /\ [Next]_vars => HeadInv'
<1> SUFFICES ASSUME HeadInv, [Next]_vars PROVE HeadInv'
  OBVIOUS
<1>1. CASE FetchHead
  BY <1>1, HeadFetched
<1>2. CASE DecodeHead
  BY <1>2, HeadStep
<1>3. CASE FetchTail \/ DecodeTail
  <2>1. pc = "tail" /\ pc' \in {"tail", "done", "failed"}
        /\ UNCHANGED <<input, dec, headEnd>> /\ (pc' = "tail" => UNCHANGED head)
    BY <1>3 DEF FetchTail, DecodeTail
  <2>2. Inputs /\ HeadFound /\ Behind
    BY <2>1 DEF HeadInv
  <2>3. Inputs' /\ (pc' = "tail" => HeadFound') /\ LogLen' = LogLen
    BY <2>1, <2>2 DEF HeadFound, Inputs, SingleByte, LogLen, AllLines, input
  <2>4. LogLen \in Nat /\ limit.chunk \in Nat \ {0}
    BY <2>2 DEF Inputs, Text, LogLen
  <2>5. (pc' = "tail" => Behind') /\ ~HeadOnly'
    <3>1. CASE FetchTail
      BY <3>1, <2>2, <2>3, <2>4, FetchBehind DEF HeadOnly, FetchTail
    <3>2. CASE DecodeTail
      BY <3>2, <2>2, <2>3, <2>4, DecodeBehind DEF HeadOnly
    <3> QED  BY <1>3, <3>1, <3>2
  <2> QED  BY <2>1, <2>3, <2>5 DEF HeadInv
<1>4. CASE FetchFails \/ UNCHANGED vars
  <2>1. UNCHANGED <<input, dec, head, headEnd, rev, tail>> /\ pc' \in {pc, "failed"}
    BY <1>4 DEF FetchFails, vars
  <2> QED  BY <2>1, HeadStays
<1> QED  BY <1>1, <1>2, <1>3, <1>4 DEF Next

LEMMA PrefixOf ==
  ASSUME NEW S, NEW a \in Seq(S), NEW b \in Seq(S)
  PROVE  /\ a = SubSeq(a \o b, 1, Len(a)) /\ IsPrefix(a, a \o b)
         /\ b = SubSeq(a \o b, Len(a) + 1, Len(a) + Len(b))
         /\ Len(a \o b) = Len(a) + Len(b)
<1> DEFINE s == a \o b
<1>1. /\ s \in Seq(S) /\ Len(s) = Len(a) + Len(b) /\ Len(a) \in Nat /\ Len(b) \in Nat
      /\ \A i \in 1..Len(a) + Len(b) : s[i] = IF i <= Len(a) THEN a[i] ELSE b[i - Len(a)]
  BY ConcatProperties
<1> HIDE DEF s
<1>2. 0 \in 0..Len(s) /\ Len(a) \in 0..Len(s) /\ 0 + 1 = 1 /\ Len(a) - 0 = Len(a)
      /\ Len(s) \in Len(a)..Len(s) /\ Len(s) - Len(a) = Len(b)
  BY <1>1
<1>3. a = SubSeq(s, 1, Len(a))
  <2> DEFINE u == SubSeq(s, 0 + 1, Len(a))
  <2>1. u \in Seq(S) /\ Len(u) = Len(a) /\ \A i \in 1..Len(a) : u[i] = s[0 + i]
    BY <1>1, <1>2, Slices
  <2> HIDE DEF u
  <2>2. \A i \in 1..Len(a) : u[i] = a[i]
    <3>1. \A i \in 1..Len(a) : i \in 1..Len(a) + Len(b) /\ i <= Len(a) /\ 0 + i = i
      BY <1>1
    <3> QED  BY <1>1, <2>1, <3>1
  <2>3. u = a
    BY <2>1, <2>2, SeqEqual
  <2> QED  BY <1>2, <2>3 DEF u
<1>4. b = SubSeq(s, Len(a) + 1, Len(a) + Len(b))
  <2> DEFINE u == SubSeq(s, Len(a) + 1, Len(s))
  <2>1. u \in Seq(S) /\ Len(u) = Len(b) /\ \A i \in 1..Len(b) : u[i] = s[Len(a) + i]
    BY <1>1, <1>2, Slices
  <2> HIDE DEF u
  <2>2. \A i \in 1..Len(b) : u[i] = b[i]
    <3>1. \A i \in 1..Len(b) : /\ Len(a) + i \in 1..Len(a) + Len(b) /\ ~(Len(a) + i <= Len(a))
                               /\ Len(a) + i - Len(a) = i
      BY <1>1
    <3> QED  BY <1>1, <2>1, <3>1
  <2>3. u = b
    BY <2>1, <2>2, SeqEqual
  <2> QED  BY <1>1, <2>3 DEF u
<1>5. IsPrefix(a, s)
  <2>1. SubSeq(a, 1, Len(a)) = a /\ Len(a) <= Len(s)
    BY <1>1
  <2> QED  BY <1>3, <2>1 DEF IsPrefix
<1> QED  BY <1>1, <1>3, <1>4, <1>5 DEF s

\* The lines read from the front are the first lines of the output, with any chunks,
\* newlines and characters split between them, and bytes of the next test after them.
THEOREM HeadRight == Spec => []HeadIsPrefix
<1>1. HeadInv => HeadIsPrefix
  <2> SUFFICES ASSUME HeadInv PROVE HeadIsPrefix
    OBVIOUS
  <2>1. ASSUME NEW x \in Seq(Text), AllLines = head \o x, head \in Seq(Text)
        PROVE  head = SubSeq(AllLines, 1, Len(head))
    BY <2>1, PrefixOf
  <2>2. CASE pc = "tail"
    <3>1. head \in Seq(Text) /\ \E x \in Seq(Text) : AllLines = head \o x
      BY <2>2 DEF HeadInv, HeadFound
    <3>2. head = SubSeq(AllLines, 1, Len(head))
      BY <2>1, <3>1
    <3> QED  BY <2>2, <3>2 DEF HeadIsPrefix, HeadOnly
  <2>3. CASE pc = "head"
    <3> DEFINE c == LogLen - dec.remaining
    <3>1. Inputs /\ HeadRead /\ dec.remaining \in 0..LogLen /\ dec.text \in Text /\ LogLen \in Nat
      <4>1. Inputs /\ HeadRead
        BY <2>3 DEF HeadInv
      <4>2. dec \in Decoder /\ dec.remaining \in 0..LogLen
        BY <4>1 DEF HeadRead, Buffered
      <4>3. LogLen \in Nat
        BY <4>1 DEF Inputs, Text, LogLen
      <4> QED  BY <4>1, <4>2, <4>3 DEF Decoder
    <3>2. Joined(head) \o dec.text = Decoded(SubSeq(log, 1, c)) /\ head \in Seq(Whole)
      BY <3>1 DEF HeadRead, Sofar
    <3>3. head \in Seq(Text) /\ Joined(head) \in Seq(Byte) /\ dec.text \in Seq(Byte)
      BY <3>1, <3>2, Empties, SplitJoined DEF Text
    <3>4. PICK x \in Text : Decoded(log) = Decoded(SubSeq(log, 1, c)) \o x
      <4>1. c \in 0..LogLen
        BY <3>1
      <4> HIDE DEF c
      <4> QED  BY <3>1, <4>1, WholeLog
    <3> HIDE DEF c
    <3>5. x \in Seq(Byte) /\ Joined(head) \o dec.text \in Seq(Byte)
      BY <3>3 DEF Text
    <3>6. IsPrefix(Joined(head) \o dec.text, Decoded(log))
      BY <3>2, <3>4, <3>5, PrefixOf
    <3>7. dec.text \o x \in Text /\ Decoded(log) = Joined(head) \o (dec.text \o x)
      <4>1. \A r, s, t \in Seq(Byte) : (r \o s) \o t = r \o (s \o t)
        BY ConcatAssociative
      <4>2. dec.text \o x \in Seq(Byte)
        BY <3>3, <3>5
      <4>3. Decoded(log) = (Joined(head) \o dec.text) \o x
        BY <3>2, <3>4
      <4> QED  BY <3>3, <3>5, <4>1, <4>2, <4>3 DEF Text
    <3>8. AllLines = head \o Lines(dec.text \o x) /\ Lines(dec.text \o x) \in Seq(Text)
      BY <3>2, <3>7, LinesAfter, JoinedLines DEF AllLines
    <3>9. head = SubSeq(AllLines, 1, Len(head))
      BY <2>1, <3>3, <3>8
    <3>10. ~HeadOnly
      BY <2>3 DEF HeadOnly
    <3> QED  BY <3>6, <3>9, <3>10 DEF HeadIsPrefix
  <2>4. CASE HeadOnly
    <3>1. /\ head \in Seq(Text) /\ \E x \in Seq(Text) : AllLines = head \o x
          /\ headEnd <= limit.bytes => head = AllLines
      BY <2>4 DEF HeadInv, HeadEnded
    <3>2. head = SubSeq(AllLines, 1, Len(head)) /\ pc # "head"
      BY <2>1, <2>4, <3>1 DEF HeadOnly
    <3> QED  BY <3>1, <3>2 DEF HeadIsPrefix
  <2> QED  BY <2>2, <2>3, <2>4 DEF HeadIsPrefix
<1> QED  BY HeadStart, HeadNext, <1>1, PTL DEF Spec

-----------------------------------------------------------------------------
(* The tail                                                                 *)

ReverseBuffer == [from: Nat, offset: Int, out: Int, first: BOOLEAN]

\* The last byte that is not read yet.
Unread(r) == r.from + r.offset + 1

LEMMA GreatestNat ==
  ASSUME NEW n \in Nat, NEW T \in SUBSET (0..n), T # {}
  PROVE  \E x \in T : \A y \in T : x >= y
<1> DEFINE R == {n - x : x \in T}
<1>1. R \in SUBSET Nat /\ R # {}
  <2>1. \A x \in T : n - x \in Nat
    OBVIOUS
  <2>2. \E x \in T : n - x \in R
    OBVIOUS
  <2> QED  BY <2>1, <2>2
<1>2. PICK z \in R : \A y \in R : z <= y
  <2> HIDE DEF R
  <2> QED  BY <1>1, LeastNat
<1>3. PICK x \in T : z = n - x
  OBVIOUS
<1>4. \A y \in T : n - x <= n - y
  BY <1>2, <1>3
<1>5. \A y \in T : x >= y
  BY <1>4
<1> QED  BY <1>5

\* The newline before the last line that is left, and the bytes of that line.
LEMMA LineBefore ==
  ASSUME Inputs, NEW r \in ReverseBuffer, r.from <= LogLen, ~WantsInput(r)
  PROVE  \E p \in Nat :
           /\ p >= r.from + 1 /\ p <= Unread(r) /\ p <= LogLen /\ log[p] = "nl"
           /\ \A j \in (p + 1)..Least(Unread(r), LogLen) : log[j] # "nl"
           /\ PreviousNewline(r) = p - r.from - 1
           /\ LineBytes(r, PreviousNewline(r)) = SubSeq(log, p + 1, Least(Unread(r), LogLen))
           /\ r.offset > 0
<1> DEFINE e == Least(Unread(r), LogLen)
           I == {i \in (r.from + 1)..e : log[i] = "nl"}
<1>1. r.from \in Nat /\ r.offset \in Int /\ LogLen \in Nat
  BY DEF ReverseBuffer, Inputs, Text, LogLen
<1>2. r.offset > 0 /\ PreviousNewline(r) = (IF I # {} THEN Max(I) ELSE 0) - r.from - 1
  <2>1. ~(PreviousNewline(r) < 0)
    BY DEF WantsInput
  <2>2. ~(r.offset <= 0)
    BY <2>1 DEF PreviousNewline
  <2>3. PreviousNewline(r) = (IF I # {} THEN Max(I) ELSE 0) - r.from - 1
    BY <2>2 DEF PreviousNewline, SelectLastInSubSeq, Unread
  <2> QED  BY <1>1, <2>2, <2>3
<1>3. e \in Nat /\ e <= LogLen /\ e <= Unread(r) /\ Unread(r) \in Nat
  BY <1>1, <1>2 DEF Least, Unread
<1> HIDE DEF e
<1>4. I # {}
  <2> SUFFICES ASSUME I = {} PROVE FALSE
    OBVIOUS
  <2>1. PreviousNewline(r) = 0 - r.from - 1
    BY <1>2
  <2>2. PreviousNewline(r) < 0
    BY <1>1, <2>1
  <2> QED  BY <2>2 DEF WantsInput
<1> DEFINE p == Max(I)
<1>5. p \in I /\ \A y \in I : p >= y
  <2>1. I \in SUBSET (0..LogLen)
    BY <1>1, <1>3
  <2> HIDE DEF I
  <2>2. \E x \in I : \A y \in I : x >= y
    BY <1>1, <1>4, <2>1, GreatestNat
  <2> QED  BY <2>2 DEF Max
<1>6. PreviousNewline(r) = p - r.from - 1
  BY <1>2, <1>4
<1> HIDE DEF p
<1>7. p \in Nat /\ p >= r.from + 1 /\ p <= e /\ log[p] = "nl"
  BY <1>1, <1>3, <1>5
<1>8. \A j \in (p + 1)..e : log[j] # "nl"
  <2> SUFFICES ASSUME NEW j \in (p + 1)..e, log[j] = "nl" PROVE FALSE
    OBVIOUS
  <2>1. j \in I
    BY <1>1, <1>3, <1>7
  <2>2. p >= j
    BY <1>5, <2>1
  <2> QED  BY <1>3, <1>7, <2>2
<1>9. LineBytes(r, PreviousNewline(r)) = SubSeq(log, p + 1, e)
  <2>1. r.from + (p - r.from - 1) + 2 = p + 1
    BY <1>1, <1>7
  <2> QED  BY <1>6, <2>1 DEF LineBytes, Unread, e
<1>10. p <= Unread(r) /\ p <= LogLen
  BY <1>1, <1>3, <1>7
<1> HIDE DEF I
<1> QED  BY <1>2, <1>6, <1>7, <1>8, <1>9, <1>10 DEF e

\* The bytes up to a newline are whole lines, and the output goes on with those after.
LEMMA LinesFrom ==
  ASSUME Inputs, NEW p \in 1..LogLen, log[p] = "nl"
  PROVE  \E z \in Seq(Whole) :
           /\ AllLines = z \o Lines(Decoded(SubSeq(log, p + 1, LogLen)))
           /\ Joined(z) = Decoded(SubSeq(log, 1, p))
           /\ Lines(Decoded(SubSeq(log, p + 1, LogLen))) \in Seq(Text)
<1> DEFINE a == SubSeq(log, 1, p)
           b == SubSeq(log, p + 1, LogLen)
           u == SubSeq(log, 1, p - 1)
<1>1. /\ log \in Seq(Byte) /\ LogLen = Len(log) /\ LogLen \in Nat /\ p \in Nat /\ 1 <= p
      /\ SubSeq(log, 1, LogLen) = log
  BY DEF Inputs, Text, LogLen
<1>2. a \in Text /\ b \in Text /\ a \o b = log
  <2>1. p \in 0..Len(log) /\ LogLen \in p..Len(log)
    BY <1>1
  <2> QED  BY <1>1, <2>1, Adjacent, Slices DEF Text
<1>3. u \in Text /\ a = Append(u, "nl")
  <2>1. 1 \in 1..Len(log) /\ p \in 1..Len(log) /\ p - 1 \in 0..Len(log) /\ p - 1 \in (p - 1)..Len(log)
    BY <1>1
  <2>2. a = u \o <<log[p]>>
    BY <1>1, <2>1, SubSeqRecursiveSecond
  <2>3. u \in Seq(Byte)
    BY <1>1, <2>1, Adjacent
  <2> HIDE DEF a, u
  <2> QED  BY <2>2, <2>3 DEF Text
<1> HIDE DEF a, b, u
<1>4. Decoded(log) = Decoded(a) \o Decoded(b) /\ Decoded(a) \in Text /\ Decoded(b) \in Text
  BY <1>2, DecodedConcat
<1>5. Decoded(a) = Append(Decoded(u), "nl") /\ Decoded(u) \in Text /\ "nl" \in Byte
  <2>1. "nl" \in Byte
    BY DEF Byte
  <2> QED  BY <1>3, <2>1, DecodedUnfolds
<1> DEFINE z == Split(Decoded(a)).lines
<1>6. z \in Seq(Whole) /\ Joined(z) = Decoded(a)
  <2>1. Split(Decoded(a)).rest = <<>>
    BY <1>5, SplitUnfolds
  <2>2. z \in Seq(Whole) /\ Decoded(a) = Joined(z) \o <<>>
    BY <1>4, <2>1, TextForm
  <2> HIDE DEF z
  <2>3. Joined(z) \in Seq(Byte)
    BY <2>2, SplitJoined DEF Text
  <2>4. Joined(z) \o <<>> = Joined(z)
    BY <2>3, ConcatEmptySeq
  <2> QED  BY <2>2, <2>4
<1> HIDE DEF z
<1>7. AllLines = z \o Lines(Decoded(b)) /\ Lines(Decoded(b)) \in Seq(Text)
  <2>1. Lines(Joined(z) \o Decoded(b)) = z \o Lines(Decoded(b))
    BY <1>4, <1>6, LinesAfter
  <2>2. Decoded(log) = Joined(z) \o Decoded(b)
    BY <1>4, <1>6
  <2> QED  BY <1>4, <2>1, <2>2, JoinedLines DEF AllLines
<1> QED  BY <1>6, <1>7 DEF a, b

\* The line before lines that were read from the back.
LEMMA LineFrom ==
  ASSUME Inputs, NEW p \in 1..LogLen, NEW e \in p..LogLen - 1, log[e + 1] = "nl",
         \A j \in (p + 1)..e : log[j] # "nl"
  PROVE  LET line == Decoded(SubSeq(log, p + 1, e)) \o <<"nl">>
         IN Lines(Decoded(SubSeq(log, p + 1, LogLen)))
              = <<line>> \o Lines(Decoded(SubSeq(log, e + 2, LogLen)))
<1> DEFINE b == SubSeq(log, p + 1, e)
           q == SubSeq(log, p + 1, e + 1)
           r == SubSeq(log, e + 2, LogLen)
           line == Decoded(b) \o <<"nl">>
<1>1. /\ log \in Seq(Byte) /\ LogLen = Len(log) /\ LogLen \in Nat /\ p \in Nat /\ 1 <= p
      /\ e \in Nat /\ p <= e /\ e + 1 <= LogLen
  BY DEF Inputs, Text, LogLen
<1>2. b \in Seq(Plain)
  <2>1. p \in 0..Len(log) /\ e \in p..Len(log)
    BY <1>1
  <2>2. b \in Seq(Byte) /\ Len(b) = e - p /\ \A i \in 1..(e - p) : b[i] = log[p + i]
    BY <1>1, <2>1, Slices
  <2> HIDE DEF b
  <2>3. \A i \in 1..Len(b) : b[i] \in Plain
    <3> SUFFICES ASSUME NEW i \in 1..Len(b) PROVE b[i] \in Plain
      OBVIOUS
    <3>1. p + i \in (p + 1)..e /\ i \in 1..(e - p)
      BY <1>1, <2>2
    <3>2. b[i] # "nl" /\ b[i] \in Byte
      BY <2>2, <3>1
    <3> QED  BY <3>2 DEF Plain
  <2> QED  BY <2>2, <2>3
<1>3. q = Append(b, "nl") /\ q \in Text /\ b \in Text
  <2>1. p + 1 \in 1..Len(log) /\ e + 1 \in (p + 1)..Len(log) /\ (e + 1) - 1 = e
    BY <1>1
  <2>2. q = SubSeq(log, p + 1, (e + 1) - 1) \o <<log[e + 1]>>
    BY <1>1, <2>1, SubSeqRecursiveSecond
  <2>3. b \in Text
    BY <1>2, Empties
  <2>4. q = b \o <<"nl">> /\ "nl" \in Byte
    BY <2>1, <2>2 DEF Byte
  <2> HIDE DEF q, b
  <2> QED  BY <2>3, <2>4 DEF Text
<1>4. r \in Text /\ q \o r = SubSeq(log, p + 1, LogLen)
  <2>1. /\ p + 1 \in 1..Len(log) + 1 /\ e + 1 \in (p + 1) - 1..Len(log)
        /\ LogLen \in (e + 1)..Len(log) /\ e + 1 \in 0..Len(log) /\ (e + 1) + 1 = e + 2
    BY <1>1
  <2>2. SubSeq(log, p + 1, e + 1) \o SubSeq(log, (e + 1) + 1, LogLen) = SubSeq(log, p + 1, LogLen)
    BY <1>1, <2>1, ConcatAdjacentSubSeq
  <2>3. SubSeq(log, (e + 1) + 1, LogLen) \in Seq(Byte)
    BY <1>1, <2>1, Slices
  <2> QED  BY <2>1, <2>2, <2>3 DEF Text
<1> HIDE DEF b, q, r
<1>5. Decoded(q) = line /\ line \in Whole
  <2>1. "nl" \in Byte
    BY DEF Byte
  <2>2. Decoded(q) = Append(Decoded(b), "nl") /\ Decoded(b) \in Seq(Plain)
    BY <1>2, <1>3, <2>1, DecodedUnfolds, DecodedPlain
  <2>3. Append(Decoded(b), "nl") = line
    BY <2>2
  <2> HIDE DEF line
  <2> QED  BY <2>2, <2>3 DEF Whole
<1> HIDE DEF line
<1>6. Decoded(q \o r) = line \o Decoded(r) /\ Decoded(r) \in Text
  BY <1>3, <1>4, <1>5, DecodedConcat
<1>7. <<line>> \in Seq(Whole) /\ Joined(<<line>>) = line
  <2>1. <<line>> = Append(<<>>, line) /\ line \in Text
    BY <1>5, Empties
  <2>2. Joined(Append(<<>>, line)) = <<>> \o line
    BY <2>1, JoinedUnfolds, Empties
  <2>3. <<>> \o line = line
    BY <2>1, ConcatEmptySeq DEF Text
  <2> QED  BY <1>5, <2>1, <2>2, <2>3
<1>8. Lines(line \o Decoded(r)) = <<line>> \o Lines(Decoded(r))
  BY <1>6, <1>7, LinesAfter
<1> QED  BY <1>4, <1>6, <1>8 DEF line, b, r

\* While the tail is read: nothing is read yet, or the lines read are those after a
\* newline, and the position that the code counts is off by one for each of them.
TailFound(r, lines) ==
  /\ Unread(r) <= LogLen - 1 /\ log[Unread(r) + 1] = "nl"
  /\ lines = Lines(Decoded(SubSeq(log, Unread(r) + 2, LogLen)))
  /\ r.out = Unread(r) + Len(lines)
TailRead ==
  /\ rev \in ReverseBuffer /\ rev.from <= LogLen /\ rev.offset >= -1
  /\ tail \in Seq(Text) /\ log # <<>>
  /\ Terminated => IF rev.first
                   THEN tail = <<>> /\ Unread(rev) = LogLen + 1 /\ rev.out = LogLen
                   ELSE TailFound(rev, tail)
LoadInv ==
  /\ HeadInv
  /\ pc = "tail" => TailRead
  /\ TailIsSuffix
  /\ CompleteIfNoTail

\* What was found from the back is the end of the output.
LEMMA FoundIsLast ==
  ASSUME Inputs, NEW r \in ReverseBuffer, r.offset >= -1, NEW lines, TailFound(r, lines)
  PROVE  /\ lines \in Seq(Text) /\ lines = LastLines(Len(lines))
         /\ Len(lines) \in 0..Len(AllLines)
<1> DEFINE p == Unread(r) + 1
<1>1. /\ r.from \in Nat /\ r.offset \in Int /\ LogLen \in Nat
  BY DEF ReverseBuffer, Inputs, Text, LogLen
<1>2. p \in 1..LogLen /\ log[p] = "nl" /\ p + 1 = Unread(r) + 2
  BY <1>1 DEF TailFound, Unread
<1>3. PICK z \in Seq(Whole) :
        /\ AllLines = z \o Lines(Decoded(SubSeq(log, p + 1, LogLen)))
        /\ Lines(Decoded(SubSeq(log, p + 1, LogLen))) \in Seq(Text)
  <2> HIDE DEF p
  <2> QED  BY <1>2, LinesFrom
<1>4. AllLines = z \o lines /\ lines \in Seq(Text) /\ z \in Seq(Text)
  BY <1>2, <1>3, Empties DEF TailFound
<1>5. /\ Len(AllLines) = Len(z) + Len(lines) /\ Len(z) \in Nat /\ Len(lines) \in Nat
      /\ lines = SubSeq(AllLines, Len(z) + 1, Len(z) + Len(lines))
  BY <1>4, PrefixOf
<1>6. Len(AllLines) - Len(lines) + 1 = Len(z) + 1 /\ Len(lines) \in 0..Len(AllLines)
  BY <1>5
<1> QED  BY <1>4, <1>5, <1>6 DEF LastLines

LEMMA NoLastLines ==
  ASSUME Inputs
  PROVE  <<>> = LastLines(Len(<<>>)) /\ AllLines \in Seq(Text)
<1>1. AllLines \in Seq(Text)
  <2>1. LogLen \in 0..LogLen
    BY DEF Inputs, Text, LogLen
  <2> QED  BY <2>1, WholeLog, JoinedLines DEF AllLines
<1>2. Len(AllLines) \in Nat /\ Len(<<>>) = 0
  BY <1>1
<1>3. LastLines(0) = SubSeq(AllLines, Len(AllLines) - 0 + 1, Len(AllLines))
  BY DEF LastLines
<1>4. Len(AllLines) - 0 + 1 \in Int /\ Len(AllLines) < Len(AllLines) - 0 + 1
  BY <1>2
<1>5. SubSeq(AllLines, Len(AllLines) - 0 + 1, Len(AllLines)) = <<>>
  BY <1>2, <1>4, SubSeqEmpty
<1> QED  BY <1>1, <1>2, <1>3, <1>5

\* One line is read from the back: the empty one after the final newline first, then
\* each is the line before those that were read.
LEMMA TailStep ==
  ASSUME Inputs, TailRead, ~WantsInput(rev)
  PROVE  LET d == Reversed(rev)
             skipped == rev.first /\ d.line = <<"nl">>
             r == [d.rev EXCEPT !.first = @ /\ ~skipped]
             longer == <<d.line>> \o tail
         IN /\ r \in ReverseBuffer /\ r.from <= LogLen /\ r.offset >= -1
            /\ longer \in Seq(Text) /\ longer # <<>> /\ r.out = d.rev.out
            /\ Terminated =>
                 /\ ~r.first /\ (skipped <=> rev.first)
                 /\ skipped => TailFound(r, tail) /\ r.out = LogLen - 1
                 /\ ~skipped => TailFound(r, longer) /\ Unread(r) < Unread(rev)
<1> DEFINE d == Reversed(rev)
           skipped == rev.first /\ d.line = <<"nl">>
           r == [d.rev EXCEPT !.first = @ /\ ~skipped]
           longer == <<d.line>> \o tail
           u == Unread(rev)
           e == Least(u, LogLen)
<1>1. /\ rev.from \in Nat /\ rev.offset \in Int /\ rev.out \in Int /\ rev.first \in BOOLEAN
      /\ LogLen \in Nat /\ LogLen = Len(log) /\ log \in Seq(Byte) /\ rev.from <= LogLen
      /\ rev.offset >= -1 /\ rev \in ReverseBuffer /\ tail \in Seq(Text)
      /\ rev = [from |-> rev.from, offset |-> rev.offset, out |-> rev.out, first |-> rev.first]
  BY DEF TailRead, ReverseBuffer, Inputs, Text, LogLen
<1>2. PICK p \in Nat :
        /\ p >= rev.from + 1 /\ p <= u /\ p <= LogLen /\ log[p] = "nl"
        /\ \A j \in (p + 1)..e : log[j] # "nl"
        /\ PreviousNewline(rev) = p - rev.from - 1
        /\ LineBytes(rev, PreviousNewline(rev)) = SubSeq(log, p + 1, e)
        /\ rev.offset > 0
  BY <1>1, LineBefore
<1> DEFINE line == Decoded(SubSeq(log, p + 1, e)) \o <<"nl">>
<1>3. /\ d.line = line
      /\ d.rev = [from |-> rev.from, offset |-> p - rev.from - 1 - 1,
                  out |-> rev.out - (rev.offset - (p - rev.from - 1)), first |-> rev.first]
  <2>1. /\ d.line = Decoded(LineBytes(rev, PreviousNewline(rev))) \o <<"nl">>
        /\ d.rev = [rev EXCEPT !.offset = PreviousNewline(rev) - 1,
                               !.out = @ - (rev.offset - PreviousNewline(rev))]
    BY DEF Reversed
  <2> HIDE DEF d, e
  <2>2. d.line = line
    BY <1>2, <2>1
  <2>3. d.rev = [rev EXCEPT !.offset = p - rev.from - 1 - 1,
                            !.out = rev.out - (rev.offset - (p - rev.from - 1))]
    BY <1>2, <2>1
  <2> QED  BY <1>1, <2>2, <2>3
<1>4. u \in Nat /\ u = rev.from + rev.offset + 1 /\ e \in Nat /\ e <= LogLen /\ p <= e
      /\ (u <= LogLen => e = u) /\ (u > LogLen => e = LogLen)
  BY <1>1, <1>2 DEF Unread, Least
<1> HIDE DEF d, line
<1>5. /\ r = [from |-> rev.from, offset |-> p - rev.from - 1 - 1,
              out |-> rev.out - (rev.offset - (p - rev.from - 1)),
              first |-> rev.first /\ ~skipped]
  <2> HIDE DEF skipped
  <2> QED  BY <1>3
<1>6. /\ r.from = rev.from /\ r.offset = p - rev.from - 2 /\ r.out = rev.out - (u - p)
      /\ r.first = (rev.first /\ ~skipped) /\ r.out = d.rev.out
  <2>1. /\ p - rev.from - 1 - 1 = p - rev.from - 2
        /\ rev.out - (rev.offset - (p - rev.from - 1)) = rev.out - (u - p)
    <3> DEFINE f == rev.from
               o == rev.offset
               x == rev.out
    <3>1. f \in Nat /\ o \in Int /\ x \in Int /\ p \in Nat /\ u = f + o + 1
      BY <1>1, <1>2, <1>4
    <3> HIDE DEF u, f, o, x
    <3>2. p - f - 1 - 1 = p - f - 2 /\ x - (o - (p - f - 1)) = x - (u - p)
      BY <3>1
    <3> QED  BY <3>2 DEF f, o, x
  <2> HIDE DEF skipped, r
  <2> QED  BY <1>3, <1>5, <2>1
<1>7. r \in ReverseBuffer /\ r.from <= LogLen /\ r.offset >= -1 /\ Unread(r) = p - 1
  <2> HIDE DEF u
  <2>1. /\ rev.from \in Nat /\ p - rev.from - 1 - 1 \in Int
        /\ rev.out - (rev.offset - (p - rev.from - 1)) \in Int
    BY <1>1, <1>2
  <2>2. (rev.first /\ ~skipped) \in BOOLEAN
    OBVIOUS
  <2> HIDE DEF skipped, r
  <2>3. r \in ReverseBuffer
    BY <1>5, <2>1, <2>2 DEF ReverseBuffer
  <2>4. r.offset >= -1 /\ r.from + r.offset + 1 = p - 1
    <3> DEFINE f == rev.from
    <3>1. f \in Nat /\ p \in Nat /\ p >= f + 1 /\ r.from = f /\ r.offset = p - f - 2
      BY <1>1, <1>2, <1>6
    <3> HIDE DEF f
    <3>2. p - f - 2 >= -1 /\ f + (p - f - 2) + 1 = p - 1
      BY <3>1
    <3> QED  BY <3>1, <3>2
  <2> QED  BY <1>1, <1>6, <2>3, <2>4 DEF Unread
<1>8. line \in Text
  <2>1. p \in 0..Len(log) /\ e \in p..Len(log)
    BY <1>1, <1>2, <1>4
  <2> HIDE DEF e
  <2>2. SubSeq(log, p + 1, e) \in Text
    BY <1>1, <2>1, Slices DEF Text
  <2>3. Decoded(SubSeq(log, p + 1, e)) \in Seq(Byte)
    BY <2>2, DecodedConcat DEF Text
  <2>4. <<"nl">> \in Seq(Byte)
    BY DEF Byte
  <2> QED  BY <2>3, <2>4 DEF Text, line
<1>9. longer = <<line>> \o tail /\ longer \in Seq(Text) /\ longer # <<>>
      /\ Len(longer) = Len(tail) + 1 /\ Len(tail) \in Nat
  <2>1. longer = <<line>> \o tail
    BY <1>3
  <2> HIDE DEF longer
  <2>2. <<line>> \in Seq(Text) /\ Len(<<line>>) = 1
    BY <1>8
  <2>3. Len(longer) = Len(tail) + 1 /\ longer \in Seq(Text) /\ Len(tail) \in Nat
    BY <1>1, <2>1, <2>2
  <2> QED  BY <2>1, <2>3
<1> HIDE DEF r, longer
<1>10. ASSUME Terminated, rev.first
       PROVE  /\ ~r.first /\ skipped /\ TailFound(r, tail) /\ r.out = LogLen - 1
  <2>1. tail = <<>> /\ u = LogLen + 1 /\ rev.out = LogLen /\ log[LogLen] = "nl"
    BY <1>10 DEF TailRead, Terminated, Last, LogLen
  <2>2. p = LogLen /\ e = LogLen
    <3>1. e = LogLen
      BY <1>1, <1>4, <2>1
    <3>2. ~(LogLen \in (p + 1)..e)
      BY <1>2, <2>1
    <3> HIDE DEF e
    <3> QED  BY <1>1, <1>2, <3>1, <3>2
  <2>3. SubSeq(log, LogLen + 1, LogLen) = <<>>
    BY <1>1, SubSeqEmpty
  <2>4. line = <<"nl">>
    <3> HIDE DEF e
    <3>1. SubSeq(log, p + 1, e) = <<>>
      BY <2>2, <2>3
    <3>2. line = Decoded(<<>>) \o <<"nl">>
      BY <3>1 DEF line
    <3>3. <<>> \o <<"nl">> = <<"nl">>
      <4>1. <<"nl">> \in Seq({"nl"})
        OBVIOUS
      <4> QED  BY <4>1, ConcatEmptySeq
    <3> QED  BY <3>2, <3>3, DecodedUnfolds
  <2>5. skipped /\ ~r.first
    BY <1>3, <1>6, <1>10, <2>4
  <2>6. Unread(r) = LogLen - 1 /\ r.out = LogLen - 1
    BY <1>1, <1>6, <1>7, <2>1, <2>2
  <2>7. TailFound(r, tail)
    <3>1. LogLen - 1 + 2 = LogLen + 1 /\ LogLen - 1 + 1 = LogLen /\ LogLen - 1 <= LogLen - 1
          /\ Len(<<>>) = 0 /\ LogLen - 1 + 0 = LogLen - 1
      BY <1>1
    <3>2. Lines(Decoded(<<>>)) = <<>>
      BY DecodedUnfolds, SplitUnfolds DEF Lines
    <3> QED  BY <2>1, <2>3, <2>6, <3>1, <3>2 DEF TailFound
  <2> QED  BY <2>5, <2>6, <2>7
<1>11. ASSUME Terminated, ~rev.first
       PROVE  /\ ~r.first /\ ~skipped /\ TailFound(r, longer) /\ Unread(r) < Unread(rev)
  <2>1. TailFound(rev, tail) /\ u <= LogLen - 1 /\ log[u + 1] = "nl"
        /\ tail = Lines(Decoded(SubSeq(log, u + 2, LogLen))) /\ rev.out = u + Len(tail)
    BY <1>11 DEF TailRead, TailFound
  <2>2. e = u
    BY <1>1, <1>4, <2>1
  <2>3. ~r.first /\ ~skipped
    BY <1>6, <1>11
  <2>4. longer = Lines(Decoded(SubSeq(log, p + 1, LogLen)))
    <3>1. p \in 1..LogLen /\ u \in p..LogLen - 1
      <4>1. rev.from \in Nat /\ p \in Nat /\ p >= rev.from + 1 /\ LogLen \in Nat
        BY <1>1, <1>2
      <4>2. p >= 1
        BY <4>1
      <4>3. u \in Nat /\ p <= u /\ u <= LogLen - 1
        BY <1>2, <1>4, <2>1
      <4> HIDE DEF u
      <4> QED  BY ONLY <4>1, <4>2, <4>3
    <3>2. \A j \in (p + 1)..u : log[j] # "nl"
      BY <1>2, <2>2
    <3>3. line = Decoded(SubSeq(log, p + 1, u)) \o <<"nl">>
      BY <2>2 DEF line
    <3> HIDE DEF u, e
    <3>4. Lines(Decoded(SubSeq(log, p + 1, LogLen)))
            = <<line>> \o Lines(Decoded(SubSeq(log, u + 2, LogLen)))
      BY <2>1, <3>1, <3>2, <3>3, LineFrom
    <3> QED  BY <1>9, <2>1, <3>4
  <2>5. r.out = Unread(r) + Len(longer) /\ Unread(r) < u
    <3>1. u \in Nat /\ p <= u /\ p \in Nat /\ Unread(r) = p - 1 /\ Len(tail) \in Nat
      BY <1>2, <1>4, <1>7, <1>9
    <3>2. r.out = (u + Len(tail)) - (u - p) /\ Len(longer) = Len(tail) + 1
      BY <1>6, <1>9, <2>1
    <3> HIDE DEF u
    <3>3. \A n \in Nat : (u + n) - (u - p) = (p - 1) + (n + 1)
      BY <3>1
    <3> QED  BY <3>1, <3>2, <3>3
  <2>6. Unread(r) + 2 = p + 1 /\ Unread(r) + 1 = p /\ Unread(r) <= LogLen - 1
    BY <1>1, <1>2, <1>7
  <2> QED  BY <1>2, <2>3, <2>4, <2>5, <2>6 DEF TailFound
<1> QED  BY <1>6, <1>7, <1>9, <1>10, <1>11 DEF r, longer, d

\* Of two beginnings of the same lines, the one of fewer lines is the shorter text.
LEMMA JoinedShorter ==
  ASSUME NEW a \in Seq(Text), NEW x \in Seq(Text), NEW b \in Seq(Text), NEW y \in Seq(Text),
         a \o x = b \o y, Len(a) <= Len(b)
  PROVE  Len(Joined(a)) <= Len(Joined(b))
<1> DEFINE c == SubSeq(b, Len(a) + 1, Len(b))
<1>1. Len(a) \in Nat /\ Len(b) \in Nat /\ 0 \in 0..Len(b) /\ Len(a) \in 0..Len(b)
      /\ Len(b) \in Len(a)..Len(b) /\ SubSeq(b, 1, Len(b)) = b
  OBVIOUS
<1>2. SubSeq(b, 1, Len(a)) \o c = b /\ SubSeq(b, 1, Len(a)) \in Seq(Text) /\ c \in Seq(Text)
  BY <1>1, Adjacent, Slices
<1> HIDE DEF c
<1>3. SubSeq(b, 1, Len(a)) = a
  <2>1. /\ SubSeq(b \o y, 1, Len(b)) = b /\ SubSeq(a \o x, 1, Len(a)) = a
    BY PrefixOf
  <2>2. CASE Len(a) = 0
    <3>1. a = <<>> /\ SubSeq(b, 1, Len(a)) = <<>>
      BY <2>2
    <3> QED  BY <3>1
  <2>3. CASE Len(a) # 0
    <3>1. 1 \in 1..Len(b) /\ Len(a) \in 1..Len(b)
      BY <1>1, <2>3
    <3>2. SubSeq(b \o y, 1, Len(a)) = SubSeq(b, 1, Len(a))
      BY <3>1, SubSeqOfConcat1
    <3> QED  BY <2>1, <3>2
  <2> QED  BY <2>2, <2>3
<1>4. Joined(b) = Joined(a) \o Joined(c) /\ Joined(a) \in Seq(Byte) /\ Joined(c) \in Seq(Byte)
  <2>1. b = a \o c
    BY <1>2, <1>3
  <2>2. Joined(b) = Joined(a) \o Joined(c) /\ Joined(a) \in Text /\ Joined(c) \in Text
    BY <1>2, <2>1, JoinedConcat
  <2> QED  BY <2>2 DEF Text
<1>5. Len(Joined(b)) = Len(Joined(a)) + Len(Joined(c)) /\ Len(Joined(c)) \in Nat
      /\ Len(Joined(a)) \in Nat
  BY <1>4
<1> QED  BY <1>5

\* When the line just read ends before the head does, head and tail leave nothing out.
LEMMA Meeting ==
  ASSUME Inputs, SingleByte, HeadFound, tail \in Seq(Text), tail = LastLines(Len(tail)),
         NEW r \in ReverseBuffer, r.offset >= -1, NEW longer \in Seq(Text),
         TailFound(r, longer), Len(longer) = Len(tail) + 1, r.out < headEnd
  PROVE  /\ head = SubSeq(AllLines, 1, Len(head)) /\ Len(head) \in 0..Len(AllLines)
         /\ Len(tail) \in 0..Len(AllLines) /\ Len(head) + Len(tail) >= Len(AllLines)
<1> DEFINE p == Unread(r) + 1
<1>1. r.from \in Nat /\ r.offset \in Int /\ LogLen \in Nat /\ Len(tail) \in Nat
  BY DEF ReverseBuffer, Inputs, Text, LogLen
<1>2. p \in 1..LogLen /\ p \in 0..LogLen /\ log[p] = "nl" /\ p + 1 = Unread(r) + 2
      /\ Unread(r) \in Int
  <2> DEFINE u == Unread(r)
  <2>1. u = r.from + r.offset + 1
    BY DEF Unread
  <2>2. u <= LogLen - 1 /\ log[u + 1] = "nl"
    BY DEF TailFound
  <2> HIDE DEF u
  <2>3. u \in Nat /\ u + 1 \in 1..LogLen /\ u + 1 \in 0..LogLen /\ (u + 1) + 1 = u + 2
    <3> DEFINE f == r.from
               o == r.offset
    <3>1. f \in Nat /\ o \in Int /\ o >= -1 /\ u = f + o + 1 /\ LogLen \in Nat /\ u <= LogLen - 1
      BY <1>1, <2>1, <2>2
    <3> HIDE DEF f, o
    <3> QED  BY ONLY <3>1
  <2> QED  BY <2>2, <2>3 DEF u
<1>3. PICK z \in Seq(Whole) :
        /\ AllLines = z \o Lines(Decoded(SubSeq(log, p + 1, LogLen)))
        /\ Joined(z) = Decoded(SubSeq(log, 1, p))
  <2> HIDE DEF p
  <2> QED  BY <1>2, LinesFrom
<1>4. AllLines = z \o longer /\ z \in Seq(Text) /\ Len(Joined(z)) = p
  <2>1. AllLines = z \o longer
    BY <1>2, <1>3 DEF TailFound
  <2>2. Len(Joined(z)) = p
    <3> HIDE DEF p
    <3> QED  BY <1>2, <1>3, SingleLength
  <2> QED  BY <2>1, <2>2, Empties
<1>5. PICK x \in Seq(Text) : AllLines = head \o x /\ head \in Seq(Text)
  BY DEF HeadFound
<1>6. /\ Len(AllLines) = Len(z) + Len(longer) /\ Len(z) \in Nat /\ Len(AllLines) \in Nat
      /\ Len(AllLines) = Len(head) + Len(x) /\ Len(head) \in Nat /\ Len(x) \in Nat
      /\ head = SubSeq(AllLines, 1, Len(head))
  <2>1. Len(z) \in Nat /\ Len(longer) \in Nat /\ Len(head) \in Nat /\ Len(x) \in Nat
    BY <1>4, <1>5
  <2>2. Len(AllLines) = Len(z) + Len(longer)
    BY <1>4, PrefixOf
  <2>3. Len(AllLines) = Len(head) + Len(x) /\ head = SubSeq(AllLines, 1, Len(head))
    BY <1>5, PrefixOf
  <2> QED  BY <2>1, <2>2, <2>3
<1>7. ~(Len(head) <= Len(z))
  <2> SUFFICES ASSUME Len(head) <= Len(z) PROVE FALSE
    OBVIOUS
  <2>1. Len(Joined(head)) <= Len(Joined(z))
    BY <1>4, <1>5, JoinedShorter
  <2>2. r.out = Unread(r) + (Len(tail) + 1) /\ headEnd = Len(Joined(head))
    BY DEF TailFound, HeadFound
  <2>3. Unread(r) + (Len(tail) + 1) >= p
    BY <1>1, <1>2
  <2>4. Len(Joined(head)) \in Nat
    <3>1. Joined(head) \in Seq(Byte)
      BY <1>5, JoinedUnfolds, Empties DEF Text
    <3> QED  BY <3>1
  <2> HIDE DEF p
  <2>5. \A a, b, c \in Int : a < b /\ b <= p /\ a = c /\ c >= p => FALSE
    BY <1>2
  <2>6. Unread(r) + (Len(tail) + 1) \in Int
    BY <1>1, <1>2
  <2> QED  BY <1>4, <2>1, <2>2, <2>3, <2>4, <2>5, <2>6
<1>8. Len(head) \in 0..Len(AllLines) /\ Len(tail) \in 0..Len(AllLines)
      /\ Len(head) + Len(tail) >= Len(AllLines)
  BY <1>1, <1>6, <1>7
<1> QED  BY <1>6, <1>8

\* A log of one byte that ends in a newline has one line.
LEMMA OneLine ==
  ASSUME Inputs, Terminated, LogLen = 1
  PROVE  Len(AllLines) = 1
<1>1. log \in Seq(Byte) /\ Len(log) = 1 /\ log[1] = "nl"
  BY DEF Inputs, Text, LogLen, Terminated, Last
<1>2. log = Append(<<>>, "nl")
  BY <1>1
<1>3. Decoded(log) = Append(<<>>, "nl") /\ <<>> \in Text /\ "nl" \in Byte
  <2>1. <<>> \in Text /\ "nl" \in Byte
    BY Empties DEF Byte
  <2> QED  BY <1>2, <2>1, DecodedUnfolds
<1>4. Split(Decoded(log)) = [lines |-> Append(<<>>, Append(<<>>, "nl")), rest |-> <<>>]
  <2>1. Split(<<>>).lines = <<>> /\ Split(<<>>).rest = <<>>
    BY SplitUnfolds
  <2> QED  BY <1>3, <2>1, SplitUnfolds
<1>5. AllLines = Append(<<>>, Append(<<>>, "nl"))
  BY <1>4 DEF AllLines, Lines
<1> QED  BY <1>5

\* Lines that are all read, or first and last lines that meet, make the output complete.
Complete(lines) ==
  \E m, k \in 0..Len(AllLines) :
    m + k >= Len(AllLines) /\ lines = SubSeq(AllLines, 1, m) \o LastLines(k)

LEMMA AllComplete ==
  ASSUME Inputs
  PROVE  Complete(AllLines)
<1>1. AllLines \in Seq(Text) /\ LastLines(0) = <<>>
  <2>1. Len(<<>>) = 0
    OBVIOUS
  <2> QED  BY <2>1, NoLastLines
<1> DEFINE n == Len(AllLines)
<1>2. n \in 0..n /\ 0 \in 0..n /\ n + 0 >= n
  BY <1>1
<1>3. AllLines = SubSeq(AllLines, 1, n) \o LastLines(0)
  <2>1. SubSeq(AllLines, 1, n) = AllLines /\ AllLines \o <<>> = AllLines
    BY <1>1, ConcatEmptySeq
  <2> QED  BY <1>1, <2>1
<1> HIDE DEF n
<1> QED  BY <1>2, <1>3 DEF Complete, n

\* Reading from the back keeps the invariant; where it ends without a tail, the two
\* readers met.
LEMMA TailDecoded == LoadInv /\ DecodeTail => LoadInv'
<1> SUFFICES ASSUME LoadInv, DecodeTail PROVE LoadInv'
  OBVIOUS
<1> DEFINE d == Reversed(rev)
           skipped == rev.first /\ d.line = <<"nl">>
           r == [d.rev EXCEPT !.first = @ /\ ~skipped]
           longer == <<d.line>> \o tail
           enough == Len(longer) >= limit.lines \/ LogLen - d.rev.out > limit.bytes
<1>1. /\ pc = "tail" /\ ~WantsInput(rev) /\ rev' = r /\ dec' = dec /\ headEnd' = headEnd
      /\ log' = log /\ next' = next /\ limit' = limit
      /\ skipped => /\ pc' = IF d.rev.out > 0 THEN "tail" ELSE "done"
                    /\ head' = head /\ tail' = tail
      /\ ~skipped /\ Linked(d.rev.out) => pc' = "done" /\ head' = head \o tail /\ tail' = <<>>
      /\ ~skipped /\ ~Linked(d.rev.out) =>
           /\ tail' = longer /\ head' = head
           /\ pc' = IF enough \/ d.rev.out <= 0 THEN "done" ELSE "tail"
  BY DEF DecodeTail, input
<1>2. Inputs /\ HeadInv /\ HeadFound /\ TailRead /\ TailIsSuffix
  BY <1>1 DEF LoadInv, HeadInv
<1>3. /\ r \in ReverseBuffer /\ r.from <= LogLen /\ r.offset >= -1
      /\ longer \in Seq(Text) /\ longer # <<>> /\ r.out = d.rev.out
      /\ Terminated =>
           /\ ~r.first /\ (skipped <=> rev.first)
           /\ skipped => TailFound(r, tail) /\ r.out = LogLen - 1
           /\ ~skipped => TailFound(r, longer) /\ Unread(r) < Unread(rev)
  BY <1>1, <1>2, TailStep
<1>4. tail \in Seq(Text) /\ log # <<>> /\ Len(longer) = Len(tail) + 1
      /\ LogLen \in Nat /\ (log # <<>> => LogLen # 0)
  <2>1. tail \in Seq(Text) /\ log # <<>>
    BY <1>2 DEF TailRead
  <2>2. LogLen \in Nat /\ (log # <<>> => LogLen # 0)
    BY <1>2 DEF Inputs, Text, LogLen
  <2> DEFINE line == d.line
  <2> HIDE DEF line
  <2>3. Len(<<line>> \o tail) = Len(tail) + 1
    BY <2>1
  <2> QED  BY <2>1, <2>2, <2>3 DEF line
<1> HIDE DEF d, r, longer, enough
<1>5. HeadInv'
  <2>1. DecodeTail
    OBVIOUS
  <2> QED  BY <1>2, <2>1, HeadNext DEF Next
<1>6. /\ LogLen' = LogLen /\ AllLines' = AllLines /\ (Terminated' <=> Terminated)
      /\ (SingleByte' <=> SingleByte) /\ Inputs' /\ \A k : LastLines(k)' = LastLines(k)
  BY <1>1, <1>2 DEF LogLen, AllLines, Terminated, SingleByte, Inputs, LastLines
<1>7. \/ skipped /\ tail' = tail
      \/ ~skipped /\ tail' = longer
      \/ tail' = <<>> /\ pc' = "done"
  <2> HIDE DEF skipped
  <2> QED  BY <1>1
<1>8. pc' = "tail" => TailRead'
  <2> SUFFICES ASSUME pc' = "tail" PROVE TailRead'
    OBVIOUS
  <2>1. (skipped /\ tail' = tail) \/ (~skipped /\ tail' = longer)
    <3> HIDE DEF skipped
    <3> QED  BY <1>7
  <2>2. tail' \in Seq(Text)
    <3> HIDE DEF skipped
    <3> QED  BY <1>3, <1>4, <2>1
  <2>3. Terminated => ~r.first /\ TailFound(r, tail')
    <3> HIDE DEF skipped
    <3> QED  BY <1>3, <2>1
  <2>4. Terminated => TailFound(rev, tail)'
    <3> SUFFICES ASSUME Terminated PROVE TailFound(rev, tail)'
      OBVIOUS
    <3> QED  BY <1>1, <1>6, <2>3 DEF TailFound, Unread
  <2>5. log' # <<>> /\ r.first = rev'.first
    BY <1>1, <1>4
  <2> QED  BY <1>1, <1>3, <1>4, <1>6, <2>2, <2>3, <2>4, <2>5 DEF TailRead
<1>9. TailIsSuffix'
  <2> SUFFICES ASSUME Terminated PROVE tail' = LastLines(Len(tail'))
    BY <1>6 DEF TailIsSuffix
  <2>1. CASE skipped /\ tail' = tail
    BY <1>2, <2>1 DEF TailIsSuffix
  <2>2. CASE ~skipped /\ tail' = longer
    <3>1. TailFound(r, longer)
      BY <1>3, <2>2
    <3> QED  BY <1>2, <1>3, <2>2, <3>1, FoundIsLast
  <2>3. CASE tail' = <<>>
    BY <1>2, <2>3, NoLastLines
  <2> HIDE DEF skipped
  <2> QED  BY <1>7, <2>1, <2>2, <2>3
<1>10. CompleteIfNoTail'
  <2> SUFFICES ASSUME pc' = "done", tail' = <<>>, Terminated, SingleByte PROVE Complete(head')
    BY <1>6 DEF CompleteIfNoTail, Complete
  <2>1. CASE skipped
    <3>1. r.out = LogLen - 1 /\ ~(r.out > 0) /\ head' = head
      <4>1. pc' = IF r.out > 0 THEN "tail" ELSE "done"
        BY <1>1, <1>3, <2>1
      <4> QED  BY <1>1, <1>3, <2>1, <4>1
    <3>2. LogLen = 1
      BY <1>4, <3>1
    <3>3. Len(AllLines) = 1
      BY <1>2, <3>2, OneLine
    <3>4. PICK x \in Seq(Text) : AllLines = head \o x /\ head \in Seq(Text)
                                 /\ limit.lines <= Len(head) /\ limit.lines \in Nat \ {0}
      BY <1>2 DEF HeadFound, Inputs
    <3>5. Len(AllLines) = Len(head) + Len(x) /\ Len(head) \in Nat /\ Len(x) \in Nat
      BY <3>4
    <3>6. Len(x) = 0
      BY <3>3, <3>4, <3>5
    <3>7. head = AllLines
      <4>1. x = <<>>
        BY <3>6
      <4> QED  BY <3>4, <4>1, ConcatEmptySeq
    <3> QED  BY <1>2, <3>1, <3>7, AllComplete
  <2>2. CASE ~skipped
    <3>1. Linked(d.rev.out) /\ head' = head \o tail
      <4> HIDE DEF skipped
      <4> QED  BY <1>1, <1>3, <2>2
    <3>2. r.out < headEnd /\ TailFound(r, longer)
      BY <1>3, <2>2, <3>1 DEF Linked
    <3>3. tail = LastLines(Len(tail))
      BY <1>2 DEF TailIsSuffix
    <3>4. /\ head = SubSeq(AllLines, 1, Len(head)) /\ Len(head) \in 0..Len(AllLines)
          /\ Len(tail) \in 0..Len(AllLines) /\ Len(head) + Len(tail) >= Len(AllLines)
      BY <1>2, <1>3, <1>4, <3>2, <3>3, Meeting
    <3>5. head \o tail = SubSeq(AllLines, 1, Len(head)) \o LastLines(Len(tail))
      BY <3>3, <3>4
    <3> QED  BY <3>1, <3>4, <3>5 DEF Complete
  <2> QED  BY <2>1, <2>2
<1> QED  BY <1>5, <1>8, <1>9, <1>10 DEF LoadInv

\* Fetching a chunk from the back moves the start of the buffer, not what is unread.
LEMMA TailFetched == LoadInv /\ FetchTail => LoadInv'
<1> SUFFICES ASSUME LoadInv, FetchTail PROVE LoadInv'
  OBVIOUS
<1> DEFINE end == rev.from - 1
           start == IF end - limit.chunk > 0 THEN end - limit.chunk ELSE 0
<1>1. /\ pc = "tail" /\ log' = log /\ next' = next /\ limit' = limit /\ dec' = dec /\ head' = head
      /\ headEnd' = headEnd /\ tail' = tail
      /\ \/ pc' = "failed" /\ rev' = rev
         \/ pc' = "tail" /\ rev.from # 0
            /\ rev' = [rev EXCEPT !.from = start, !.offset = @ + rev.from - start]
  BY DEF FetchTail, Refused, input
<1>2. Inputs /\ HeadInv /\ HeadFound /\ TailRead /\ TailIsSuffix
  BY <1>1 DEF LoadInv, HeadInv
<1>3. HeadInv'
  BY <1>2, HeadNext DEF Next
<1>4. /\ LogLen' = LogLen /\ AllLines' = AllLines /\ (Terminated' <=> Terminated)
      /\ (SingleByte' <=> SingleByte) /\ Inputs' /\ \A k : LastLines(k)' = LastLines(k)
  BY <1>1, <1>2 DEF LogLen, AllLines, Terminated, SingleByte, Inputs, LastLines
<1>5. TailIsSuffix' /\ CompleteIfNoTail'
  BY <1>1, <1>2, <1>4 DEF TailIsSuffix, CompleteIfNoTail
<1>6. pc' = "tail" => TailRead'
  <2> SUFFICES ASSUME pc' = "tail" PROVE TailRead'
    OBVIOUS
  <2>1. /\ rev.from \in Nat /\ rev.offset \in Int /\ rev.out \in Int /\ rev.first \in BOOLEAN
        /\ rev = [from |-> rev.from, offset |-> rev.offset, out |-> rev.out, first |-> rev.first]
        /\ limit.chunk \in Nat \ {0} /\ LogLen \in Nat /\ rev.from <= LogLen /\ rev.offset >= -1
        /\ rev.from # 0
    BY <1>1, <1>2 DEF TailRead, ReverseBuffer, Inputs, Text, LogLen
  <2>2. start \in Nat /\ start < rev.from
    BY <2>1
  <2>3. rev' = [from |-> start, offset |-> rev.offset + rev.from - start, out |-> rev.out,
                first |-> rev.first]
    <3> HIDE DEF start
    <3> QED  BY <1>1, <2>1
  <2> HIDE DEF start
  <2>4. /\ rev' \in ReverseBuffer /\ rev'.from <= LogLen /\ rev'.offset >= -1
        /\ rev'.first = rev.first /\ rev'.out = rev.out
        /\ rev'.from + rev'.offset + 1 = rev.from + rev.offset + 1
    BY <2>1, <2>2, <2>3 DEF ReverseBuffer
  <2>5. Unread(rev)' = Unread(rev)
    BY <2>4 DEF Unread
  <2> QED  BY <1>1, <1>2, <1>4, <2>4, <2>5 DEF TailRead, TailFound
<1> QED  BY <1>3, <1>5, <1>6 DEF LoadInv

LEMMA LoadStart == Init => LoadInv
<1> SUFFICES ASSUME Init PROVE LoadInv
  OBVIOUS
<1>1. HeadInv /\ Inputs
  BY HeadStart DEF HeadInv
<1>2. tail = <<>> /\ pc = IF log = <<>> THEN "done" ELSE "head"
  BY DEF Init
<1>3. TailIsSuffix
  BY <1>1, <1>2, NoLastLines DEF TailIsSuffix
<1>4. pc # "tail" /\ (pc = "done" => ~Terminated)
  BY <1>2 DEF Terminated
<1> QED  BY <1>1, <1>3, <1>4 DEF LoadInv, CompleteIfNoTail

\* When the head is read, nothing is read from the back; when the whole output was
\* read as the head, it is complete.
LEMMA HeadDecoded == LoadInv /\ DecodeHead => LoadInv'
<1> SUFFICES ASSUME LoadInv, DecodeHead PROVE LoadInv'
  OBVIOUS
<1>1. pc = "head" /\ log' = log /\ next' = next /\ limit' = limit
  BY DEF DecodeHead, input
<1>2. /\ HeadInv' /\ rev' = rev /\ tail' = tail
      /\ pc' = "done" /\ headEnd' <= limit.bytes => head' = AllLines
  <2>1. HeadInv
    BY DEF LoadInv
  <2> QED  BY <2>1, HeadStep
<1>3. Inputs /\ HeadRead
  BY <1>1 DEF LoadInv, HeadInv
<1>4. /\ LogLen' = LogLen /\ AllLines' = AllLines /\ (Terminated' <=> Terminated)
      /\ (SingleByte' <=> SingleByte) /\ Inputs' /\ \A k : LastLines(k)' = LastLines(k)
  BY <1>1, <1>3 DEF LogLen, AllLines, Terminated, SingleByte, Inputs, LastLines
<1>5. /\ rev' = [from |-> LogLen, offset |-> 0, out |-> LogLen, first |-> TRUE]
      /\ tail' = <<>> /\ log' # <<>> /\ LogLen \in Nat
  BY <1>1, <1>2, <1>3 DEF HeadRead, Inputs, Text, LogLen
<1>6. TailRead'
  <2>1. /\ rev' \in ReverseBuffer /\ rev'.from <= LogLen /\ rev'.offset >= -1 /\ rev'.first
        /\ rev'.from + rev'.offset + 1 = LogLen + 1 /\ rev'.out = LogLen
    BY <1>5 DEF ReverseBuffer
  <2>2. Unread(rev)' = LogLen + 1
    BY <2>1 DEF Unread
  <2> QED  BY <1>4, <1>5, <2>1, <2>2, Empties DEF TailRead
<1>7. TailIsSuffix'
  <2>1. tail' = LastLines(Len(tail'))
    BY <1>3, <1>5, NoLastLines
  <2> QED  BY <1>4, <2>1 DEF TailIsSuffix
<1>8. CompleteIfNoTail'
  <2>1. ASSUME pc' = "done", headEnd' <= limit.bytes PROVE Complete(head')
    <3>1. head' = AllLines
      BY <1>2, <2>1
    <3> QED  BY <1>3, <3>1, AllComplete
  <2> QED  BY <1>1, <1>4, <2>1 DEF CompleteIfNoTail, Complete
<1> QED  BY <1>2, <1>6, <1>7, <1>8 DEF LoadInv

LEMMA LoadNext == LoadInv /\ [Next]_vars => LoadInv'
<1> SUFFICES ASSUME LoadInv, [Next]_vars PROVE LoadInv'
  OBVIOUS
<1>1. CASE FetchHead \/ FetchFails \/ UNCHANGED vars
  <2>1. /\ log' = log /\ next' = next /\ limit' = limit /\ head' = head /\ tail' = tail
        /\ rev' = rev /\ headEnd' = headEnd /\ pc' \in {pc, "failed"}
    BY <1>1 DEF FetchHead, FetchFails, vars, input
  <2>2. HeadInv'
    BY HeadNext DEF LoadInv
  <2>3. /\ LogLen' = LogLen /\ AllLines' = AllLines /\ (Terminated' <=> Terminated)
        /\ (SingleByte' <=> SingleByte) /\ \A k : LastLines(k)' = LastLines(k)
    BY <2>1 DEF LogLen, AllLines, Terminated, SingleByte, LastLines
  <2>4. TailIsSuffix' /\ CompleteIfNoTail'
    BY <2>1, <2>3 DEF LoadInv, TailIsSuffix, CompleteIfNoTail
  <2>5. TailRead' <=> TailRead
    BY <2>1, <2>3 DEF TailRead, TailFound, Unread
  <2> QED  BY <2>1, <2>2, <2>4, <2>5 DEF LoadInv
<1>2. CASE DecodeHead
  BY <1>2, HeadDecoded
<1>3. CASE FetchTail
  BY <1>3, TailFetched
<1>4. CASE DecodeTail
  BY <1>4, TailDecoded
<1> QED  BY <1>1, <1>2, <1>3, <1>4 DEF Next

\* The lines read from the back are the last lines of an output that ends in a
\* newline: ReverseBuffer.decode and headAndTailLines leave no gap and repeat nothing,
\* whatever the chunks, the limits and the characters.
THEOREM TailRight == Spec => []TailIsSuffix
<1>1. LoadInv => TailIsSuffix
  BY DEF LoadInv
<1> QED  BY <1>1, LoadStart, LoadNext, PTL DEF Spec

\* No line is missing where the page shows no tail: that headAndTailLines compares
\* positions which count differently never makes it take two readers for meeting
\* that did not, within the bounds that CompleteIfNoTail names.
THEOREM ReadersMeet == Spec => []CompleteIfNoTail
<1>1. LoadInv => CompleteIfNoTail
  BY DEF LoadInv
<1> QED  BY <1>1, LoadStart, LoadNext, PTL DEF Spec

-----------------------------------------------------------------------------
(* The lines of a range                                                     *)

LEMMA NewlinesUnfolds ==
  ASSUME NEW t \in Text
  PROVE  /\ Newlines(t, 0) = 0
         /\ \A k \in Nat : /\ Newlines(t, k) \in Nat
                           /\ Newlines(t, k + 1) = IF t[k + 1] = "nl" THEN Newlines(t, k) + 1
                                                   ELSE Newlines(t, k)
<1> DEFINE N(k) == {i \in 1..k : t[i] = "nl"}
<1>1. Newlines(t, 0) = 0
  <2>1. N(0) = {}
    OBVIOUS
  <2> QED  BY <2>1, FS_EmptySet DEF Newlines
<1>2. ASSUME NEW k \in Nat
      PROVE  /\ Newlines(t, k) \in Nat
             /\ Newlines(t, k + 1) = IF t[k + 1] = "nl" THEN Newlines(t, k) + 1
                                     ELSE Newlines(t, k)
  <2>1. IsFiniteSet(N(k))
    <3>1. IsFiniteSet(1..k) /\ N(k) \subseteq 1..k
      BY FS_Interval
    <3> QED  BY <3>1, FS_Subset
  <2>2. Cardinality(N(k)) \in Nat
    BY <2>1, FS_CardinalityType
  <2>3. N(k + 1) = IF t[k + 1] = "nl" THEN N(k) \cup {k + 1} ELSE N(k)
    <3>1. \A i : i \in 1..(k + 1) <=> i \in 1..k \/ i = k + 1
      OBVIOUS
    <3> QED  BY <3>1
  <2>4. k + 1 \notin N(k)
    OBVIOUS
  <2>5. Newlines(t, k) = Cardinality(N(k)) /\ Newlines(t, k + 1) = Cardinality(N(k + 1))
    BY DEF Newlines
  <2> HIDE DEF N
  <2>6. Cardinality(N(k) \cup {k + 1}) = Cardinality(N(k)) + 1
    BY <2>1, <2>4, FS_AddElement
  <2> QED  BY <2>2, <2>3, <2>5, <2>6
<1> QED  BY <1>1, <1>2

LEMMA NewlinesGrow ==
  ASSUME NEW t \in Text, NEW j \in Nat, NEW k \in Nat, j <= k
  PROVE  Newlines(t, j) <= Newlines(t, k)
<1> DEFINE T == {n \in Nat : Newlines(t, j) <= Newlines(t, j + n)}
<1>1. \A n \in Nat : Newlines(t, j + n) \in Nat
  BY NewlinesUnfolds
<1>2. 0 \in T
  <2>1. j + 0 = j
    OBVIOUS
  <2> QED  BY <1>1, <2>1
<1>3. ASSUME NEW n \in Nat, n \in T PROVE n + 1 \in T
  <2>1. j + n \in Nat /\ j + (n + 1) = (j + n) + 1 /\ n + 1 \in Nat
    OBVIOUS
  <2>2. Newlines(t, (j + n) + 1) \in {Newlines(t, j + n), Newlines(t, j + n) + 1}
    BY <2>1, NewlinesUnfolds
  <2>3. Newlines(t, j) \in Nat /\ Newlines(t, j + n) \in Nat
    BY NewlinesUnfolds
  <2> QED  BY <1>3, <2>1, <2>2, <2>3
<1>4. Nat \subseteq T
  <2> HIDE DEF T
  <2> QED  BY <1>2, <1>3, NatInduct
<1>5. k - j \in Nat /\ j + (k - j) = k
  OBVIOUS
<1> QED  BY <1>4, <1>5

\* The complete lines of the first k bytes are as many as the newlines among them.
LEMMA SplitCounts ==
  ASSUME NEW t \in Text, NEW k \in 0..Len(t)
  PROVE  Len(Split(SubSeq(t, 1, k)).lines) = Newlines(t, k)
<1>1. t \in Seq(Byte) /\ Len(t) \in Nat
  BY DEF Text
<1> DEFINE T == {n \in Nat : n <= Len(t) => Len(Split(SubSeq(t, 1, n)).lines) = Newlines(t, n)}
<1>2. 0 \in T
  <2>1. SubSeq(t, 1, 0) = <<>>
    OBVIOUS
  <2>2. Split(<<>>).lines = <<>> /\ Len(<<>>) = 0
    BY SplitUnfolds
  <2> QED  BY <2>1, <2>2, NewlinesUnfolds
<1>3. ASSUME NEW n \in Nat, n \in T PROVE n + 1 \in T
  <2> SUFFICES ASSUME n + 1 <= Len(t)
               PROVE  Len(Split(SubSeq(t, 1, n + 1)).lines) = Newlines(t, n + 1)
    OBVIOUS
  <2> DEFINE a == SubSeq(t, 1, n)
             c == t[n + 1]
  <2>1. n \in 0..Len(t) /\ n + 1 \in 1..Len(t) /\ n <= Len(t) /\ c \in Byte
    BY <1>1
  <2>2. a \in Seq(Byte)
    BY <1>1, <2>1, Adjacent
  <2>3. SubSeq(t, 1, n + 1) = Append(a, c)
    BY <1>1, <2>1, OneMore
  <2>4. Len(Split(a).lines) = Newlines(t, n)
    BY <1>3, <2>1
  <2>5. /\ Split(a).lines \in Seq(Whole)
        /\ Split(Append(a, c)).lines = IF c = "nl" THEN Append(Split(a).lines, Append(Split(a).rest, c))
                                       ELSE Split(a).lines
        /\ c = "nl" => Append(Split(a).rest, c) \in Whole
    <3> HIDE DEF a, c
    <3>1. a \in Text
      BY <2>2 DEF Text
    <3>2. Split(a).rest \in Seq(Plain)
      BY <2>1, <3>1, SplitUnfolds
    <3>3. Split(a).lines \in Seq(Whole)
      BY <2>1, <3>1, SplitUnfolds
    <3>4. Split(Append(a, c)) =
            IF c = "nl"
            THEN [lines |-> Append(Split(a).lines, Append(Split(a).rest, c)), rest |-> <<>>]
            ELSE [lines |-> Split(a).lines, rest |-> Append(Split(a).rest, c)]
      BY <2>1, <3>1, SplitUnfolds
    <3>5. c = "nl" => Append(Split(a).rest, c) \in Whole
      BY <3>2 DEF Whole
    <3>6. Split(Append(a, c)).lines = IF c = "nl"
                                      THEN Append(Split(a).lines, Append(Split(a).rest, c))
                                      ELSE Split(a).lines
      BY <3>4
    <3> QED  BY <3>3, <3>5, <3>6
  <2>6. Newlines(t, n + 1) = IF c = "nl" THEN Newlines(t, n) + 1 ELSE Newlines(t, n)
    BY NewlinesUnfolds
  <2> HIDE DEF a, c
  <2>7. Len(Split(Append(a, c)).lines) = IF c = "nl" THEN Len(Split(a).lines) + 1
                                         ELSE Len(Split(a).lines)
    BY <2>5
  <2> QED  BY <2>3, <2>4, <2>6, <2>7
<1>4. Nat \subseteq T
  <2> HIDE DEF T
  <2> QED  BY <1>2, <1>3, NatInduct
<1> QED  BY <1>1, <1>4

LEMMA FirstOf ==
  ASSUME NEW ls \in Seq(Text), ls # <<>>
  PROVE  ls[1] \in Text /\ \E z \in Text : Joined(ls) = ls[1] \o z
<1> DEFINE w == ls[1]
           y == Tail(ls)
<1>1. w \in Text /\ y \in Seq(Text) /\ ls = <<w>> \o y
  OBVIOUS
<1> HIDE DEF w, y
<1>2. <<w>> \in Seq(Text) /\ <<w>> = Append(<<>>, w)
  BY <1>1
<1>3. Joined(<<w>>) = <<>> \o w
  BY <1>1, <1>2, JoinedUnfolds, Empties
<1>4. <<>> \o w = w
  BY <1>1, ConcatEmptySeq DEF Text
<1>5. Joined(ls) = Joined(<<w>>) \o Joined(y) /\ Joined(y) \in Text
  BY <1>1, <1>2, JoinedConcat
<1> QED  BY <1>1, <1>3, <1>4, <1>5 DEF w

\* The line that begins with text without a newline is longer than that text, if
\* anything follows.
LEMMA FirstLonger ==
  ASSUME NEW r \in Seq(Plain), NEW b \in Text, b # <<>>
  PROVE  /\ r \o b \in Text /\ Lines(r \o b) \in Seq(Text) /\ Lines(r \o b) # <<>>
         /\ Len(Lines(r \o b)[1]) > Len(r)
<1> DEFINE x == r \o b
           ks == Split(x).lines
           q == Split(x).rest
<1>1. /\ r \in Seq(Byte) /\ b \in Seq(Byte) /\ Len(r) \in Nat /\ Len(b) \in Nat \ {0}
  BY Empties DEF Text
<1>2. /\ x \in Seq(Byte) /\ Len(x) = Len(r) + Len(b)
      /\ \A i \in 1..Len(r) : x[i] = r[i]
  BY <1>1
<1> HIDE DEF x
<1>3. /\ x \in Text /\ ks \in Seq(Whole) /\ q \in Seq(Plain) /\ x = Joined(ks) \o q
      /\ Lines(x) = IF q = <<>> THEN ks ELSE Append(ks, q)
  BY <1>2, TextForm DEF Lines, Text
<1>4. Joined(Lines(x)) = x /\ Lines(x) \in Seq(Text)
  BY <1>3, JoinedLines
<1> HIDE DEF ks, q
<1>5. Lines(x) # <<>>
  <2>1. Lines(x) = <<>> => x = <<>>
    BY <1>4, JoinedUnfolds
  <2>2. Len(x) # 0
    BY <1>1, <1>2
  <2> QED  BY <2>1, <2>2
<1> DEFINE w == Lines(x)[1]
<1>6. PICK z \in Text : x = w \o z /\ w \in Text
  BY <1>4, <1>5, FirstOf
<1>7. CASE ks = <<>>
  <2>1. q # <<>> /\ Lines(x) = <<q>>
    BY <1>3, <1>5, <1>7
  <2>2. x = <<>> \o q
    BY <1>3, <1>7, JoinedUnfolds
  <2>3. w = x
    BY <1>3, <2>1, <2>2, ConcatEmptySeq
  <2>4. Len(w) > Len(r)
    <3>1. Len(r) + Len(b) > Len(r)
      BY <1>1
    <3> QED  BY <1>2, <2>3, <3>1
  <2> HIDE DEF w
  <2> QED  BY <1>3, <1>4, <1>5, <2>4 DEF x, w
<1>8. CASE ks # <<>>
  <2>1. w = ks[1] /\ w \in Whole
    <3>1. Len(ks) \in Nat \ {0} /\ 1 \in 1..Len(ks)
      BY <1>3, <1>8
    <3>2. ks[1] \in Whole /\ Append(ks, q)[1] = ks[1]
      BY <1>3, <3>1
    <3> QED  BY <1>3, <3>2
  <2> HIDE DEF w
  <2>2. PICK v \in Seq(Plain) : w = Append(v, "nl")
    BY <2>1 DEF Whole
  <2>3. /\ Len(w) \in Nat /\ Len(w) >= 1 /\ w[Len(w)] = "nl"
    <3>1. \A u \in Seq(Plain) : /\ Len(Append(u, "nl")) = Len(u) + 1 /\ Len(u) \in Nat
                                /\ Append(u, "nl")[Len(u) + 1] = "nl"
      OBVIOUS
    <3> QED  BY <2>2, <3>1
  <2>4. x[Len(w)] = "nl"
    <3>1. w \in Seq(Byte) /\ z \in Seq(Byte)
      BY <1>6 DEF Text
    <3>2. \A i \in 1..Len(w) : (w \o z)[i] = w[i]
      BY <3>1
    <3> QED  BY <1>6, <2>3, <3>2
  <2>5. ~(Len(w) <= Len(r))
    <3> SUFFICES ASSUME Len(w) <= Len(r) PROVE FALSE
      OBVIOUS
    <3>1. Len(w) \in 1..Len(r)
      BY <1>1, <2>3
    <3>2. r[Len(w)] = "nl" /\ r[Len(w)] \in Plain
      BY <1>2, <2>4, <3>1
    <3> QED  BY <3>2 DEF Plain
  <2>6. Len(w) > Len(r)
    BY <1>1, <2>3, <2>5
  <2> QED  BY <1>3, <1>4, <1>5, <2>6 DEF w, x
<1> QED  BY <1>7, <1>8

LEMMA EndsGrow ==
  ASSUME NEW t \in Text
  PROVE  /\ DOMAIN LineEnds(t) = 1..Len(Lines(t)) /\ Len(Lines(t)) \in Nat
         /\ \A i \in DOMAIN LineEnds(t) :
              /\ LineEnds(t)[i] = Len(Joined(SubSeq(Lines(t), 1, i)))
              /\ LineEnds(t)[i] \in Nat
         /\ \A i, k \in DOMAIN LineEnds(t) : i <= k => LineEnds(t)[i] <= LineEnds(t)[k]
<1> DEFINE lines == Lines(t)
           End(i) == Len(Joined(SubSeq(lines, 1, i)))
<1>1. lines \in Seq(Text)
  BY JoinedLines
<1>2. LineEnds(t) = [i \in DOMAIN lines |-> End(i)]
  BY DEF LineEnds
<1> HIDE DEF lines
<1>3. DOMAIN lines = 1..Len(lines) /\ Len(lines) \in Nat
  BY <1>1
<1>4. ASSUME NEW i \in 1..Len(lines), NEW k \in 1..Len(lines), i <= k
      PROVE  End(i) \in Nat /\ End(k) \in Nat /\ End(i) <= End(k)
  <2> DEFINE a == SubSeq(lines, 1, i)
             b == SubSeq(lines, i + 1, k)
  <2>1. i \in 0..Len(lines) /\ k \in i..Len(lines)
    BY <1>3, <1>4
  <2>2. a \o b = SubSeq(lines, 1, k) /\ a \in Seq(Text) /\ b \in Seq(Text)
    <3>1. a \o b = SubSeq(lines, 1, k) /\ a \in Seq(Text)
      BY <1>1, <2>1, Adjacent
    <3>2. b \in Seq(Text)
      BY <1>1, <2>1, Slices
    <3> QED  BY <3>1, <3>2
  <2> HIDE DEF a, b
  <2>3. Joined(a \o b) = Joined(a) \o Joined(b) /\ Joined(a) \in Text /\ Joined(b) \in Text
    BY <2>2, JoinedConcat
  <2>4. Len(Joined(a) \o Joined(b)) = Len(Joined(a)) + Len(Joined(b))
    BY <2>3 DEF Text
  <2>5. Len(Joined(a)) \in Nat /\ Len(Joined(b)) \in Nat
    BY <2>3 DEF Text
  <2>6. End(i) = Len(Joined(a)) /\ End(k) = Len(Joined(a)) + Len(Joined(b))
    BY <2>2, <2>3, <2>4 DEF a
  <2> HIDE DEF End
  <2> QED  BY <2>5, <2>6
<1> HIDE DEF End
<1>5. \A i \in 1..Len(lines) : i <= i
  OBVIOUS
<1>6. \A i \in 1..Len(lines) : End(i) \in Nat
  BY <1>4, <1>5
<1>7. DOMAIN LineEnds(t) = 1..Len(lines) /\ \A i \in 1..Len(lines) : LineEnds(t)[i] = End(i)
  BY <1>2, <1>3
<1> QED  BY <1>3, <1>4, <1>6, <1>7 DEF End, lines

\* The line of a byte is the number of newlines before it, and one.
LEMMA LineHolds ==
  ASSUME NEW t \in Text, NEW p \in 1..Len(t), NEW n, n = Newlines(t, p - 1)
  PROVE  /\ n \in Nat /\ n + 1 \in DOMAIN LineEnds(t) /\ p <= LineEnds(t)[n + 1]
         /\ n = 0 \/ (n \in DOMAIN LineEnds(t) /\ p > LineEnds(t)[n])
<1> DEFINE a == SubSeq(t, 1, p - 1)
           b == SubSeq(t, (p - 1) + 1, Len(t))
           ls == Split(a).lines
           r == Split(a).rest
<1>1. /\ t \in Seq(Byte) /\ Len(t) \in Nat /\ p - 1 \in 0..Len(t) /\ Len(t) \in (p - 1)..Len(t)
      /\ p \in Nat /\ p >= 1 /\ p <= Len(t)
  BY DEF Text
<1>2. a \o b = t /\ a \in Seq(Byte) /\ b \in Seq(Byte) /\ Len(a) = p - 1 /\ b # <<>>
  <2>1. a \o b = SubSeq(t, 1, Len(t)) /\ a \in Seq(Byte)
    BY <1>1, Adjacent
  <2>2. SubSeq(t, 1, Len(t)) = t
    BY <1>1
  <2>3. b \in Seq(Byte) /\ Len(b) = Len(t) - (p - 1)
    BY <1>1, Slices
  <2>4. 0 \in 0..Len(t) /\ p - 1 \in 0..Len(t) /\ (p - 1) - 0 = p - 1 /\ 0 + 1 = 1
    BY <1>1
  <2>5. Len(SubSeq(t, 0 + 1, p - 1)) = (p - 1) - 0
    BY <1>1, <2>4, Slices
  <2> HIDE DEF b
  <2>6. b # <<>>
    BY <1>1, <2>3
  <2> QED  BY <2>1, <2>2, <2>3, <2>4, <2>5, <2>6
<1>3. Len(ls) = n /\ n \in Nat
  <2>1. Len(ls) = Newlines(t, p - 1)
    BY <1>1, SplitCounts
  <2>2. Newlines(t, p - 1) \in Nat
    BY <1>1, NewlinesUnfolds
  <2> QED  BY <2>1, <2>2
<1> HIDE DEF a, b
<1>4. ls \in Seq(Whole) /\ r \in Seq(Plain) /\ a = Joined(ls) \o r
  BY <1>2, TextForm DEF Text
<1> HIDE DEF ls, r
<1> DEFINE f == Lines(r \o b)
           j == Len(Joined(ls))
<1>5. /\ r \o b \in Text /\ f \in Seq(Text) /\ f # <<>> /\ Len(f[1]) > Len(r) /\ f[1] \in Text
      /\ Len(f[1]) \in Nat /\ Len(r) \in Nat
  <2>1. r \o b \in Text /\ f \in Seq(Text) /\ f # <<>> /\ Len(f[1]) > Len(r)
    BY <1>2, <1>4, FirstLonger DEF Text
  <2> HIDE DEF f
  <2>2. f[1] \in Text
    BY <2>1
  <2> QED  BY <1>4, <2>1, <2>2 DEF Text
<1>6. t = Joined(ls) \o (r \o b)
  <2>1. Joined(ls) \in Seq(Byte) /\ r \in Seq(Byte) /\ b \in Seq(Byte)
    BY <1>2, <1>4, Empties, JoinedConcat, JoinedUnfolds DEF Text
  <2>2. \A u, v, w \in Seq(Byte) : (u \o v) \o w = u \o (v \o w)
    BY ConcatAssociative
  <2> QED  BY <1>2, <1>4, <2>1, <2>2
<1>7. Lines(t) = ls \o f /\ ls \in Seq(Text)
  BY <1>4, <1>5, <1>6, LinesAfter, Empties
<1>8. /\ j \in Nat /\ j + Len(r) = p - 1
  <2>1. Joined(ls) \in Seq(Byte) /\ r \in Seq(Byte)
    BY <1>4, Empties, JoinedConcat, JoinedUnfolds DEF Text
  <2>2. Len(Joined(ls) \o r) = Len(Joined(ls)) + Len(r)
    BY <2>1
  <2> QED  BY <1>2, <1>4, <2>1, <2>2
<1> HIDE DEF f
<1>9. /\ Len(Lines(t)) = n + Len(f) /\ Len(f) \in Nat \ {0} /\ Lines(t)[n + 1] = f[1]
      /\ SubSeq(Lines(t), 1, n) = ls
  <2>1. Len(f) \in Nat \ {0}
    BY <1>5
  <2>2. ls = SubSeq(ls \o f, 1, Len(ls)) /\ Len(ls \o f) = Len(ls) + Len(f)
    BY <1>5, <1>7, PrefixOf
  <2>3. \A i \in 1..Len(f) : (ls \o f)[Len(ls) + i] = f[i]
    BY <1>5, <1>7
  <2>4. 1 \in 1..Len(f)
    BY <2>1
  <2> QED  BY <1>3, <1>7, <2>1, <2>2, <2>3, <2>4
<1>10. /\ n + 1 \in DOMAIN LineEnds(t) /\ (n # 0 => n \in DOMAIN LineEnds(t))
  <2>1. DOMAIN LineEnds(t) = 1..Len(Lines(t))
    BY EndsGrow
  <2> QED  BY <1>3, <1>9, <2>1
<1>11. LineEnds(t)[n + 1] = j + Len(f[1])
  <2>1. Lines(t) \in Seq(Text)
    BY JoinedLines
  <2>2. n + 1 <= Len(Lines(t))
    BY <1>3, <1>9
  <2>3. SubSeq(Lines(t), 1, n + 1) = Append(ls, f[1])
    <3>1. SubSeq(Lines(t), 1, n + 1) = Append(SubSeq(Lines(t), 1, n), Lines(t)[n + 1])
      BY <1>3, <2>1, <2>2, OneMore
    <3> QED  BY <1>9, <3>1
  <2>4. Joined(Append(ls, f[1])) = Joined(ls) \o f[1] /\ Joined(ls) \in Text
    BY <1>5, <1>7, JoinedUnfolds
  <2>5. Len(Joined(ls) \o f[1]) = Len(Joined(ls)) + Len(f[1])
    BY <1>5, <2>4 DEF Text
  <2> QED  BY <1>10, <2>3, <2>4, <2>5, EndsGrow
<1>12. n # 0 => LineEnds(t)[n] = j
  BY <1>9, <1>10, EndsGrow
<1> HIDE DEF j
<1>13. p <= j + Len(f[1]) /\ p > j
  BY <1>1, <1>5, <1>8
<1> QED  BY <1>3, <1>10, <1>11, <1>12, <1>13

\* There is only one such line.
LEMMA LineIs ==
  ASSUME NEW t \in Text, NEW p \in 1..Len(t)
  PROVE  (CHOOSE i \in DOMAIN LineEnds(t) :
            p <= LineEnds(t)[i] /\ (i = 1 \/ p > LineEnds(t)[i - 1])) = 1 + Newlines(t, p - 1)
<1> DEFINE n == Newlines(t, p - 1)
           ends == LineEnds(t)
           At(i) == p <= ends[i] /\ (i = 1 \/ p > ends[i - 1])
<1>1. /\ n \in Nat /\ n + 1 \in DOMAIN ends /\ p <= ends[n + 1]
      /\ n = 0 \/ (n \in DOMAIN ends /\ p > ends[n])
  BY LineHolds
<1>2. /\ DOMAIN ends = 1..Len(Lines(t)) /\ Len(Lines(t)) \in Nat
      /\ \A i \in DOMAIN ends : ends[i] \in Nat
      /\ \A i, k \in DOMAIN ends : i <= k => ends[i] <= ends[k]
  BY EndsGrow
<1>3. p \in Nat /\ Len(t) \in Nat
  BY DEF Text
<1> HIDE DEF n, ends
<1>4. n + 1 \in DOMAIN ends /\ At(n + 1)
  <2>1. (n + 1) - 1 = n
    BY <1>1
  <2> QED  BY <1>1, <2>1
<1>5. ASSUME NEW i \in DOMAIN ends, NEW k \in DOMAIN ends, At(i), At(k) PROVE ~(i < k)
  <2> SUFFICES ASSUME i < k PROVE FALSE
    OBVIOUS
  <2>1. k - 1 \in DOMAIN ends /\ i <= k - 1 /\ k # 1
    BY <1>2, <1>5
  <2>2. p > ends[k - 1] /\ p <= ends[i]
    BY <1>5, <2>1
  <2>3. ends[i] <= ends[k - 1] /\ ends[i] \in Nat /\ ends[k - 1] \in Nat
    BY <1>2, <2>1
  <2> QED  BY <1>3, <2>2, <2>3
<1>6. \A i \in DOMAIN ends : i \in Nat
  BY <1>2
<1> DEFINE c == CHOOSE i \in DOMAIN ends : At(i)
<1>7. c \in DOMAIN ends /\ At(c)
  BY <1>4
<1> HIDE DEF c, At
<1>8. ~(c < n + 1) /\ ~(n + 1 < c) /\ c \in Nat /\ n + 1 \in Nat
  BY <1>4, <1>5, <1>6, <1>7
<1>9. c = 1 + n
  BY <1>1, <1>8
<1> QED  BY <1>9 DEF c, At, ends, n

LEMMA RangeLines ==
  ASSUME Inputs, NEW begin \in 0..LogLen - 1, NEW end \in begin + 1..LogLen
  PROVE  /\ FirstLine(log, begin, end) = 1 + Newlines(log, begin)
         /\ LastLine(log, begin, end) = 1 + Newlines(log, end - 1)
<1>1. /\ log \in Text /\ LogLen = Len(log) /\ LogLen \in Nat /\ DOMAIN log = 1..LogLen
      /\ begin \in Nat /\ end \in Nat /\ end - 1 \in Nat /\ begin <= end - 1
      /\ begin < end /\ end <= LogLen /\ (end - 1) + 1 = end /\ end \in DOMAIN log
  BY DEF Inputs, Text, LogLen
<1>2. Least(end, Len(log)) = end /\ begin < Least(end, Len(log))
  BY <1>1 DEF Least
<1> DEFINE b == Newlines(log, begin)
           e == Newlines(log, end - 1)
<1>3. b \in Nat /\ e \in Nat /\ b <= e
  BY <1>1, NewlinesUnfolds, NewlinesGrow
<1>4. Newlines(log, end) = IF log[end] = "nl" THEN e + 1 ELSE e
  <2>1. Newlines(log, (end - 1) + 1) = IF log[(end - 1) + 1] = "nl" THEN e + 1 ELSE e
    BY <1>1, NewlinesUnfolds
  <2> QED  BY <1>1, <2>1
<1>5. /\ FirstLine(log, begin, end) = 1 + b
      /\ LastLine(log, begin, end)
           = IF log[end] = "nl"
             THEN IF 1 + b > (1 + Newlines(log, end)) - 1 THEN 1 + b
                  ELSE (1 + Newlines(log, end)) - 1
             ELSE 1 + Newlines(log, end)
  <2> HIDE DEF b
  <2>1. \A x : end \in DOMAIN log /\ x <=> x
    BY <1>1
  <2> QED  BY <1>1, <1>2, <2>1 DEF FirstLine, LastLine, b
<1> HIDE DEF b, e
<1>6. CASE log[end] = "nl"
  <2>1. Newlines(log, end) = e + 1
    BY <1>4, <1>6
  <2>2. (1 + (e + 1)) - 1 = 1 + e /\ ~(1 + b > 1 + e)
    BY <1>3
  <2> QED  BY <1>5, <1>6, <2>1, <2>2 DEF b, e
<1>7. CASE log[end] # "nl"
  BY <1>4, <1>5, <1>7 DEF b, e
<1> QED  BY <1>6, <1>7

\* byteRangeToLineNumbers gives the lines with the first and the last byte of the range,
\* for any log and any range that is not empty.
THEOREM RangeRight == Spec => []RangeHasItsLines
<1>1. Inputs => RangeHasItsLines
  <2> SUFFICES ASSUME Inputs PROVE RangeHasItsLines
    OBVIOUS
  <2>1. log \in Text /\ LogLen = Len(log) /\ LogLen \in Nat
    BY DEF Inputs, Text, LogLen
  <2> DEFINE LineOf(p) == CHOOSE i \in DOMAIN LineEnds(log) :
                            p <= LineEnds(log)[i] /\ (i = 1 \/ p > LineEnds(log)[i - 1])
  <2>2. \A p \in 1..LogLen : LineOf(p) = 1 + Newlines(log, p - 1)
    BY <2>1, LineIs
  <2> HIDE DEF LineOf
  <2>3. ASSUME NEW begin \in 0..LogLen - 1, NEW end \in begin + 1..LogLen
        PROVE  /\ FirstLine(log, begin, end) = LineOf(begin + 1)
               /\ LastLine(log, begin, end) = LineOf(end)
    <3>1. begin + 1 \in 1..LogLen /\ end \in 1..LogLen /\ (begin + 1) - 1 = begin
      BY <2>1
    <3>2. LineOf(begin + 1) = 1 + Newlines(log, begin) /\ LineOf(end) = 1 + Newlines(log, end - 1)
      BY <2>2, <3>1
    <3>3. /\ FirstLine(log, begin, end) = 1 + Newlines(log, begin)
          /\ LastLine(log, begin, end) = 1 + Newlines(log, end - 1)
      BY RangeLines
    <3> QED  BY <3>2, <3>3
  <2> QED  BY <2>3 DEF RangeHasItsLines, LineOf
<1>2. HeadInv => Inputs
  BY DEF HeadInv
<1> QED  BY <1>1, <1>2, HeadStart, HeadNext, PTL DEF Spec

-----------------------------------------------------------------------------
(* The output in the suite file                                             *)

LEMMA NextOf ==
  ASSUME NEW S, NEW s \in Seq(S), NEW n \in Nat, n + 1 <= Len(s), NEW a \in 0..n
  PROVE  SubSeq(s, a + 1, n + 1) = Append(SubSeq(s, a + 1, n), s[n + 1])
<1> DEFINE u == SubSeq(s, a + 1, n)
           v == SubSeq(s, a + 1, n + 1)
           e == s[n + 1]
<1>1. /\ Len(s) \in Nat /\ a \in 0..Len(s) /\ n \in a..Len(s) /\ n + 1 \in a..Len(s)
      /\ a \in Nat /\ e \in S
  OBVIOUS
<1>2. u \in Seq(S) /\ Len(u) = n - a /\ \A i \in 1..(n - a) : u[i] = s[a + i]
  BY <1>1, Slices
<1>3. v \in Seq(S) /\ Len(v) = (n + 1) - a /\ \A i \in 1..((n + 1) - a) : v[i] = s[a + i]
  BY <1>1, Slices
<1> HIDE DEF u, v
<1> DEFINE w == Append(u, e)
<1>4. /\ w \in Seq(S) /\ Len(w) = Len(u) + 1 /\ w[Len(u) + 1] = e
      /\ \A i \in 1..Len(u) : w[i] = u[i]
  BY <1>1, <1>2
<1> HIDE DEF w
<1>5. Len(w) = (n + 1) - a /\ (n - a) + 1 = (n + 1) - a /\ a + ((n + 1) - a) = n + 1
  BY <1>1, <1>2, <1>4
<1>6. ASSUME NEW i \in 1..((n + 1) - a) PROVE w[i] = v[i]
  <2>1. CASE i = (n + 1) - a
    <3>1. v[i] = s[n + 1] /\ w[i] = e
      BY <1>2, <1>3, <1>4, <1>5, <2>1
    <3> QED  BY <3>1 DEF e
  <2>2. CASE i # (n + 1) - a
    <3>1. i \in 1..(n - a)
      BY <1>1, <2>2
    <3> QED  BY <1>2, <1>3, <1>4, <3>1
  <2> QED  BY <2>1, <2>2
<1>7. v = w
  BY <1>3, <1>4, <1>5, <1>6, SeqEqual
<1> QED  BY <1>7 DEF v, w, u, e

LEMMA SuffixOf ==
  ASSUME NEW S, NEW a \in Seq(S), NEW b \in Seq(S)
  PROVE  IsSuffix(b, a \o b)
<1> DEFINE s == a \o b
           q == Reverse(b)
           u == Reverse(s)
<1>1. /\ s \in Seq(S) /\ Len(s) = Len(a) + Len(b) /\ Len(a) \in Nat /\ Len(b) \in Nat
      /\ \A i \in 1..Len(a) + Len(b) : s[i] = IF i <= Len(a) THEN a[i] ELSE b[i - Len(a)]
  BY ConcatProperties
<1> HIDE DEF s
<1>2. /\ q = [i \in 1..Len(b) |-> b[(Len(b) - i) + 1]] /\ u = [i \in 1..Len(s) |-> s[(Len(s) - i) + 1]]
  BY DEF Reverse
<1>3. q \in Seq(S) /\ Len(q) = Len(b)
  <2>1. \A i \in 1..Len(b) : b[(Len(b) - i) + 1] \in S
    BY <1>1
  <2> QED  BY <1>1, <1>2, <2>1
<1>4. u \in Seq(S) /\ Len(u) = Len(s)
  <2>1. \A i \in 1..Len(s) : s[(Len(s) - i) + 1] \in S
    BY <1>1
  <2> QED  BY <1>1, <1>2, <2>1
<1>5. \A i \in 1..Len(b) : u[i] = q[i]
  <2> SUFFICES ASSUME NEW i \in 1..Len(b) PROVE u[i] = q[i]
    OBVIOUS
  <2> DEFINE j == (Len(s) - i) + 1
  <2>1. /\ i \in 1..Len(s) /\ j \in 1..Len(a) + Len(b) /\ ~(j <= Len(a))
        /\ j - Len(a) = (Len(b) - i) + 1
    BY <1>1
  <2>2. u[i] = s[j] /\ q[i] = b[(Len(b) - i) + 1]
    BY <1>2, <2>1
  <2> HIDE DEF j
  <2> QED  BY <1>1, <2>1, <2>2
<1> HIDE DEF q, u
<1>6. SubSeq(u, 1, Len(q)) = SubSeq(q, 1, Len(q)) /\ Len(q) <= Len(u)
  <2> DEFINE v == SubSeq(u, 0 + 1, Len(b))
  <2>1. 0 \in 0..Len(u) /\ Len(b) \in 0..Len(u) /\ Len(b) - 0 = Len(b) /\ 0 + 1 = 1
        /\ Len(q) <= Len(u)
    BY <1>1, <1>3, <1>4
  <2>2. v \in Seq(S) /\ Len(v) = Len(b) /\ \A i \in 1..Len(b) : v[i] = u[0 + i]
    BY <1>4, <2>1, Slices
  <2> HIDE DEF v
  <2>3. \A i \in 1..Len(b) : v[i] = q[i]
    <3>1. \A i \in 1..Len(b) : 0 + i = i
      OBVIOUS
    <3> QED  BY <1>5, <2>2, <3>1
  <2>4. v = q
    BY <1>3, <2>2, <2>3, SeqEqual
  <2>5. SubSeq(q, 1, Len(q)) = q
    BY <1>3
  <2>6. SubSeq(u, 1, Len(b)) = q
    BY <2>1, <2>4 DEF v
  <2> QED  BY <1>3, <2>1, <2>5, <2>6
<1> QED  BY <1>6 DEF IsSuffix, IsPrefix, s, q, u

\* The loop of splitHeadTail goes over the lines, and countLines gives their number.
LEMMA LoopForm ==
  ASSUME NEW t \in Text, t # <<>>, NEW L, L = LoopLines(t)
  PROVE  /\ L \in Seq(Text) /\ L # <<>> /\ CountLines(t) = Len(L) /\ Joined(L) = t
         /\ \A i \in 1..Len(L) : L[i] = IF i < Len(L) THEN Append(Bare(L[i]), "nl") ELSE Bare(L[i])
<1> DEFINE ls == Split(t).lines
           r == Split(t).rest
<1>1. ls \in Seq(Whole) /\ r \in Seq(Plain) /\ t = Joined(ls) \o r /\ L = Append(ls, r)
  BY TextForm DEF LoopLines
<1>2. CountLines(t) = Len(ls) + 1
  <2>1. t \in Seq(Byte) /\ Len(t) \in 0..Len(t) /\ SubSeq(t, 1, Len(t)) = t
    BY DEF Text
  <2>2. Len(Split(SubSeq(t, 1, Len(t))).lines) = Newlines(t, Len(t))
    BY <2>1, SplitCounts
  <2> QED  BY <2>1, <2>2 DEF CountLines
<1> HIDE DEF ls, r
<1>3. ls \in Seq(Text) /\ r \in Text
  BY <1>1, Empties
<1>4. L \in Seq(Text) /\ Len(L) = Len(ls) + 1 /\ Len(ls) \in Nat /\ L # <<>>
  <2>1. Append(ls, r) \in Seq(Text)
    BY <1>3
  <2>2. Len(Append(ls, r)) = Len(ls) + 1 /\ Len(ls) \in Nat
    BY <1>3
  <2>3. Append(ls, r) # <<>>
    BY <1>3, FrontLastAppend
  <2> QED  BY <1>1, <2>1, <2>2, <2>3
<1>5. Joined(L) = t
  <2>1. t = Joined(ls) \o r /\ L = Append(ls, r)
    BY <1>1
  <2> QED  BY <1>3, <2>1, JoinedUnfolds
<1>6. ASSUME NEW i \in 1..Len(ls) PROVE Append(Bare(L[i]), "nl") = L[i]
  <2>1. L[i] = ls[i] /\ ls[i] \in Whole
    BY ONLY <1>1, <1>3, Len(ls) \in Nat, i \in 1..Len(ls)
  <2>2. PICK v \in Seq(Plain) : L[i] = Append(v, "nl")
    BY <2>1 DEF Whole
  <2>3. v \in Seq(Byte) /\ "nl" \in Byte
    BY Empties DEF Text, Byte
  <2>4. Front(Append(v, "nl")) = v /\ Last(Append(v, "nl")) = "nl" /\ Append(v, "nl") # <<>>
    BY <2>3, FrontLastAppend
  <2> QED  BY <2>2, <2>4 DEF Bare
<1>7. Bare(r) = r
  <2>1. r # <<>> => Last(r) \in Plain
    BY <1>1, FrontLast
  <2> QED  BY <2>1 DEF Bare, Plain
<1>8. L[Len(L)] = r
  BY <1>1, <1>3, <1>4
<1>9. \A i \in 1..Len(L) : (i < Len(L) => i \in 1..Len(ls)) /\ (~(i < Len(L)) => i = Len(L))
  BY <1>4
<1> QED  BY <1>2, <1>4, <1>5, <1>6, <1>7, <1>8, <1>9

\* What the loop has after i of the lines: those of the head, those from number m + 1
\* on, and how many are between them.
Shared(L, n, m, i) ==
  [head |-> SubSeq(L, 1, Least(i, n)), tail |-> SubSeq(L, m + 1, i),
   hidden |-> IF i <= n THEN 0 ELSE IF i <= m THEN i - n ELSE m - n]

LEMMA NoneOf ==
  ASSUME NEW L, NEW m \in Nat, NEW i \in Nat, i <= m
  PROVE  SubSeq(L, m + 1, i) = <<>>
<1>1. m + 1 \in Int /\ i \in Int /\ i < m + 1
  OBVIOUS
<1> QED  BY <1>1, SubSeqEmpty

Share(p, L, n, i) ==
  IF i - 1 < n THEN [p EXCEPT !.head = Append(@, L[i])]
  ELSE IF i - 1 > Len(L) - n THEN [p EXCEPT !.tail = Append(@, L[i])]
  ELSE [p EXCEPT !.hidden = @ + 1]

LEMMA SharedStep ==
  ASSUME NEW L \in Seq(Text), NEW n \in Nat \ {0}, NEW m, NEW i \in 1..Len(L),
         m = IF n >= Len(L) - n + 1 THEN n ELSE Len(L) - n + 1
  PROVE  Shared(L, n, m, i) = Share(Shared(L, n, m, i - 1), L, n, i)
<1> DEFINE N == Len(L)
           p == Shared(L, n, m, i - 1)
           h == SubSeq(L, 1, Least(i - 1, n))
           u == SubSeq(L, m + 1, i - 1)
           k == IF i - 1 <= n THEN 0 ELSE IF i - 1 <= m THEN (i - 1) - n ELSE m - n
<1>1. /\ N \in Nat /\ m \in Nat /\ m >= n /\ i \in Nat /\ i - 1 \in Nat /\ (i - 1) + 1 = i
      /\ i <= N /\ n \in Nat
  OBVIOUS
<1>2. p = [head |-> h, tail |-> u, hidden |-> k]
  BY DEF Shared
<1>3. /\ [p EXCEPT !.head = Append(@, L[i])] = [head |-> Append(h, L[i]), tail |-> u, hidden |-> k]
      /\ [p EXCEPT !.tail = Append(@, L[i])] = [head |-> h, tail |-> Append(u, L[i]), hidden |-> k]
      /\ [p EXCEPT !.hidden = @ + 1] = [head |-> h, tail |-> u, hidden |-> k + 1]
  <2> DEFINE e == L[i]
  <2>1. [p EXCEPT !.head = Append(@, e)] = [head |-> Append(h, e), tail |-> u, hidden |-> k]
    <3> DEFINE v == Append(p.head, e)
    <3>1. v = Append(h, e)
      <4> HIDE DEF h, u, k, p, e
      <4>1. p.head = h
        BY <1>2
      <4> QED  BY <4>1
    <3> HIDE DEF h, u, k, p, e, v
    <3>2. [p EXCEPT !.head = v] = [head |-> v, tail |-> u, hidden |-> k]
      BY <1>2
    <3> QED  BY <3>1, <3>2 DEF v
  <2>2. [p EXCEPT !.tail = Append(@, e)] = [head |-> h, tail |-> Append(u, e), hidden |-> k]
    <3> DEFINE v == Append(p.tail, e)
    <3>1. v = Append(u, e)
      <4> HIDE DEF h, u, k, p, e
      <4>1. p.tail = u
        BY <1>2
      <4> QED  BY <4>1
    <3> HIDE DEF h, u, k, p, e, v
    <3>2. [p EXCEPT !.tail = v] = [head |-> h, tail |-> v, hidden |-> k]
      BY <1>2
    <3> QED  BY <3>1, <3>2 DEF v
  <2>3. [p EXCEPT !.hidden = @ + 1] = [head |-> h, tail |-> u, hidden |-> k + 1]
    <3> HIDE DEF h, u, k, p, e
    <3> QED  BY <1>2
  <2> QED  BY <2>1, <2>2, <2>3
<1>4. CASE i - 1 < n
  <2>1. i <= n /\ i <= m /\ i - 1 <= m /\ i - 1 <= n
    BY <1>1, <1>4
  <2>2. Least(i, n) = i /\ Least(i - 1, n) = i - 1
    BY <1>1, <2>1 DEF Least
  <2>3. SubSeq(L, 1, (i - 1) + 1) = Append(SubSeq(L, 1, i - 1), L[(i - 1) + 1])
    BY <1>1, OneMore
  <2>4. SubSeq(L, m + 1, i) = <<>> /\ u = <<>>
    BY <1>1, <2>1, NoneOf
  <2>5. k = 0
    BY <2>1
  <2>6. Shared(L, n, m, i) = [head |-> Append(h, L[i]), tail |-> u, hidden |-> k]
    BY <1>1, <2>1, <2>2, <2>3, <2>4, <2>5 DEF Shared
  <2> QED  BY <1>3, <1>4, <2>6 DEF Share
<1>5. CASE ~(i - 1 < n) /\ i - 1 > N - n
  <2>1. i > n /\ i > m /\ m <= i - 1 /\ ~(i <= n) /\ ~(i <= m)
    BY <1>1, <1>5
  <2>2. Least(i, n) = n /\ Least(i - 1, n) = n
    BY <1>1, <1>5 DEF Least
  <2>3. SubSeq(L, m + 1, (i - 1) + 1) = Append(SubSeq(L, m + 1, i - 1), L[(i - 1) + 1])
    <3>1. m \in 0..(i - 1) /\ (i - 1) + 1 <= Len(L)
      BY <1>1, <2>1
    <3> QED  BY <1>1, <3>1, NextOf
  <2>4. k = m - n
    BY <1>1, <1>5, <2>1
  <2> HIDE DEF k
  <2>5. Shared(L, n, m, i) = [head |-> h, tail |-> Append(u, L[i]), hidden |-> k]
    BY <1>1, <2>1, <2>2, <2>3, <2>4 DEF Shared
  <2> QED  BY <1>3, <1>5, <2>5 DEF Share
<1>6. CASE ~(i - 1 < n) /\ ~(i - 1 > N - n)
  <2>1. i > n /\ i <= m /\ ~(i <= n)
    BY <1>1, <1>6
  <2>2. Least(i, n) = n /\ Least(i - 1, n) = n
    BY <1>1, <1>6 DEF Least
  <2>3. SubSeq(L, m + 1, i) = <<>> /\ u = <<>>
    <3>1. i - 1 <= m
      BY <1>1, <2>1
    <3> QED  BY <1>1, <2>1, <3>1, NoneOf
  <2>4. k + 1 = i - n
    BY <1>1, <1>6, <2>1
  <2> HIDE DEF k
  <2>5. Shared(L, n, m, i) = [head |-> h, tail |-> u, hidden |-> k + 1]
    BY <1>1, <2>1, <2>2, <2>3, <2>4 DEF Shared
  <2> QED  BY <1>3, <1>6, <2>5 DEF Share
<1> QED  BY <1>4, <1>5, <1>6

LEMMA SplitIs ==
  ASSUME NEW t \in Text, NEW n \in Nat \ {0}, NEW L, L = LoopLines(t), NEW m,
         m = IF n >= Len(L) - n + 1 THEN n ELSE Len(L) - n + 1
  PROVE  LET s == Shared(L, n, m, Len(L))
         IN SplitHeadTail(t, n) = IF s.hidden # 0 THEN s
                                  ELSE [head |-> s.head \o s.tail, tail |-> <<>>, hidden |-> 0]
<1> DEFINE total == CountLines(t)
           Line(i) == IF i < total THEN Append(Bare(L[i]), "nl") ELSE Bare(L[i])
           Step(f, i) == IF i - 1 < n THEN [f[i - 1] EXCEPT !.head = Append(@, Line(i))]
                         ELSE IF i - 1 > total - n
                              THEN [f[i - 1] EXCEPT !.tail = Append(@, Line(i))]
                         ELSE [f[i - 1] EXCEPT !.hidden = @ + 1]
           Start == [head |-> <<>>, tail |-> <<>>, hidden |-> 0]
           Is(f) == f = [i \in 0..Len(L) |-> IF i = 0 THEN Start ELSE Step(f, i)]
           F == CHOOSE f : Is(f)
           g == [i \in 0..Len(L) |-> Shared(L, n, m, i)]
<1>1. SplitHeadTail(t, n) = IF F[Len(L)].hidden # 0 THEN F[Len(L)]
                            ELSE [head |-> F[Len(L)].head \o F[Len(L)].tail, tail |-> <<>>,
                                  hidden |-> 0]
  BY DEF SplitHeadTail
<1>2. /\ L \in Seq(Text) /\ Len(L) \in Nat
      /\ \A i \in 1..Len(L) : L[i] = Line(i) /\ total = Len(L)
  <2>1. CASE t # <<>>
    <3>1. /\ L \in Seq(Text) /\ total = Len(L)
          /\ \A i \in 1..Len(L) :
               L[i] = IF i < Len(L) THEN Append(Bare(L[i]), "nl") ELSE Bare(L[i])
      BY <2>1, LoopForm
    <3> HIDE DEF total
    <3>2. Len(L) \in Nat
      BY <3>1
    <3> QED  BY <3>1, <3>2
  <2>2. CASE t = <<>>
    <3>1. L = <<>>
      BY <2>2 DEF LoopLines
    <3>2. L \in Seq(Text) /\ Len(L) = 0
      BY <3>1
    <3>3. 1..Len(L) = {}
      BY <3>2
    <3> HIDE DEF Line, total
    <3> QED  BY <3>2, <3>3
  <2> QED  BY <2>1, <2>2
<1> HIDE DEF total, Line
<1>3. m \in Nat /\ n \in Nat
  <2>1. Len(L) \in Nat
    BY <1>2
  <2> QED  BY <2>1
<1>4. Shared(L, n, m, 0) = Start
  <2>1. Least(0, n) = 0 /\ 0 <= n /\ 0 <= m
    BY <1>3 DEF Least
  <2>2. SubSeq(L, 1, 0) = <<>>
    BY SubSeqEmpty
  <2>3. SubSeq(L, m + 1, 0) = <<>>
    BY <1>3, <2>1, NoneOf
  <2> QED  BY <2>1, <2>2, <2>3 DEF Shared
<1>5. \A i \in 1..Len(L) : Shared(L, n, m, i) = Share(Shared(L, n, m, i - 1), L, n, i)
  BY <1>2, SharedStep
<1>6. \A f : \A i \in 1..Len(L) : f[i - 1] = Shared(L, n, m, i - 1) => Step(f, i) = Shared(L, n, m, i)
  <2> SUFFICES ASSUME NEW f, NEW i \in 1..Len(L), f[i - 1] = Shared(L, n, m, i - 1)
               PROVE  Step(f, i) = Shared(L, n, m, i)
    OBVIOUS
  <2>1. Step(f, i) = Share(f[i - 1], L, n, i)
    BY <1>2 DEF Share
  <2> QED  BY <1>5, <2>1
<1> HIDE DEF Step
<1>7. Is(g)
  <2>1. \A i \in 1..Len(L) : g[i - 1] = Shared(L, n, m, i - 1)
    <3>1. \A i \in 1..Len(L) : i - 1 \in 0..Len(L)
      BY <1>2
    <3> QED  BY <3>1
  <2>2. \A i \in 0..Len(L) : Shared(L, n, m, i) = IF i = 0 THEN Start ELSE Step(g, i)
    <3> HIDE DEF g, Start
    <3>1. \A i \in 0..Len(L) : i = 0 \/ i \in 1..Len(L)
      BY <1>2
    <3> QED  BY <1>4, <1>6, <2>1, <3>1
  <2> HIDE DEF Start
  <2> QED  BY <2>2
<1>8. Is(F)
  <2> HIDE DEF Is, g
  <2> QED  BY <1>7
<1> HIDE DEF F
<1> DEFINE T == {i \in Nat : i <= Len(L) => F[i] = Shared(L, n, m, i)}
<1>9. 0 \in T
  <2>1. 0 \in 0..Len(L)
    BY <1>2
  <2> HIDE DEF Start
  <2>2. F[0] = Start
    BY <1>8, <2>1
  <2> QED  BY <1>4, <2>2
<1>10. ASSUME NEW i \in Nat, i \in T PROVE i + 1 \in T
  <2> SUFFICES ASSUME i + 1 <= Len(L) PROVE F[i + 1] = Shared(L, n, m, i + 1)
    OBVIOUS
  <2>1. i + 1 \in 1..Len(L) /\ i + 1 \in 0..Len(L) /\ i + 1 # 0 /\ (i + 1) - 1 = i /\ i <= Len(L)
    BY <1>2
  <2> HIDE DEF Start
  <2>2. F[i + 1] = Step(F, i + 1)
    BY <1>8, <2>1
  <2>3. F[(i + 1) - 1] = Shared(L, n, m, (i + 1) - 1)
    BY <1>10, <2>1
  <2> QED  BY <1>6, <2>1, <2>2, <2>3
<1>11. Nat \subseteq T
  <2> HIDE DEF T
  <2> QED  BY <1>9, <1>10, NatInduct
<1>12. F[Len(L)] = Shared(L, n, m, Len(L))
  BY <1>2, <1>11
<1> QED  BY <1>1, <1>12

\* The number of lines that the loop goes over is that of the lines of the output, and
\* one more for the text after the last newline.
LEMMA LoopLength ==
  ASSUME NEW t \in Text, t # <<>>
  PROVE  Len(LoopLines(t)) = Len(Lines(t)) + (IF Last(t) = "nl" THEN 1 ELSE 0)
<1> DEFINE ls == Split(t).lines
           r == Split(t).rest
           u == Front(t)
           c == Last(t)
<1>1. ls \in Seq(Whole) /\ r \in Seq(Plain)
  BY TextForm
<1>2. u \in Text /\ c \in Byte /\ t = Append(u, c)
  BY FrontLast DEF Text
<1>3. r = <<>> <=> c = "nl"
  <2> HIDE DEF u, c
  <2>1. Split(Append(u, c)).rest = IF c = "nl" THEN <<>> ELSE Append(Split(u).rest, c)
    <3>1. Split(Append(u, c)) =
            IF c = "nl"
            THEN [lines |-> Append(Split(u).lines, Append(Split(u).rest, c)), rest |-> <<>>]
            ELSE [lines |-> Split(u).lines, rest |-> Append(Split(u).rest, c)]
      BY <1>2, SplitUnfolds
    <3> QED  BY <3>1
  <2>2. Split(u) \in [lines: Seq(Whole), rest: Seq(Plain)]
    BY <1>2, SplitUnfolds
  <2>3. c # "nl" => Split(u).rest \in Seq(Plain) /\ c \in Plain
    BY <1>2, <2>2 DEF Plain
  <2>4. c # "nl" => Append(Split(u).rest, c) # <<>>
    BY <2>3, FrontLastAppend
  <2> QED  BY <1>2, <2>1, <2>4
<1>4. /\ LoopLines(t) = Append(ls, r)
      /\ Lines(t) = IF r = <<>> THEN ls ELSE Append(ls, r)
  BY DEF LoopLines, Lines
<1> HIDE DEF ls, r, c
<1>5. Len(Append(ls, r)) = Len(ls) + 1 /\ Len(ls) \in Nat
  BY <1>1
<1>6. CASE c = "nl"
  <2>1. Len(LoopLines(t)) = Len(ls) + 1 /\ Len(Lines(t)) = Len(ls)
    BY <1>3, <1>4, <1>5, <1>6
  <2> QED  BY <1>6, <2>1 DEF c
<1>7. CASE c # "nl"
  <2>1. Len(LoopLines(t)) = Len(ls) + 1 /\ Len(Lines(t)) = Len(ls) + 1
    BY <1>3, <1>4, <1>5, <1>7
  <2>2. (Len(ls) + 1) + 0 = Len(ls) + 1
    BY <1>5
  <2> QED  BY <1>7, <2>1, <2>2 DEF c
<1> QED  BY <1>6, <1>7

\* splitHeadTail gives the whole output, or its first and its last lines with the number
\* of those between them.
LEMMA SplitForms ==
  ASSUME NEW t \in Text, NEW n \in Nat \ {0}, NEW L, L = LoopLines(t)
  PROVE  /\ L \in Seq(Text) /\ Len(L) \in Nat /\ Joined(L) = t
         /\ \/ SplitHeadTail(t, n) = [head |-> L, tail |-> <<>>, hidden |-> 0]
            \/ \E m \in n + 1..Len(L) :
                 SplitHeadTail(t, n) = [head |-> SubSeq(L, 1, n), tail |-> SubSeq(L, m + 1, Len(L)),
                                        hidden |-> m - n]
<1> DEFINE N == Len(L)
           m == IF n >= N - n + 1 THEN n ELSE N - n + 1
           s == Shared(L, n, m, N)
<1>1. L \in Seq(Text) /\ N \in Nat /\ Joined(L) = t
  <2>1. CASE t # <<>>
    <3>1. L \in Seq(Text) /\ Joined(L) = t
      BY <2>1, LoopForm
    <3>2. Len(L) \in Nat
      BY <3>1
    <3> QED  BY <3>1, <3>2
  <2>2. CASE t = <<>>
    <3>1. L = <<>>
      BY <2>2 DEF LoopLines
    <3> QED  BY <2>2, <3>1, JoinedUnfolds, Empties
  <2> QED  BY <2>1, <2>2
<1>2. SplitHeadTail(t, n) = IF s.hidden # 0 THEN s
                            ELSE [head |-> s.head \o s.tail, tail |-> <<>>, hidden |-> 0]
  BY SplitIs
<1>3. m \in Nat /\ m >= n /\ n \in Nat /\ (n < N => m <= N)
  BY <1>1
<1>4. s = [head |-> SubSeq(L, 1, Least(N, n)), tail |-> SubSeq(L, m + 1, N),
           hidden |-> IF N <= n THEN 0 ELSE IF N <= m THEN N - n ELSE m - n]
  BY DEF Shared
<1> HIDE DEF m, s
<1>5. SubSeq(L, 1, N) = L
  BY <1>1
<1>6. CASE N <= n
  <2>1. Least(N, n) = N /\ N <= m
    BY <1>1, <1>3, <1>6 DEF Least
  <2>2. SubSeq(L, m + 1, N) = <<>>
    BY <1>1, <1>3, <2>1, NoneOf
  <2>3. s = [head |-> L, tail |-> <<>>, hidden |-> 0]
    BY <1>4, <1>5, <1>6, <2>1, <2>2
  <2>4. s.head = L /\ s.tail = <<>> /\ s.hidden = 0
    BY <2>3
  <2>5. L \o <<>> = L
    BY <1>1, ConcatEmptySeq
  <2> QED  BY <1>1, <1>2, <2>4, <2>5
<1>7. CASE ~(N <= n)
  <2> DEFINE h == SubSeq(L, 1, n)
             u == SubSeq(L, m + 1, N)
  <2>1. Least(N, n) = n /\ m \in n..N
    BY <1>1, <1>3, <1>7 DEF Least
  <2>2. (IF N <= n THEN 0 ELSE IF N <= m THEN N - n ELSE m - n) = m - n
    BY <1>1, <1>3, <1>7, <2>1
  <2>3. s = [head |-> h, tail |-> u, hidden |-> m - n]
    BY <1>4, <2>1, <2>2
  <2>4. CASE m = n
    <3>1. m - n = 0
      BY <1>3, <2>4
    <3>2. n \in 0..Len(L) /\ N \in n..Len(L)
      BY <1>1, <1>3, <1>7
    <3>3. SubSeq(L, 1, n) \o SubSeq(L, n + 1, N) = SubSeq(L, 1, N)
      BY <1>1, <3>2, Adjacent
    <3>4. h \o u = L
      BY <1>5, <2>4, <3>3
    <3> HIDE DEF h, u
    <3>5. s.head = h /\ s.tail = u /\ s.hidden = 0
      BY <2>3, <3>1
    <3> QED  BY <1>1, <1>2, <3>4, <3>5
  <2>5. CASE m # n
    <3>1. m - n # 0 /\ m \in n + 1..Len(L)
      BY <1>1, <1>3, <2>1, <2>5
    <3>2. s.hidden # 0
      BY <2>3, <3>1
    <3>3. SplitHeadTail(t, n) = [head |-> h, tail |-> u, hidden |-> m - n]
      BY <1>2, <2>3, <3>2
    <3> QED  BY <1>1, <3>1, <3>3
  <2> QED  BY <2>4, <2>5
<1> QED  BY <1>6, <1>7

\* What splitHeadTail shows of any output, with any limit, is its head and its tail, and
\* the lines it does not show are counted.
THEOREM SplitRight == Spec => []SplitConserves
<1>1. ASSUME Inputs PROVE SplitConserves
  <2> DEFINE t == Decoded(log)
             n == limit.lines
             L == LoopLines(t)
             split == SplitHeadTail(t, n)
  <2>1. t \in Text /\ n \in Nat \ {0}
    <3>1. log \in Text /\ "nl" \in Byte /\ limit.lines \in Nat \ {0}
      BY <1>1 DEF Inputs, Byte
    <3> QED  BY <3>1, DecodedUnfolds
  <2>2. Len(t) > 0 => Len(L) = Len(AllLines) + (IF Last(t) = "nl" THEN 1 ELSE 0)
    <3>1. Len(t) > 0 => t # <<>>
      OBVIOUS
    <3>2. AllLines = Lines(t)
      BY DEF AllLines
    <3> HIDE DEF t
    <3> QED  BY <2>1, <3>1, <3>2, LoopLength
  <2>3. t \in Seq(Byte)
    BY <2>1 DEF Text
  <2> HIDE DEF t, n
  <2>4. /\ L \in Seq(Text) /\ Len(L) \in Nat /\ Joined(L) = t
        /\ \/ split = [head |-> L, tail |-> <<>>, hidden |-> 0]
           \/ \E m \in n + 1..Len(L) :
                split = [head |-> SubSeq(L, 1, n), tail |-> SubSeq(L, m + 1, Len(L)),
                         hidden |-> m - n]
    BY <2>1, SplitForms
  <2> HIDE DEF L, split
  <2>5. ASSUME NEW a \in 0..Len(L)
        PROVE  /\ IsPrefix(Joined(SubSeq(L, 1, a)), t) /\ Len(SubSeq(L, 1, a)) = a
               /\ IsSuffix(Joined(SubSeq(L, a + 1, Len(L))), t)
               /\ Len(SubSeq(L, a + 1, Len(L))) = Len(L) - a
    <3> DEFINE u == SubSeq(L, 1, a)
               v == SubSeq(L, a + 1, Len(L))
    <3>1. /\ Len(L) \in a..Len(L) /\ SubSeq(L, 1, Len(L)) = L
          /\ 0 \in 0..Len(L) /\ a - 0 = a /\ 0 + 1 = 1
      BY <2>4
    <3>2. u \o v = L /\ u \in Seq(Text) /\ v \in Seq(Text) /\ Len(v) = Len(L) - a
      <4>1. u \o v = SubSeq(L, 1, Len(L)) /\ u \in Seq(Text)
        BY <2>4, <3>1, Adjacent
      <4>2. v \in Seq(Text) /\ Len(v) = Len(L) - a
        BY <2>4, <3>1, Slices
      <4> QED  BY <3>1, <4>1, <4>2
    <3>3. Len(u) = a
      <4>1. Len(SubSeq(L, 0 + 1, a)) = a - 0
        BY <2>4, <3>1, Slices
      <4> QED  BY <3>1, <4>1
    <3> HIDE DEF u, v
    <3>4. t = Joined(u) \o Joined(v) /\ Joined(u) \in Seq(Byte) /\ Joined(v) \in Seq(Byte)
      BY <2>4, <3>2, JoinedConcat DEF Text
    <3>5. IsPrefix(Joined(u), t) /\ IsSuffix(Joined(v), t)
      <4>1. IsPrefix(Joined(u), Joined(u) \o Joined(v))
        BY <3>4, PrefixOf, Zenon
      <4>2. IsSuffix(Joined(v), Joined(u) \o Joined(v))
        BY <3>4, SuffixOf, Zenon
      <4> QED  BY <3>4, <4>1, <4>2
    <3> QED  BY <3>2, <3>3, <3>5 DEF u, v
  <2>6. CASE split = [head |-> L, tail |-> <<>>, hidden |-> 0]
    <3>1. split.head = L /\ split.tail = <<>> /\ split.hidden = 0
      BY <2>6
    <3>2. t \o <<>> = t /\ <<>> \in Seq(Byte) /\ Joined(<<>>) = <<>> /\ Len(<<>>) = 0
      BY <2>3, ConcatEmptySeq, JoinedUnfolds
    <3>3. IsPrefix(t, t) /\ IsSuffix(<<>>, t)
      <4>1. IsPrefix(t, t \o <<>>)
        BY <2>3, <3>2, PrefixOf
      <4>2. IsSuffix(<<>>, t \o <<>>)
        BY <2>3, <3>2, SuffixOf
      <4> QED  BY <3>2, <4>1, <4>2
    <3>4. Len(L) + 0 + 0 = Len(L)
      BY <2>4
    <3> QED  BY <2>2, <2>4, <3>1, <3>2, <3>3, <3>4 DEF SplitConserves, split, t, n
  <2>7. CASE \E m \in n + 1..Len(L) :
               split = [head |-> SubSeq(L, 1, n), tail |-> SubSeq(L, m + 1, Len(L)),
                        hidden |-> m - n]
    <3>1. PICK m \in n + 1..Len(L) :
                 split = [head |-> SubSeq(L, 1, n), tail |-> SubSeq(L, m + 1, Len(L)),
                          hidden |-> m - n]
      BY <2>7
    <3>2. /\ n \in 0..Len(L) /\ m \in 0..Len(L) /\ m - n # 0
          /\ n + (Len(L) - m) + (m - n) = Len(L)
      BY <2>1, <2>4
    <3>3. /\ split.head = SubSeq(L, 1, n) /\ split.tail = SubSeq(L, m + 1, Len(L))
          /\ split.hidden = m - n
      BY <3>1
    <3>4. /\ IsPrefix(Joined(split.head), t) /\ IsSuffix(Joined(split.tail), t)
          /\ split.hidden # 0 /\ Len(split.head) = n /\ Len(split.tail) = Len(L) - m
      BY <2>5, <3>2, <3>3
    <3>5. Len(split.head) + Len(split.tail) + split.hidden = Len(L)
      BY <3>2, <3>3, <3>4
    <3> QED  BY <2>2, <3>4, <3>5 DEF SplitConserves, split, t, n
  <2> QED  BY <2>4, <2>6, <2>7
<1>2. HeadInv => Inputs
  BY DEF HeadInv
<1> QED  BY <1>1, <1>2, HeadStart, HeadNext, PTL DEF Spec
=============================================================================
