---------------------- MODULE UrlCanonicalizationProofs ----------------------
(***************************************************************************)
(* What canonicalize_url promises of every URL, however long, over the     *)
(* symbols the algorithm tells apart.  The functions that the model        *)
(* defines by recursion are shown to exist, and the loop over a path to    *)
(* end, by induction through sets of numbers (SetInduction).               *)
(***************************************************************************)
EXTENDS UrlCanonicalization, SequenceTheorems, WellFoundedInduction, TLAPS

-----------------------------------------------------------------------------
(* Numbers *)

\* A set of numbers has a least one.
LEMMA LeastNumber ==
  ASSUME NEW T, T \subseteq Nat, T # {}
  PROVE  \E x \in T : \A y \in T : x <= y
  <1>1. PICK x \in T : \A y \in T : ~ (<<y, x>> \in OpToRel(<, Nat))
    BY WFMin, NatLessThanWellFounded, Zenon
  <1>2. \A y \in T : ~ (y < x)
    BY <1>1, Zenon DEF OpToRel
  <1> QED
    BY <1>2

\* Induction, for a set instead of a formula: the provers can instantiate it.
LEMMA SetInduction ==
  ASSUME NEW S \in SUBSET Nat, 0 \in S, \A n \in S : n + 1 \in S
  PROVE  S = Nat
  <1> SUFFICES ASSUME Nat \ S # {} PROVE FALSE
    OBVIOUS
  <1>1. PICK n \in Nat \ S : \A m \in Nat \ S : n <= m
    BY LeastNumber
  <1>2. n - 1 \in Nat /\ n - 1 \in S
    BY <1>1
  <1> QED
    BY <1>1, <1>2

\* Each value is made of the one before.
Iterates(g, F, x) == g[0] = x /\ \A n \in Nat : g[n + 1] = F[g[n]]

\* A function can be applied again and again.
LEMMA IterationExists ==
  ASSUME NEW S, NEW F \in [S -> S], NEW x \in S
  PROVE  \E g \in [Nat -> S] : Iterates(g, F, x)
  <1> DEFINE Upto(n, g) == /\ g \in [0 .. n -> S] /\ g[0] = x
                           /\ \A m \in 0 .. n - 1 : g[m + 1] = F[g[m]]
             Some == {n \in Nat : \E g : Upto(n, g)}
             Only == {n \in Nat : \A g, h : Upto(n, g) /\ Upto(n, h) => g[n] = h[n]}
             Short(g, n) == [m \in 0 .. n |-> g[m]]
  <1>1. ASSUME NEW n \in Nat, NEW g, Upto(n + 1, g)
        PROVE  Upto(n, Short(g, n)) /\ Short(g, n)[n] = g[n] /\ g[n + 1] = F[g[n]]
    <2>1. (n + 1) - 1 = n
      OBVIOUS
    <2>2. g \in [0 .. n + 1 -> S] /\ \A m \in 0 .. n : g[m + 1] = F[g[m]]
      BY <1>1, <2>1
    <2> QED
      BY <1>1, <2>2
  <1>2. Some = Nat
    <2>1. 0 \in Some
      <3>1. Upto(0, [m \in 0 .. 0 |-> x])
        OBVIOUS
      <3> QED
        BY <3>1
    <2>2. ASSUME NEW n \in Some PROVE n + 1 \in Some
      <3>1. n \in Nat /\ \E g : Upto(n, g)
        OBVIOUS
      <3> PICK g : Upto(n, g)
        BY <3>1
      <3> DEFINE h == [m \in 0 .. n + 1 |-> IF m = n + 1 THEN F[g[n]] ELSE g[m]]
      <3>2. h \in [0 .. n + 1 -> S] /\ h[0] = x
        BY <3>1
      <3>3. \A m \in 0 .. n : h[m + 1] = F[h[m]]
        BY <3>1
      <3>4. Upto(n + 1, h)
        <4>1. (n + 1) - 1 = n
          BY <3>1
        <4> QED
          BY <3>2, <3>3, <4>1
      <3> HIDE DEF Upto
      <3>5. n + 1 \in Nat /\ \E k : Upto(n + 1, k)
        BY <3>1, <3>4
      <3> QED
        BY <3>5
    <2> QED
      BY <2>1, <2>2, SetInduction
  <1>3. Only = Nat
    <2>1. 0 \in Only
      OBVIOUS
    <2>2. ASSUME NEW n \in Only PROVE n + 1 \in Only
      <3> SUFFICES ASSUME NEW g, NEW h, Upto(n + 1, g), Upto(n + 1, h)
                   PROVE  g[n + 1] = h[n + 1]
        OBVIOUS
      <3> HIDE DEF Short, Upto
      <3>1. n \in Nat
        OBVIOUS
      <3>2. Upto(n, Short(g, n)) /\ Upto(n, Short(h, n))
        BY <1>1, <3>1
      <3>3. Short(g, n)[n] = Short(h, n)[n]
        BY <3>2
      <3>4. g[n] = h[n]
        BY <1>1, <3>1, <3>3
      <3>5. g[n + 1] = F[g[n]] /\ h[n + 1] = F[h[n]]
        BY <1>1, <3>1
      <3> QED
        BY <3>4, <3>5
    <2> QED
      BY <2>1, <2>2, SetInduction
  <1> DEFINE At(n) == CHOOSE g : Upto(n, g)
             all == [n \in Nat |-> At(n)[n]]
  <1>4. \A n \in Nat : Upto(n, At(n))
    <2> HIDE DEF Upto
    <2> QED
      BY <1>2
  <1> HIDE DEF At
  <1>5. \A n \in Nat : At(n)[n] \in S /\ At(0)[0] = x
    BY <1>4
  <1>6. ASSUME NEW n \in Nat PROVE At(n + 1)[n + 1] = F[At(n)[n]]
    <2>1. Upto(n + 1, At(n + 1)) /\ Upto(n, At(n))
      BY <1>4
    <2>2. At(n + 1)[n] = At(n)[n]
      <3> HIDE DEF Upto, At
      <3>1. Upto(n, Short(At(n + 1), n)) /\ Short(At(n + 1), n)[n] = At(n + 1)[n]
        BY <1>1, <2>1
      <3> QED
        BY <1>3, <2>1, <3>1
    <2>3. At(n + 1)[n + 1] = F[At(n + 1)[n]]
      BY <2>1
    <2> QED
      BY <2>2, <2>3
  <1> HIDE DEF Upto
  <1>7. all \in [Nat -> S] /\ Iterates(all, F, x)
    BY <1>5, <1>6 DEF Iterates
  <1> QED
    BY <1>7

-----------------------------------------------------------------------------
(* Texts *)

\* A number that a set of numbers does not exceed bounds a greatest one.
LEMMA GreatestNumber ==
  ASSUME NEW T, T \subseteq Nat, T # {}, NEW n \in Nat, \A x \in T : x <= n
  PROVE  \E x \in T : \A y \in T : x >= y
  <1> DEFINE Gaps == {m \in Nat : n - m \in T}
  <1>1. PICK x \in T : TRUE
    OBVIOUS
  <1>2. n - x \in Gaps
    BY <1>1
  <1>3. PICK m \in Gaps : \A k \in Gaps : m <= k
    BY <1>2, LeastNumber
  <1>4. \A y \in T : n - y \in Gaps
    OBVIOUS
  <1>5. n - m \in T /\ \A y \in T : m <= n - y
    BY <1>3, <1>4
  <1> QED
    BY <1>5

\* First is the position of a symbol with none of its kind before it.
LEMMA FirstIs ==
  ASSUME NEW A, NEW text \in Seq(A), NEW D
  PROVE  /\ First(text, D) \in 1 .. Len(text) + 1
         /\ First(text, D) <= Len(text) => text[First(text, D)] \in D
         /\ \A i \in 1 .. Len(text) : i < First(text, D) => text[i] \notin D
  <1> DEFINE at == {i \in DOMAIN text : text[i] \in D} \cup {Len(text) + 1}
  <1>1. DOMAIN text = 1 .. Len(text) /\ Len(text) \in Nat
    OBVIOUS
  <1>2. \E x \in at : \A y \in at : x <= y
    <2>1. at \subseteq Nat /\ at # {}
      BY <1>1
    <2> HIDE DEF at
    <2> QED
      BY <2>1, LeastNumber
  <1>3. First(text, D) \in at /\ \A y \in at : First(text, D) <= y
    BY <1>2 DEF First, Min
  <1> QED
    BY <1>1, <1>3

\* The first symbol of a kind is where one is with none before it.
LEMMA FirstAt ==
  ASSUME NEW A, NEW text \in Seq(A), NEW D, NEW k \in 1 .. Len(text) + 1,
         k <= Len(text) => text[k] \in D,
         \A i \in 1 .. Len(text) : i < k => text[i] \notin D
  PROVE  First(text, D) = k
  <1>1. \/ First(text, D) < k \/ First(text, D) > k \/ First(text, D) = k
    BY FirstIs
  <1>2. Len(text) \in Nat
    OBVIOUS
  <1> QED
    BY <1>1, <1>2, FirstIs

\* What is left of a text.
LEMMA DropIs ==
  ASSUME NEW A, NEW text \in Seq(A), NEW n \in 0 .. Len(text)
  PROVE  /\ Drop(text, n) \in Seq(A) /\ Len(Drop(text, n)) = Len(text) - n
         /\ \A i \in 1 .. Len(text) - n : Drop(text, n)[i] = text[n + i]
  BY DEF Drop

\* A text up to a symbol of a kind has none.
LEMMA UntilIs ==
  ASSUME NEW A, NEW text \in Seq(A), NEW D
  PROVE  /\ Until(text, D) \in Seq(A) /\ Len(Until(text, D)) = First(text, D) - 1
         /\ \A i \in 1 .. First(text, D) - 1 :
              Until(text, D)[i] = text[i] /\ text[i] \notin D
  BY FirstIs DEF Until

\* What follows begins with one.
LEMMA FromIs ==
  ASSUME NEW A, NEW text \in Seq(A), NEW D
  PROVE  /\ From(text, D) \in Seq(A)
         /\ Len(From(text, D)) = Len(text) + 1 - First(text, D)
         /\ \A i \in 1 .. Len(text) + 1 - First(text, D) :
              From(text, D)[i] = text[First(text, D) + i - 1]
         /\ From(text, D) # <<>> => From(text, D)[1] \in D
  BY FirstIs DEF From

\* A text is cut where a symbol of a kind comes first.
LEMMA CutAt ==
  ASSUME NEW A, NEW left \in Seq(A), NEW right \in Seq(A), NEW D,
         \A i \in 1 .. Len(left) : left[i] \notin D,
         right # <<>> => right[1] \in D
  PROVE  Until(left \o right, D) = left /\ From(left \o right, D) = right
  <1> DEFINE text == left \o right
  <1>1. /\ text \in Seq(A) /\ Len(text) = Len(left) + Len(right)
        /\ Len(left) \in Nat /\ Len(right) \in Nat
        /\ \A i \in 1 .. Len(left) : text[i] = left[i]
        /\ \A i \in 1 .. Len(right) : text[Len(left) + i] = right[i]
    OBVIOUS
  <1>2. First(text, D) = Len(left) + 1
    <2>1. right # <<>> <=> Len(right) >= 1
      OBVIOUS
    <2> DEFINE k == Len(left) + 1
    <2> HIDE DEF text
    <2>2. k \in 1 .. Len(text) + 1 /\ (k <= Len(text) => text[k] \in D)
      BY <1>1, <2>1
    <2>3. \A i \in 1 .. Len(text) : i < k => text[i] \notin D
      BY <1>1
    <2> QED
      BY <1>1, <2>2, <2>3, FirstAt
  <1> HIDE DEF text
  <1>3. Until(text, D) = left
    BY <1>1, <1>2, UntilIs, SeqEqual
  <1>4. From(text, D) = right
    BY <1>1, <1>2, FromIs, SeqEqual
  <1> QED
    BY <1>3, <1>4 DEF text

-----------------------------------------------------------------------------
(* The loop over a path *)

\* A path begins with a slash, if there is one.
Rooted(text) == text # <<>> => text[1] = "/"

\* A text is empty or has a first symbol.
LEMMA NotEmpty ==
  ASSUME NEW A, NEW text \in Seq(A)
  PROVE  Len(text) \in Nat /\ (text # <<>> <=> Len(text) >= 1)
  OBVIOUS

\* The segment that begins after a position is a dot segment.
OneDotAt(text, i) ==
  /\ i + 1 <= Len(text) /\ text[i + 1] = "."
  /\ i + 2 <= Len(text) => text[i + 2] = "/"

TwoDotsAt(text, i) ==
  /\ i + 2 <= Len(text) /\ text[i + 1] = "." /\ text[i + 2] = "."
  /\ i + 3 <= Len(text) => text[i + 3] = "/"

DotAt(text, i) == OneDotAt(text, i) \/ TwoDotsAt(text, i)

\* There is no dot segment.
Clean(text) == \A i \in 1 .. Len(text) : text[i] = "/" => ~DotAt(text, i)

\* The walks that start with a path over some symbols.
Walks(A) ==
  {w \in [data : Seq(A), output : Seq(A)] :
     Rooted(w.data) /\ Rooted(w.output) /\ Clean(w.output)}

\* Cutting the output at a slash leaves no dot segment.
LEMMA PopKeeps ==
  ASSUME NEW A, NEW output \in Seq(A), Rooted(output), Clean(output)
  PROVE  Pop(output) \in Seq(A) /\ Rooted(Pop(output)) /\ Clean(Pop(output))
  <1> DEFINE at == {i \in DOMAIN output : output[i] = "/"} \cup {1}
             k == Max(at)
  <1>1. DOMAIN output = 1 .. Len(output) /\ Len(output) \in Nat
    OBVIOUS
  <1>2. \E x \in at : \A y \in at : x >= y
    <2> DEFINE n == Len(output) + 1
    <2>1. at \subseteq Nat /\ at # {} /\ n \in Nat /\ \A x \in at : x <= n
      BY <1>1
    <2> HIDE DEF at, n
    <2> QED
      BY <2>1, GreatestNumber
  <1>3. k \in at /\ \A y \in at : k >= y
    BY <1>2 DEF Max
  <1> HIDE DEF k
  <1>4. Pop(output) = SubSeq(output, 1, k - 1)
    BY DEF Pop, k
  <1>5. k \in Nat /\ k >= 1 /\ (k # 1 => k <= Len(output) /\ output[k] = "/")
    BY <1>1, <1>3
  <1>6. /\ Pop(output) \in Seq(A) /\ Len(Pop(output)) = k - 1
        /\ \A i \in 1 .. k - 1 : Pop(output)[i] = output[i]
    BY <1>1, <1>4, <1>5
  <1>7. Rooted(Pop(output))
    BY <1>1, <1>5, <1>6 DEF Rooted
  <1>8. Clean(Pop(output))
    BY <1>1, <1>5, <1>6 DEF Clean, DotAt, OneDotAt, TwoDotsAt
  <1> QED
    BY <1>6, <1>7, <1>8

\* A short text is known by its symbols.
LEMMA ShortTexts ==
  ASSUME NEW A, NEW text \in Seq(A), NEW a, NEW b, NEW c
  PROVE  /\ text = <<a>> <=> Len(text) >= 1 /\ Len(text) <= 1 /\ text[1] = a
         /\ text = <<a, b>>
              <=> Len(text) >= 2 /\ Len(text) <= 2 /\ text[1] = a /\ text[2] = b
         /\ text = <<a, b, c>>
              <=> /\ Len(text) >= 3 /\ Len(text) <= 3
                  /\ text[1] = a /\ text[2] = b /\ text[3] = c
  <1>1. ASSUME NEW s \in Seq(A), Len(text) <= Len(s), Len(text) >= Len(s),
               \A i \in 1 .. Len(s) : text[i] = s[i]
        PROVE  text = s
    <2>1. Len(text) \in Nat /\ Len(s) \in Nat
      OBVIOUS
    <2>2. Len(text) = Len(s)
      BY <1>1, <2>1
    <2> QED
      BY <1>1, <2>2, SeqEqual
  <1>2. ASSUME Len(text) >= 1, Len(text) <= 1, text[1] = a
        PROVE  text = <<a>>
    <2> DEFINE s == <<a>>
    <2>1. s \in Seq(A) /\ Len(s) >= 1 /\ Len(s) <= 1 /\ s[1] = a
      BY <1>2
    <2> HIDE DEF s
    <2>2. Len(text) <= Len(s) /\ Len(text) >= Len(s) /\ \A i \in 1 .. Len(s) : text[i] = s[i]
      BY <1>2, <2>1
    <2> QED
      BY <1>1, <2>1, <2>2 DEF s
  <1>3. ASSUME Len(text) >= 2, Len(text) <= 2, text[1] = a, text[2] = b
        PROVE  text = <<a, b>>
    <2> DEFINE s == <<a, b>>
    <2>1. s \in Seq(A) /\ Len(s) >= 2 /\ Len(s) <= 2 /\ s[1] = a /\ s[2] = b
      BY <1>3
    <2> HIDE DEF s
    <2>2. Len(text) <= Len(s) /\ Len(text) >= Len(s) /\ \A i \in 1 .. Len(s) : text[i] = s[i]
      BY <1>3, <2>1
    <2> QED
      BY <1>1, <2>1, <2>2 DEF s
  <1>4. ASSUME Len(text) >= 3, Len(text) <= 3, text[1] = a, text[2] = b, text[3] = c
        PROVE  text = <<a, b, c>>
    <2> DEFINE s == <<a, b, c>>
    <2>1. /\ s \in Seq(A) /\ Len(s) >= 3 /\ Len(s) <= 3
          /\ s[1] = a /\ s[2] = b /\ s[3] = c
      BY <1>4
    <2> HIDE DEF s
    <2>2. Len(text) <= Len(s) /\ Len(text) >= Len(s) /\ \A i \in 1 .. Len(s) : text[i] = s[i]
      BY <1>4, <2>1
    <2> QED
      BY <1>1, <2>1, <2>2 DEF s
  <1>5. text = <<a>> => Len(text) >= 1 /\ Len(text) <= 1 /\ text[1] = a
    OBVIOUS
  <1>6. text = <<a, b>> =>
          Len(text) >= 2 /\ Len(text) <= 2 /\ text[1] = a /\ text[2] = b
    OBVIOUS
  <1>7. text = <<a, b, c>> =>
          /\ Len(text) >= 3 /\ Len(text) <= 3
          /\ text[1] = a /\ text[2] = b /\ text[3] = c
    OBVIOUS
  <1> QED
    BY <1>2, <1>3, <1>4, <1>5, <1>6, <1>7

\* What a turn does of a path, which begins with a slash.
LEMMA TurnIs ==
  ASSUME NEW A, NEW data \in Seq(A), data # <<>>, data[1] = "/", NEW output
  PROVE  LET cut == First(Drop(data, 1), {"/"})
             To(rest, text) == [data |-> rest, output |-> text]
         IN Turn([data |-> data, output |-> output]) =
              IF OneDotAt(data, 1)
              THEN To(IF Len(data) <= 2 THEN <<"/">> ELSE Drop(data, 2), output)
              ELSE IF TwoDotsAt(data, 1)
              THEN To(IF Len(data) <= 3 THEN <<"/">> ELSE Drop(data, 3), Pop(output))
              ELSE To(Drop(data, cut), output \o SubSeq(data, 1, cut))
  <1> DEFINE cut == First(Drop(data, 1), {"/"})
             To(rest, text) == [data |-> rest, output |-> text]
             starts(text) == IsPrefix(text, data)
  <1>1. Len(data) \in Nat /\ Len(data) >= 1
    OBVIOUS
  <1>2. /\ ~starts(Up \o <<"/">>) /\ ~starts(<<".", "/">>)
        /\ data \notin {<<".">>, Up}
    BY <1>1 DEF IsPrefix, Up
  <1>3. starts(<<"/", ".", "/">>) <=> Len(data) >= 3 /\ data[2] = "." /\ data[3] = "/"
    BY <1>1 DEF IsPrefix
  <1>4. data = <<"/", ".">> <=> Len(data) >= 2 /\ Len(data) <= 2 /\ data[2] = "."
    BY ShortTexts
  <1>5. starts(<<"/">> \o Up \o <<"/">>)
          <=> Len(data) >= 4 /\ data[2] = "." /\ data[3] = "." /\ data[4] = "/"
    BY <1>1 DEF IsPrefix, Up
  <1>6. data = <<"/">> \o Up
          <=> Len(data) >= 3 /\ Len(data) <= 3 /\ data[2] = "." /\ data[3] = "."
    <2> DEFINE slash == <<"/">>
               text == slash \o Up
    <2>1. /\ slash \in Seq({"/", "."}) /\ Up \in Seq({"/", "."})
          /\ Len(slash) >= 1 /\ Len(slash) <= 1 /\ slash[1] = "/"
          /\ Len(Up) >= 2 /\ Len(Up) <= 2 /\ Up[1] = "." /\ Up[2] = "."
      BY DEF Up
    <2> HIDE DEF slash
    <2>2. /\ text \in Seq({"/", "."}) /\ Len(text) >= 3 /\ Len(text) <= 3
          /\ text[1] = "/" /\ text[2] = "." /\ text[3] = "."
      BY <2>1
    <2> HIDE DEF text
    <2>3. text = <<"/", ".", ".">>
      BY <2>2, ShortTexts
    <2>4. data = text <=> Len(data) >= 3 /\ Len(data) <= 3 /\ data[2] = "." /\ data[3] = "."
      BY <2>3, ShortTexts
    <2> QED
      BY <2>4 DEF text, slash
  <1> DEFINE w == [data |-> data, output |-> output]
  <1>7. Turn(w) =
          CASE data = <<>> -> w
            [] starts(Up \o <<"/">>) -> To(Drop(data, 3), output)
            [] starts(<<".", "/">>) -> To(Drop(data, 2), output)
            [] starts(<<"/", ".", "/">>) -> To(Drop(data, 2), output)
            [] data = <<"/", ".">> -> To(<<"/">>, output)
            [] starts(<<"/">> \o Up \o <<"/">>) -> To(Drop(data, 3), Pop(output))
            [] data = <<"/">> \o Up -> To(<<"/">>, Pop(output))
            [] data \in {<<".">>, Up} -> To(<<>>, output)
            [] OTHER -> To(Drop(data, cut), output \o SubSeq(data, 1, cut))
    BY DEF Turn
  <1> HIDE DEF starts, To, cut, w
  <1>8. OneDotAt(data, 1) <=> starts(<<"/", ".", "/">>) \/ data = <<"/", ".">>
    <2>1. OneDotAt(data, 1) <=> /\ Len(data) >= 2 /\ data[2] = "."
                                /\ Len(data) >= 3 => data[3] = "/"
      BY <1>1 DEF OneDotAt
    <2> QED
      BY <1>1, <1>3, <1>4, <2>1
  <1>9. TwoDotsAt(data, 1)
          <=> starts(<<"/">> \o Up \o <<"/">>) \/ data = <<"/">> \o Up
    <2>1. TwoDotsAt(data, 1) <=> /\ Len(data) >= 3 /\ data[2] = "." /\ data[3] = "."
                                 /\ Len(data) >= 4 => data[4] = "/"
      BY <1>1 DEF TwoDotsAt
    <2> QED
      BY <1>1, <1>5, <1>6, <2>1
  <1>10. CASE OneDotAt(data, 1)
    <2>1. Turn(w) = To(IF Len(data) <= 2 THEN <<"/">> ELSE Drop(data, 2), output)
      <3>1. CASE starts(<<"/", ".", "/">>)
        <4>1. Turn(w) = To(Drop(data, 2), output)
          <5>1. /\ ~starts(<<"/">> \o Up \o <<"/">>) /\ data # <<"/">> \o Up
                /\ data # <<"/", ".">>
            BY <1>1, <1>3, <1>4, <1>5, <1>6, <3>1
          <5> QED
            BY <1>2, <1>7, <3>1, <5>1
        <4> QED
          BY <1>1, <1>3, <3>1, <4>1
      <3>2. CASE ~starts(<<"/", ".", "/">>) /\ data = <<"/", ".">>
        <4>1. Turn(w) = To(<<"/">>, output)
          <5>1. ~starts(<<"/">> \o Up \o <<"/">>) /\ data # <<"/">> \o Up
            BY <1>1, <1>4, <1>5, <1>6, <3>2
          <5> QED
            BY <1>2, <1>7, <3>2, <5>1
        <4> QED
          BY <1>1, <1>4, <3>2, <4>1
      <3> QED
        BY <1>8, <1>10, <3>1, <3>2
    <2> QED
      BY <1>10, <2>1 DEF To, cut, w
  <1>11. CASE ~OneDotAt(data, 1) /\ TwoDotsAt(data, 1)
    <2>1. Turn(w) = To(IF Len(data) <= 3 THEN <<"/">> ELSE Drop(data, 3), Pop(output))
      BY <1>1, <1>2, <1>5, <1>6, <1>7, <1>8, <1>9, <1>11
    <2> QED
      BY <1>11, <2>1 DEF To, cut, w
  <1>12. CASE ~OneDotAt(data, 1) /\ ~TwoDotsAt(data, 1)
    <2>1. Turn(w) = To(Drop(data, cut), output \o SubSeq(data, 1, cut))
      BY <1>2, <1>7, <1>8, <1>9, <1>12
    <2> QED
      BY <1>12, <2>1 DEF To, cut, w
  <1> QED
    BY <1>10, <1>11, <1>12

\* The first segment of a path, with its slash, and what follows it.
LEMMA SegmentIs ==
  ASSUME NEW A, NEW data \in Seq(A), data # <<>>, data[1] = "/"
  PROVE  LET cut == First(Drop(data, 1), {"/"})
         IN /\ cut \in 1 .. Len(data)
            /\ \A i \in 2 .. cut : data[i] # "/"
            /\ cut < Len(data) => data[cut + 1] = "/"
            /\ SubSeq(data, 1, cut) \in Seq(A) /\ Len(SubSeq(data, 1, cut)) = cut
            /\ \A i \in 1 .. cut : SubSeq(data, 1, cut)[i] = data[i]
            /\ SubSeq(data, 1, cut) \o Drop(data, cut) = data
  <1> DEFINE rest == Drop(data, 1)
             cut == First(rest, {"/"})
  <1>1. Len(data) \in Nat /\ Len(data) >= 1
    OBVIOUS
  <1>2. /\ rest \in Seq(A) /\ Len(rest) = Len(data) - 1
        /\ \A i \in 1 .. Len(data) - 1 : rest[i] = data[1 + i]
    BY <1>1, DropIs
  <1> HIDE DEF rest
  <1>3. /\ cut \in 1 .. Len(rest) + 1
        /\ cut <= Len(rest) => rest[cut] = "/"
        /\ \A i \in 1 .. Len(rest) : i < cut => rest[i] # "/"
    BY <1>2, FirstIs
  <1> HIDE DEF cut
  <1>4. cut \in 1 .. Len(data) /\ (cut < Len(data) => data[cut + 1] = "/")
    BY <1>1, <1>2, <1>3
  <1>5. ASSUME NEW i \in 2 .. cut PROVE data[i] # "/"
    <2>1. i - 1 \in 1 .. Len(rest) /\ i - 1 < cut /\ rest[i - 1] = data[i]
      BY <1>1, <1>2, <1>4
    <2> QED
      BY <1>3, <2>1
  <1>6. /\ SubSeq(data, 1, cut) \in Seq(A) /\ Len(SubSeq(data, 1, cut)) = cut
        /\ \A i \in 1 .. cut : SubSeq(data, 1, cut)[i] = data[i]
    BY <1>1, <1>4
  <1>7. SubSeq(data, 1, cut) \o Drop(data, cut) = data
    BY <1>1, <1>4, ConcatAdjacentSubSeq, SubSeqFull DEF Drop
  <1> QED
    BY <1>4, <1>5, <1>6, <1>7 DEF cut, rest

\* A turn takes something off a path, and puts out no dot segment.
LEMMA TurnKeeps ==
  ASSUME NEW A, "/" \in A, NEW data \in Seq(A), NEW output \in Seq(A),
         data # <<>>, Rooted(data), Rooted(output), Clean(output)
  PROVE  LET next == Turn([data |-> data, output |-> output])
         IN next \in Walks(A) /\ Len(next.data) < Len(data)
  <1> DEFINE cut == First(Drop(data, 1), {"/"})
             segment == SubSeq(data, 1, cut)
             next == Turn([data |-> data, output |-> output])
             To(rest, text) == [data |-> rest, output |-> text]
  <1> HIDE DEF next
  <1>1. data[1] = "/" /\ Len(data) \in Nat /\ Len(data) >= 1
    BY DEF Rooted
  <1>2. <<"/">> \in Seq(A) /\ Rooted(<<"/">>) /\ Len(<<"/">>) <= 1
    BY DEF Rooted
  <1>3. CASE OneDotAt(data, 1)
    <2> DEFINE rest == IF Len(data) <= 2 THEN <<"/">> ELSE Drop(data, 2)
    <2>1. Len(data) >= 2
      BY <1>1, <1>3 DEF OneDotAt
    <2>2. next = To(rest, output)
      BY <1>1, <1>3, TurnIs DEF next
    <2>3. rest \in Seq(A) /\ Rooted(rest) /\ Len(rest) < Len(data)
      <3>1. CASE Len(data) <= 2
        BY <1>2, <2>1, <3>1
      <3>2. CASE Len(data) > 2
        <4>1. /\ Drop(data, 2) \in Seq(A) /\ Len(Drop(data, 2)) = Len(data) - 2
              /\ Drop(data, 2)[1] = data[3]
          BY <1>1, <3>2 DEF Drop
        <4> QED
          BY <1>1, <1>3, <3>2, <4>1 DEF Rooted, OneDotAt
      <3>3. Len(data) <= 2 \/ Len(data) > 2
        BY <1>1, <2>1
      <3> QED
        BY <3>1, <3>2, <3>3, Zenon
    <2> HIDE DEF rest
    <2> QED
      BY <2>2, <2>3 DEF Walks, next
  <1>4. CASE ~OneDotAt(data, 1) /\ TwoDotsAt(data, 1)
    <2> DEFINE rest == IF Len(data) <= 3 THEN <<"/">> ELSE Drop(data, 3)
    <2>1. Len(data) >= 3
      BY <1>1, <1>4 DEF TwoDotsAt
    <2>2. next = To(rest, Pop(output))
      BY <1>1, <1>4, TurnIs DEF next
    <2>3. rest \in Seq(A) /\ Rooted(rest) /\ Len(rest) < Len(data)
      <3>1. CASE Len(data) <= 3
        BY <1>2, <2>1, <3>1
      <3>2. CASE Len(data) > 3
        <4>1. /\ Drop(data, 3) \in Seq(A) /\ Len(Drop(data, 3)) = Len(data) - 3
              /\ Drop(data, 3)[1] = data[4]
          BY <1>1, <3>2 DEF Drop
        <4> QED
          BY <1>1, <1>4, <3>2, <4>1 DEF Rooted, TwoDotsAt
      <3>3. Len(data) <= 3 \/ Len(data) > 3
        BY <1>1, <2>1
      <3> QED
        BY <3>1, <3>2, <3>3, Zenon
    <2>4. Pop(output) \in Seq(A) /\ Rooted(Pop(output)) /\ Clean(Pop(output))
      BY PopKeeps
    <2> HIDE DEF rest
    <2> QED
      BY <2>2, <2>3, <2>4 DEF Walks, next
  <1>5. CASE ~OneDotAt(data, 1) /\ ~TwoDotsAt(data, 1)
    <2> DEFINE text == output \o segment
    <2>1. next = To(Drop(data, cut), text)
      BY <1>1, <1>5, TurnIs DEF next
    <2>2. /\ cut \in 1 .. Len(data)
          /\ \A i \in 2 .. cut : data[i] # "/"
          /\ cut < Len(data) => data[cut + 1] = "/"
          /\ segment \in Seq(A) /\ Len(segment) = cut
          /\ \A i \in 1 .. cut : segment[i] = data[i]
      BY <1>1, SegmentIs
    <2> HIDE DEF cut, segment
    <2>3. /\ Drop(data, cut) \in Seq(A) /\ Rooted(Drop(data, cut))
          /\ Len(Drop(data, cut)) < Len(data)
      <3>1. /\ Drop(data, cut) \in Seq(A) /\ Len(Drop(data, cut)) = Len(data) - cut
            /\ \A i \in 1 .. Len(data) - cut : Drop(data, cut)[i] = data[cut + i]
        BY <1>1, <2>2 DEF Drop
      <3> QED
        <4>1. Drop(data, cut) # <<>> => Len(data) - cut >= 1
          BY <3>1, NotEmpty
        <4>2. Drop(data, cut) # <<>> => Drop(data, cut)[1] = "/"
          BY <1>1, <2>2, <3>1, <4>1
        <4> QED
          BY <1>1, <2>2, <3>1, <4>2 DEF Rooted
    <2>4. /\ text \in Seq(A) /\ Len(text) = Len(output) + cut
          /\ \A i \in 1 .. Len(output) : text[i] = output[i]
          /\ \A i \in 1 .. cut : text[Len(output) + i] = data[i]
          /\ Len(output) \in Nat
      BY <1>1, <2>2
    <2> HIDE DEF text
    <2>5. Rooted(text)
      <3>1. CASE output = <<>>
        BY <1>1, <2>2, <2>4, <3>1 DEF Rooted
      <3>2. CASE output # <<>>
        <4>1. 1 \in 1 .. Len(output) /\ output[1] = "/"
          BY <3>2, NotEmpty DEF Rooted
        <4> QED
          BY <2>4, <4>1 DEF Rooted
      <3> QED
        BY <3>1, <3>2
    <2>6. Clean(text)
      <3> SUFFICES ASSUME NEW i \in 1 .. Len(text), text[i] = "/"
                   PROVE  ~DotAt(text, i)
        BY DEF Clean
      <3>1. CASE i <= Len(output)
        <4>1. i \in 1 .. Len(output) /\ output[i] = "/"
          BY <2>2, <2>4, <3>1
        <4>2. ~DotAt(output, i)
          BY <4>1 DEF Clean
        <4>3. text[Len(output) + 1] = "/"
          BY <1>1, <2>2, <2>4
        <4>4. \A j \in 1 .. 3 : i + j <= Len(output) => text[i + j] = output[i + j]
          BY <2>4, <4>1
        <4>5. ~OneDotAt(text, i)
          BY <2>2, <2>4, <4>1, <4>2, <4>3, <4>4 DEF DotAt, OneDotAt
        <4>6. ~TwoDotsAt(text, i)
          BY <2>2, <2>4, <4>1, <4>2, <4>3, <4>4 DEF DotAt, TwoDotsAt
        <4> QED
          BY <4>5, <4>6 DEF DotAt
      <3>2. CASE i > Len(output)
        <4>1. i = Len(output) + 1
          <5>1. i - Len(output) \in 1 .. cut /\ text[i] = data[i - Len(output)]
            <6> DEFINE j == i - Len(output)
            <6>1. j \in 1 .. cut /\ Len(output) + j = i
              BY <2>2, <2>4, <3>2
            <6> QED
              BY <2>4, <6>1
          <5> QED
            BY <2>2, <2>4, <5>1
        <4>2. \A j \in 1 .. 3 : 1 + j <= cut => text[i + j] = data[1 + j]
          <5> TAKE j \in 1 .. 3
          <5>1. i + j = Len(output) + (1 + j)
            BY <2>4, <4>1
          <5> QED
            BY <2>2, <2>4, <5>1
        <4>3. Len(text) = i + cut - 1 /\ i \in Nat
          BY <2>2, <2>4, <4>1
        <4>4. ~OneDotAt(text, i)
          <5>1. OneDotAt(text, i) => OneDotAt(data, 1)
            BY <1>1, <2>2, <4>2, <4>3 DEF OneDotAt
          <5> QED
            BY <1>5, <5>1
        <4>5. ~TwoDotsAt(text, i)
          <5>1. TwoDotsAt(text, i) => TwoDotsAt(data, 1)
            BY <1>1, <2>2, <4>2, <4>3 DEF TwoDotsAt
          <5> QED
            BY <1>5, <5>1
        <4> QED
          BY <4>4, <4>5 DEF DotAt
      <3> QED
        BY <2>4, <3>1, <3>2
    <2> QED
      BY <2>1, <2>3, <2>4, <2>5, <2>6 DEF Walks, next
  <1> QED
    BY <1>3, <1>4, <1>5 DEF next

\* A walk whose path has no dot segment only moves it to the output.
LEMMA TurnMoves ==
  ASSUME NEW A, NEW data \in Seq(A), NEW output \in Seq(A),
         data # <<>>, Rooted(data), Clean(data)
  PROVE  LET next == Turn([data |-> data, output |-> output])
         IN Clean(next.data) /\ next.output \o next.data = output \o data
  <1> DEFINE cut == First(Drop(data, 1), {"/"})
             segment == SubSeq(data, 1, cut)
             rest == Drop(data, cut)
             next == Turn([data |-> data, output |-> output])
  <1> HIDE DEF next
  <1>1. data[1] = "/" /\ Len(data) \in Nat /\ Len(data) >= 1
    BY DEF Rooted
  <1>2. ~OneDotAt(data, 1) /\ ~TwoDotsAt(data, 1)
    BY <1>1 DEF Clean, DotAt
  <1>3. next = [data |-> rest, output |-> output \o segment]
    BY <1>1, <1>2, TurnIs DEF next
  <1>4. cut \in 1 .. Len(data) /\ segment \in Seq(A) /\ segment \o rest = data
    BY <1>1, SegmentIs
  <1> HIDE DEF cut, segment
  <1>5. /\ rest \in Seq(A) /\ Len(rest) = Len(data) - cut
        /\ \A i \in 1 .. Len(data) - cut : rest[i] = data[cut + i]
    BY <1>1, <1>4 DEF Drop
  <1> HIDE DEF rest
  <1>6. Clean(rest)
    <2> SUFFICES ASSUME NEW i \in 1 .. Len(rest), rest[i] = "/"
                 PROVE  ~DotAt(rest, i)
      BY DEF Clean
    <2> DEFINE k == cut + i
    <2>1. k \in 1 .. Len(data) /\ data[k] = "/"
      BY <1>1, <1>4, <1>5
    <2>2. ~OneDotAt(data, k) /\ ~TwoDotsAt(data, k)
      BY <2>1 DEF Clean, DotAt
    <2>3. \A j \in 1 .. 3 : i + j <= Len(rest) => rest[i + j] = data[k + j]
      <3> TAKE j \in 1 .. 3
      <3> QED
        BY <1>1, <1>4, <1>5
    <2>4. Len(data) = Len(rest) + cut
      BY <1>1, <1>4, <1>5
    <2>5. OneDotAt(rest, i) => OneDotAt(data, k)
      BY <1>4, <1>5, <2>3, <2>4 DEF OneDotAt
    <2>6. TwoDotsAt(rest, i) => TwoDotsAt(data, k)
      BY <1>4, <1>5, <2>3, <2>4 DEF TwoDotsAt
    <2> QED
      BY <2>2, <2>5, <2>6 DEF DotAt
  <1>7. (output \o segment) \o rest = output \o (segment \o rest)
    <2>1. output \in Seq(A) /\ segment \in Seq(A) /\ rest \in Seq(A)
      BY <1>4, <1>5
    <2> QED
      BY <2>1, ConcatAssociative
  <1>8. next.data = rest /\ next.output = output \o segment
    BY <1>3
  <1>9. next.output \o next.data = output \o data
    BY <1>4, <1>7, <1>8, Zenon
  <1> QED
    BY <1>6, <1>8, <1>9 DEF next

\* When nothing is left of the path, the loop has ended.
LEMMA TurnEnds ==
  ASSUME NEW output
  PROVE  LET walk == [data |-> <<>>, output |-> output] IN Turn(walk) = walk
  BY DEF Turn, IsPrefix, Up

Begin(path) == [data |-> path, output |-> <<>>]

\* The walk that the loop takes.
LEMMA LoopIs ==
  ASSUME NEW A, "/" \in A, NEW path \in Seq(A), Rooted(path)
  PROVE  \E f \in [Nat -> Walks(A)] :
           /\ f[0] = Begin(path) /\ \A n \in Nat : f[n + 1] = Turn(f[n])
           /\ RemoveDotSegments(path) = f[Len(path)].output
  <1> DEFINE Body(g) ==
               [n \in Nat |-> IF n = 0 THEN Begin(path) ELSE Turn(g[n - 1])]
             f == CHOOSE g : g = Body(g)
             next == [w \in Walks(A) |-> Turn(w)]
  <1>1. Begin(path) \in Walks(A)
    BY DEF Begin, Walks, Rooted, Clean
  <1>2. next \in [Walks(A) -> Walks(A)]
    <2>1. ASSUME NEW w \in Walks(A) PROVE Turn(w) \in Walks(A)
      <3>1. /\ w = [data |-> w.data, output |-> w.output]
            /\ w.data \in Seq(A) /\ w.output \in Seq(A)
            /\ Rooted(w.data) /\ Rooted(w.output) /\ Clean(w.output)
        BY DEF Walks
      <3>2. CASE w.data = <<>>
        BY <3>1, <3>2, TurnEnds
      <3>3. CASE w.data # <<>>
        BY <3>1, <3>3, TurnKeeps
      <3> QED
        BY <3>2, <3>3
    <2> QED
      BY <2>1
  <1>3. PICK g \in [Nat -> Walks(A)] : Iterates(g, next, Begin(path))
    <2> HIDE DEF next
    <2> QED
      BY <1>1, <1>2, IterationExists
  <1>4. g = Body(g)
    <2> USE DEF Iterates
    <2>1. ASSUME NEW n \in Nat, n # 0 PROVE g[n] = Turn(g[n - 1])
      <3>1. n - 1 \in Nat /\ (n - 1) + 1 = n
        BY <2>1
      <3>2. g[(n - 1) + 1] = next[g[n - 1]] /\ g[n - 1] \in Walks(A)
        BY <1>3, <3>1
      <3> QED
        BY <3>1, <3>2
    <2> QED
      BY <1>3, <2>1
  <1>5. f = Body(f)
    BY <1>4
  <1>6. RemoveDotSegments(path) = f[Len(path)].output
    BY DEF RemoveDotSegments, Begin
  <1> HIDE DEF f
  <1>7. f[0] = Begin(path)
    BY <1>5
  <1>8. ASSUME NEW n \in Nat PROVE f[n + 1] = Turn(f[n])
    <2>1. n + 1 \in Nat /\ n + 1 # 0 /\ (n + 1) - 1 = n
      OBVIOUS
    <2>2. f[n + 1] = Turn(f[(n + 1) - 1])
      BY <1>5, <2>1
    <2> QED
      BY <2>1, <2>2
  <1>9. \A n \in Nat : f[n] \in Walks(A)
    <2> DEFINE S == {n \in Nat : f[n] \in Walks(A)}
    <2>1. 0 \in S
      BY <1>1, <1>7
    <2>2. ASSUME NEW n \in S PROVE n + 1 \in S
      <3>1. next[f[n]] = Turn(f[n]) /\ next[f[n]] \in Walks(A)
        BY <1>2
      <3>2. n \in Nat /\ f[n + 1] = Turn(f[n])
        BY <1>8
      <3> QED
        BY <3>1, <3>2
    <2>3. S = Nat
      <3> HIDE DEF S
      <3>1. S \in SUBSET Nat
        BY DEF S
      <3> QED
        BY <2>1, <2>2, <3>1, SetInduction
    <2> QED
      BY <2>3
  <1>10. f \in [Nat -> Walks(A)]
    BY <1>5, <1>9
  <1> QED
    BY <1>6, <1>7, <1>8, <1>10

\* The loop ends with nothing left: every turn takes one symbol at least.
LEMMA LoopEnds ==
  ASSUME NEW A, "/" \in A, NEW path \in Seq(A), Rooted(path),
         NEW f \in [Nat -> Walks(A)],
         f[0] = Begin(path), \A n \in Nat : f[n + 1] = Turn(f[n])
  PROVE  f[Len(path)].data = <<>>
  <1> DEFINE data(n) == f[n].data
             output(n) == f[n].output
  <1>1. ASSUME NEW n \in Nat
        PROVE  /\ f[n] = [data |-> data(n), output |-> output(n)]
               /\ data(n) \in Seq(A) /\ output(n) \in Seq(A)
               /\ Rooted(data(n)) /\ Rooted(output(n)) /\ Clean(output(n))
    BY DEF Walks
  <1>2. ASSUME NEW n \in Nat, data(n) = <<>>
        PROVE  f[n + 1] = f[n]
    BY <1>1, <1>2, TurnEnds
  <1>3. ASSUME NEW n \in Nat, data(n) # <<>>
        PROVE  Len(data(n + 1)) < Len(data(n))
    <2> HIDE DEF data, output
    <2>1. LET next == Turn([data |-> data(n), output |-> output(n)])
          IN Len(next.data) < Len(data(n))
      BY <1>1, <1>3, TurnKeeps
    <2>2. Len(f[n + 1].data) < Len(data(n))
      BY <1>1, <2>1
    <2> QED
      BY <2>2 DEF data
  <1>4. data(0) = path /\ output(0) = <<>>
    BY DEF Begin
  <1>5. Len(path) \in Nat
    OBVIOUS
  <1>6. data(Len(path)) = <<>>
    <2> DEFINE S == {n \in Nat : data(n) = <<>> \/ Len(data(n)) + n <= Len(path)}
    <2> HIDE DEF data
    <2>1. 0 \in S
      BY <1>4, <1>5
    <2>2. ASSUME NEW n \in S PROVE n + 1 \in S
      <3>1. n \in Nat /\ n + 1 \in Nat /\ Len(data(n)) \in Nat /\ Len(data(n + 1)) \in Nat
        BY <1>1
      <3>2. CASE data(n) = <<>>
        <4>1. data(n + 1) = <<>>
          BY <1>2, <3>1, <3>2 DEF data
        <4> QED
          BY <3>1, <4>1
      <3>3. CASE data(n) # <<>>
        <4>1. Len(data(n)) + n <= Len(path) /\ Len(data(n + 1)) < Len(data(n))
          BY <1>3, <3>1, <3>3
        <4> QED
          BY <1>5, <3>1, <4>1
      <3> QED
        BY <3>2, <3>3
    <2>3. S = Nat
      <3> HIDE DEF S
      <3>1. S \in SUBSET Nat
        BY DEF S
      <3> QED
        BY <2>1, <2>2, <3>1, SetInduction
    <2>4. data(Len(path)) = <<>> \/ Len(data(Len(path))) + Len(path) <= Len(path)
      BY <1>5, <2>3
    <2>5. data(Len(path)) \in Seq(A)
      BY <1>1, <1>5
    <2> QED
      BY <1>5, <2>4, <2>5, NotEmpty
  <1> QED
    BY <1>6

\* What the loop puts out has no dot segment.
LEMMA DotsRemoved ==
  ASSUME NEW A, "/" \in A, NEW path \in Seq(A), Rooted(path)
  PROVE  /\ RemoveDotSegments(path) \in Seq(A)
         /\ Rooted(RemoveDotSegments(path)) /\ Clean(RemoveDotSegments(path))
         /\ Clean(path) => RemoveDotSegments(path) = path
  <1>1. PICK f \in [Nat -> Walks(A)] :
          /\ f[0] = Begin(path) /\ \A n \in Nat : f[n + 1] = Turn(f[n])
          /\ RemoveDotSegments(path) = f[Len(path)].output
    BY LoopIs
  <1> DEFINE data(n) == f[n].data
             output(n) == f[n].output
  <1>2. ASSUME NEW n \in Nat
        PROVE  /\ f[n] = [data |-> data(n), output |-> output(n)]
               /\ data(n) \in Seq(A) /\ output(n) \in Seq(A)
               /\ Rooted(data(n)) /\ Rooted(output(n)) /\ Clean(output(n))
    BY DEF Walks
  <1>3. ASSUME NEW n \in Nat, data(n) = <<>>
        PROVE  f[n + 1] = f[n]
    BY <1>1, <1>2, <1>3, TurnEnds
  <1>4. ASSUME NEW n \in Nat, data(n) # <<>>, Clean(data(n))
        PROVE  Clean(data(n + 1)) /\ output(n + 1) \o data(n + 1) = output(n) \o data(n)
    <2> HIDE DEF data, output
    <2>1. LET next == Turn([data |-> data(n), output |-> output(n)])
          IN Clean(next.data) /\ next.output \o next.data = output(n) \o data(n)
      BY <1>2, <1>4, TurnMoves
    <2>2. /\ Clean(f[n + 1].data)
          /\ f[n + 1].output \o f[n + 1].data = output(n) \o data(n)
      BY <1>1, <1>2, <2>1
    <2> QED
      BY <2>2 DEF data, output
  <1>5. data(0) = path /\ output(0) = <<>>
    BY <1>1 DEF Begin
  <1>6. Len(path) \in Nat
    OBVIOUS
  <1>7. data(Len(path)) = <<>>
    BY <1>1, LoopEnds
  <1>8. ASSUME Clean(path) PROVE RemoveDotSegments(path) = path
    <2> DEFINE S == {n \in Nat : Clean(data(n)) /\ output(n) \o data(n) = path}
    <2> HIDE DEF data, output
    <2>1. 0 \in S
      <3>1. <<>> \o path = path
        BY ConcatEmptySeq
      <3> QED
        BY <1>5, <1>8, <3>1
    <2>2. ASSUME NEW n \in S PROVE n + 1 \in S
      <3>1. n \in Nat /\ n + 1 \in Nat /\ Clean(data(n)) /\ output(n) \o data(n) = path
        OBVIOUS
      <3>2. CASE data(n) = <<>>
        <4>1. data(n + 1) = data(n) /\ output(n + 1) = output(n)
          BY <1>3, <3>1, <3>2 DEF data, output
        <4> QED
          BY <3>1, <4>1
      <3>3. CASE data(n) # <<>>
        BY <1>4, <3>1, <3>3
      <3> QED
        BY <3>2, <3>3
    <2>3. S = Nat
      <3> HIDE DEF S
      <3>1. S \in SUBSET Nat
        BY DEF S
      <3> QED
        BY <2>1, <2>2, <3>1, SetInduction
    <2>4. output(Len(path)) \o data(Len(path)) = path
      BY <1>6, <2>3
    <2>5. output(Len(path)) \o <<>> = output(Len(path))
      BY <1>2, <1>6, ConcatEmptySeq
    <2>6. output(Len(path)) = path
      BY <1>7, <2>4, <2>5
    <2> QED
      BY <1>1, <2>6 DEF output
  <1> QED
    BY <1>1, <1>2, <1>6, <1>8

-----------------------------------------------------------------------------
(* Spellings *)

Plain == Letters \cup Digits \cup {"."}
Delimiters == {".", "/", ":", "?", "#", "@", "[", "]"}
Decoded == (Symbols \ {"%2e", "%2E", "%61", "%2f"})
Lowered == (Symbols \ {"H", "HTTPS", "::A"})

\* Putting a symbol in lower case does not change its kind.
LEMMA LowerIs ==
  ASSUME NEW s
  PROVE  /\ Lower(Lower(s)) = Lower(s)
         /\ s \in Symbols => Lower(s) \in Lowered
         /\ s \in Lowered => Lower(s) = s
         /\ Lower(s) \in Plain <=> s \in Plain
         /\ Lower(s) \in Letters <=> s \in Letters
         /\ Lower(s) \in Addresses <=> s \in Addresses
         /\ \A d \in Delimiters \cup Digits : Lower(s) = d <=> s = d
  BY DEF Lower, Lowered, Symbols, Plain, Letters, Digits, Addresses, Encoded, Delimiters

\* Decoding a symbol makes no delimiter but a dot.
LEMMA DecodeIs ==
  ASSUME NEW s
  PROVE  /\ Decode(Decode(s)) = Decode(s)
         /\ s \in Symbols => Decode(s) \in Decoded
         /\ s \in Decoded => Decode(s) = s
         /\ \A d \in Delimiters \ {"."} : Decode(s) = d <=> s = d
  BY DEF Decode, Decoded, Symbols, Letters, Digits, Addresses, Encoded, Delimiters

\* Texts are lowered and decoded symbol by symbol.
LEMMA EachIs ==
  ASSUME NEW A, NEW text \in Seq(A)
  PROVE  /\ DOMAIN text = 1 .. Len(text) /\ Len(text) \in Nat
         /\ Len(Each(Lower, text)) = Len(text)
         /\ \A i \in 1 .. Len(text) : Each(Lower, text)[i] = Lower(text[i])
         /\ Len(NormalizePercent(text)) = Len(text)
         /\ \A i \in 1 .. Len(text) : NormalizePercent(text)[i] = Decode(text[i])
         /\ text \in Seq(Symbols) => Each(Lower, text) \in Seq(Lowered)
         /\ text \in Seq(Symbols) => NormalizePercent(text) \in Seq(Decoded)
  <1>1. DOMAIN text = 1 .. Len(text) /\ Len(text) \in Nat /\ \A i \in 1 .. Len(text) : text[i] \in A
    OBVIOUS
  <1>2. Each(Lower, text) = [i \in 1 .. Len(text) |-> Lower(text[i])]
    BY <1>1 DEF Each
  <1>3. NormalizePercent(text) = [i \in 1 .. Len(text) |-> Decode(text[i])]
    BY <1>1 DEF NormalizePercent, Each
  <1>4. ASSUME text \in Seq(Symbols)
        PROVE  \A i \in 1 .. Len(text) : Lower(text[i]) \in Lowered /\ Decode(text[i]) \in Decoded
    <2>1. \A i \in 1 .. Len(text) : text[i] \in Symbols
      BY <1>4
    <2> QED
      BY <2>1, LowerIs, DecodeIs
  <1> QED
    BY <1>1, <1>2, <1>3, <1>4

\* A text over some symbols is one over more of them.
LEMMA SeqWithin ==
  ASSUME NEW A, NEW B, A \subseteq B, NEW text \in Seq(A)
  PROVE  text \in Seq(B)
  <1>1. \A i \in 1 .. Len(text) : text[i] \in B
    OBVIOUS
  <1> QED
    BY <1>1

\* What is spelled in the canonical way is left as it is.
LEMMA Spelled ==
  /\ \A text \in Seq(Lowered) : Each(Lower, text) = text
  /\ \A text \in Seq(Decoded) : NormalizePercent(text) = text
  <1>1. Lowered \subseteq Symbols /\ Decoded \subseteq Symbols
    BY DEF Lowered, Decoded
  <1>2. ASSUME NEW text \in Seq(Lowered) PROVE Each(Lower, text) = text
    <2>1. text \in Seq(Symbols)
      BY <1>1, SeqWithin
    <2>2. Each(Lower, text) \in Seq(Lowered) /\ Len(Each(Lower, text)) = Len(text)
      BY <2>1, EachIs
    <2>3. \A i \in 1 .. Len(text) : text[i] \in Lowered
      OBVIOUS
    <2>4. \A i \in 1 .. Len(text) : Each(Lower, text)[i] = text[i]
      BY <2>3, EachIs, LowerIs
    <2> QED
      BY <2>2, <2>4, SeqEqual
  <1>3. ASSUME NEW text \in Seq(Decoded) PROVE NormalizePercent(text) = text
    <2>1. text \in Seq(Symbols)
      BY <1>1, SeqWithin
    <2>2. /\ NormalizePercent(text) \in Seq(Decoded)
          /\ Len(NormalizePercent(text)) = Len(text)
      BY <2>1, EachIs
    <2>3. \A i \in 1 .. Len(text) : text[i] \in Decoded
      OBVIOUS
    <2>4. \A i \in 1 .. Len(text) : NormalizePercent(text)[i] = text[i]
      BY <2>3, EachIs, DecodeIs
    <2> QED
      BY <2>2, <2>4, SeqEqual
  <1> QED
    BY <1>2, <1>3

-----------------------------------------------------------------------------
(* The parts of a URL *)

Mark == <<":", "/", "/">>

Url(scheme, authority, path, query) ==
  scheme \o (Mark \o (authority \o (path \o query)))

Cat(x, y) == x \o y

\* Texts are put together in any order.
LEMMA CatIs ==
  ASSUME NEW A, NEW x \in Seq(A), NEW y \in Seq(A), NEW z \in Seq(A)
  PROVE  Cat(x, y) \in Seq(A) /\ Cat(Cat(x, y), z) = Cat(x, Cat(y, z))
  <1>1. Cat(x, y) \in Seq(A)
    BY DEF Cat
  <1>2. Cat(Cat(x, y), z) = Cat(x, Cat(y, z))
    BY ConcatAssociative DEF Cat
  <1> QED
    BY <1>1, <1>2

Joined(scheme, authority, path, query) ==
  scheme \o Mark \o authority \o path \o query

\* The parts of a URL are put together in any order.
LEMMA UrlIs ==
  ASSUME NEW A, NEW scheme \in Seq(A), NEW authority \in Seq(A), NEW path \in Seq(A),
         NEW query \in Seq(A), Mark \in Seq(A)
  PROVE  Joined(scheme, authority, path, query) = Url(scheme, authority, path, query)
  <1> DEFINE left == Cat(scheme, Mark)
             right == Cat(path, query)
  <1>1. left \in Seq(A) /\ right \in Seq(A) /\ Cat(authority, right) \in Seq(A)
    BY CatIs
  <1>2. Cat(left, authority) \in Seq(A)
    BY <1>1, CatIs
  <1>3. Cat(Cat(Cat(left, authority), path), query) = Cat(Cat(left, authority), right)
    BY <1>2, CatIs
  <1>4. Cat(Cat(left, authority), right) = Cat(left, Cat(authority, right))
    BY <1>1, CatIs
  <1>5. Cat(left, Cat(authority, right)) = Cat(scheme, Cat(Mark, Cat(authority, right)))
    BY <1>1, CatIs
  <1>6. Cat(Cat(Cat(left, authority), path), query)
          = Cat(scheme, Cat(Mark, Cat(authority, right)))
    BY <1>3, <1>4, <1>5
  <1> QED
    BY <1>6, Zenon DEF Cat, Joined, Url

\* No part has a symbol in it at which the next one begins.
Apart(scheme, authority, path, query) ==
  /\ \A i \in 1 .. Len(scheme) : scheme[i] # ":"
  /\ \A i \in 1 .. Len(authority) : authority[i] \notin {"/", "?", "#"}
  /\ Rooted(path) /\ path # <<>>
  /\ \A i \in 1 .. Len(path) : path[i] \notin {"?", "#"}
  /\ \A i \in 1 .. Len(query) : query[i] # "#"
  /\ query # <<>> => query[1] = "?"

\* A URL that is put together of its parts is parsed into them.
LEMMA PartsOf ==
  ASSUME NEW A, NEW scheme \in Seq(A), NEW authority \in Seq(A), NEW path \in Seq(A),
         NEW query \in Seq(A), Mark \in Seq(A), Apart(scheme, authority, path, query)
  PROVE  LET text == Url(scheme, authority, path, query)
         IN /\ First(text, {":"}) <= Len(text) /\ Scheme(text) = scheme
            /\ AfterScheme(text) = Cat(<<"/", "/">>, Cat(authority, Cat(path, query)))
            /\ Authority(text) = authority /\ Remainder(text) = Cat(path, query)
            /\ Path(text) = path /\ Query(text) = query
  <1> DEFINE text == Url(scheme, authority, path, query)
             remainder == path \o query
             rest == authority \o remainder
             slashes == <<"/", "/">>
             after == slashes \o rest
             from == Mark \o rest
  <1> USE DEF Apart
  <1>1. remainder \in Seq(A) /\ rest \in Seq(A) /\ from \in Seq(A)
    OBVIOUS
  <1>2. text = scheme \o from
    BY DEF Url
  <1> HIDE DEF text, remainder, rest
  <1>3. from # <<>> /\ from[1] = ":"
    BY <1>1 DEF Mark
  <1>4. Drop(from, 1) = after /\ after \in Seq(A)
    <2>1. /\ after \in Seq(A) /\ Len(after) = Len(rest) + 2
          /\ Len(from) = Len(rest) + 3
          /\ \A i \in 1 .. Len(after) : after[i] = from[1 + i]
      BY <1>1 DEF Mark
    <2>2. /\ Drop(from, 1) \in Seq(A) /\ Len(Drop(from, 1)) = Len(from) - 1
          /\ \A i \in 1 .. Len(from) - 1 : Drop(from, 1)[i] = from[1 + i]
      <3>1. 1 \in 0 .. Len(from)
        <4>1. Len(rest) \in Nat
          BY <1>1
        <4> QED
          BY <2>1, <4>1
      <3> HIDE DEF from
      <3> QED
        BY <1>1, <3>1, DropIs
    <2> HIDE DEF after, from
    <2>3. Len(Drop(from, 1)) = Len(after)
      <3>1. Len(rest) \in Nat
        BY <1>1
      <3> HIDE DEF after, from
      <3>2. Len(Drop(from, 1)) = Len(from) - 1 /\ Len(from) = Len(rest) + 3
        BY <2>1, <2>2
      <3>3. Len(after) = Len(rest) + 2
        BY <2>1
      <3> QED
        BY <3>1, <3>2, <3>3
    <2>4. \A i \in 1 .. Len(after) : Drop(from, 1)[i] = after[i]
      <3>1. \A i \in 1 .. Len(Drop(from, 1)) : Drop(from, 1)[i] = from[1 + i]
        BY <2>2
      <3> QED
        BY <2>1, <2>3, <3>1
    <2> QED
      BY <2>1, <2>2, <2>3, <2>4, SeqEqual
  <1>5. Drop(after, 2) = rest
    <2>1. /\ Len(after) = Len(rest) + 2
          /\ \A i \in 1 .. Len(rest) : after[2 + i] = rest[i]
      BY <1>1
    <2>2. /\ Drop(after, 2) \in Seq(A) /\ Len(Drop(after, 2)) = Len(after) - 2
          /\ \A i \in 1 .. Len(after) - 2 : Drop(after, 2)[i] = after[2 + i]
      BY <1>1, <1>4, <2>1 DEF Drop
    <2> HIDE DEF after
    <2> QED
      BY <1>1, <2>1, <2>2, SeqEqual
  <1> HIDE DEF from, after
  <1>6. /\ Scheme(text) = scheme /\ From(text, {":"}) = from
        /\ First(text, {":"}) <= Len(text)
    <2>1. Until(text, {":"}) = scheme /\ From(text, {":"}) = from
      <3>1. \A i \in 1 .. Len(scheme) : scheme[i] \notin {":"}
        OBVIOUS
      <3>2. from # <<>> => from[1] \in {":"}
        BY <1>3
      <3> QED
        BY <1>1, <1>2, <3>1, <3>2, CutAt
    <2>2. text \in Seq(A)
      BY <1>1, <1>2
    <2>3. Len(from) >= 1 /\ Len(from) = Len(text) + 1 - First(text, {":"})
      BY <1>1, <1>3, <2>1, <2>2, FromIs, NotEmpty
    <2>4. First(text, {":"}) \in 1 .. Len(text) + 1 /\ Len(text) \in Nat
      BY <2>2, FirstIs
    <2> QED
      BY <2>1, <2>3, <2>4 DEF Scheme
  <1>7. AfterScheme(text) = after
    BY <1>4, <1>6 DEF AfterScheme
  <1>8. remainder # <<>> /\ remainder[1] = "/"
    BY NotEmpty DEF remainder, Rooted
  <1>9. Authority(text) = authority /\ Remainder(text) = remainder
    <2>1. Until(rest, {"/", "?", "#"}) = authority /\ From(rest, {"/", "?", "#"}) = remainder
      BY <1>1, <1>8, CutAt DEF rest
    <2> QED
      BY <1>5, <1>7, <2>1 DEF Authority, Remainder
  <1>10. Path(text) = path
    BY <1>9, CutAt DEF Path, remainder
  <1>11. Query(text) = query
    <2>1. \A i \in 1 .. Len(remainder) : remainder[i] # "#"
      BY DEF remainder
    <2>2. Until(remainder \o <<>>, {"#"}) = remainder
      <3>1. \A i \in 1 .. Len(remainder) : remainder[i] \notin {"#"}
        BY <2>1
      <3>2. <<>> \in Seq(A)
        OBVIOUS
      <3> QED
        BY <1>1, <3>1, <3>2, CutAt
    <2>3. remainder \o <<>> = remainder
      BY <1>1, ConcatEmptySeq
    <2>4. From(remainder, {"?"}) = query
      BY CutAt DEF remainder
    <2> QED
      BY <1>9, <2>2, <2>3, <2>4 DEF Query
  <1> QED
    BY <1>6, <1>7, <1>9, <1>10, <1>11 DEF text, after, rest, remainder, Cat

-----------------------------------------------------------------------------
(* Authorities *)

\* The provers do not conclude of themselves that a length is a number.
LEMMA Three ==
  \A n \in Nat : n >= 3 /\ n <= 3 => n = 3
  OBVIOUS

Bracketed(host) ==
  /\ Len(host) >= 3 /\ Len(host) <= 3
  /\ host[1] = "[" /\ host[2] \in Addresses /\ host[3] = "]"

Named(host) == host # <<>> /\ Labelled(host) /\ host[Len(host)] # "."

\* An IPv6 host is told by its first symbol.
LEMMA BracketIs ==
  ASSUME NEW A, NEW text \in Seq(A)
  PROVE  IsPrefix(<<"[">>, text) <=> text # <<>> /\ text[1] = "["
  BY DEF IsPrefix

\* A text is one over the symbols it has.
LEMMA SymbolsOf ==
  ASSUME NEW A, NEW B, NEW text \in Seq(A), \A i \in 1 .. Len(text) : text[i] \in B
  PROVE  text \in Seq(B)
  OBVIOUS

\* Of an authority, what follows the last "@" is kept.
LEMMA HostPortIs ==
  ASSUME NEW A, NEW authority \in Seq(A)
  PROVE  /\ HostPort(authority) \in Seq(A)
         /\ (\A i \in 1 .. Len(authority) : authority[i] # "@")
              => HostPort(authority) = authority
  <1> DEFINE at == {i \in DOMAIN authority : authority[i] = "@"} \cup {0}
             k == Max(at)
  <1>1. DOMAIN authority = 1 .. Len(authority) /\ Len(authority) \in Nat
    OBVIOUS
  <1>2. \E x \in at : \A y \in at : x >= y
    <2> DEFINE n == Len(authority)
    <2>1. at \subseteq Nat /\ at # {} /\ n \in Nat /\ \A x \in at : x <= n
      BY <1>1
    <2> HIDE DEF at, n
    <2> QED
      BY <2>1, GreatestNumber
  <1>3. k \in at /\ \A y \in at : k >= y
    BY <1>2 DEF Max
  <1> HIDE DEF k
  <1>4. HostPort(authority) = Drop(authority, k)
    BY DEF HostPort, k
  <1>5. k \in 0 .. Len(authority)
    BY <1>1, <1>3
  <1>6. HostPort(authority) \in Seq(A)
    BY <1>4, <1>5 DEF Drop
  <1>7. ASSUME \A i \in 1 .. Len(authority) : authority[i] # "@"
        PROVE  HostPort(authority) = authority
    <2>1. k = 0
      BY <1>1, <1>3, <1>7
    <2>2. Drop(authority, 0) = SubSeq(authority, 1, Len(authority))
      BY DEF Drop
    <2> QED
      BY <1>4, <2>1, <2>2, SubSeqFull
  <1> QED
    BY <1>6, <1>7

\* Host and port part make up the text between them.
LEMMA HostParts ==
  ASSUME NEW A, NEW hostport \in Seq(A)
  PROVE  /\ Host(hostport) \in Seq(A) /\ PortPart(hostport) \in Seq(A)
         /\ Len(Host(hostport)) <= Len(hostport)
         /\ \A i \in 1 .. Len(Host(hostport)) : Host(hostport)[i] = hostport[i]
  <1>1. First(hostport, {"]"}) \in 1 .. Len(hostport) + 1 /\ Len(hostport) \in Nat
    BY FirstIs
  <1> DEFINE n == Min({First(hostport, {"]"}), Len(hostport)})
  <1>2. n \in 0 .. Len(hostport)
    <2>1. n = First(hostport, {"]"}) \/ n = Len(hostport)
      <3>1. \E x \in {First(hostport, {"]"}), Len(hostport)} :
              \A y \in {First(hostport, {"]"}), Len(hostport)} : x <= y
        BY <1>1
      <3> QED
        BY <3>1 DEF Min
    <2>2. First(hostport, {"]"}) <= Len(hostport) \/ n = Len(hostport)
      <3>1. \A x, y \in Nat : x > y => Min({x, y}) = y
        BY DEF Min
      <3> QED
        BY <1>1, <3>1
    <2> QED
      BY <1>1, <2>1, <2>2
  <1> HIDE DEF n
  <1>3. PICK m \in 0 .. Len(hostport) : Host(hostport) = SubSeq(hostport, 1, m)
    <2>1. CASE IsPrefix(<<"[">>, hostport)
      BY <1>2, <2>1 DEF Host, n
    <2>2. CASE ~IsPrefix(<<"[">>, hostport)
      <3>1. First(hostport, {":"}) - 1 \in 0 .. Len(hostport)
        BY <1>1, FirstIs
      <3> QED
        BY <2>2, <3>1 DEF Host, Until
    <2> QED
      BY <2>1, <2>2
  <1>4. /\ Host(hostport) \in Seq(A) /\ Len(Host(hostport)) = m
        /\ \A i \in 1 .. m : Host(hostport)[i] = hostport[i]
    BY <1>1, <1>3
  <1>5. PortPart(hostport) \in Seq(A)
    BY <1>1, <1>4 DEF PortPart, Drop
  <1> QED
    BY <1>1, <1>4, <1>5

\* Labels, symbol by symbol.
LEMMA LabelledIs ==
  ASSUME NEW A, NEW host \in Seq(A)
  PROVE  Labelled(host) <=>
           \A i \in 1 .. Len(host) :
             host[i] \in Plain /\ (host[i] = "." => i > 1 /\ host[i - 1] # ".")
  BY DEF Labelled, Plain

\* Brackets and colons are no part of a name or an address.
LEMMA LoweredSymbols ==
  /\ Lowered \subseteq Symbols
  /\ "[" \in Lowered /\ "]" \in Lowered
  /\ "[" \notin Plain \cup Addresses /\ ":" \notin Plain \cup Addresses
  /\ "]" \notin Plain \cup Addresses
  BY DEF Lowered, Symbols, Letters, Digits, Addresses, Encoded, Plain

\* A canonical host is an address in brackets or labels without a root dot.
LEMMA CanonicalHostIs ==
  ASSUME NEW hostport \in Seq(Symbols), CanonicalHost(hostport) # Malformed
  PROVE  LET host == CanonicalHost(hostport)
         IN host \in Seq(Lowered) /\ (Bracketed(host) \/ Named(host))
  <1> DEFINE host == CanonicalHost(hostport)
             given == Host(hostport)
  <1>1. given \in Seq(Symbols) /\ Len(given) \in Nat
    BY HostParts
  <1>2. \A i \in 1 .. Len(given) : given[i] = hostport[i]
    BY HostParts
  <1> HIDE DEF given
  <1>3. Malformed = <<>>
    BY DEF Malformed
  <1>4. CASE IsPrefix(<<"[">>, hostport)
    <2>1. /\ hostport[1] = "[" /\ Last(given) = "]" /\ host = CanonicalIpv6(given)
          /\ CanonicalIpv6(given) # Malformed
      BY <1>4, BracketIs DEF CanonicalHost, given
    <2>2. Len(given) = 3 /\ given[2] \in Addresses /\ host = Each(Lower, given)
      BY <2>1 DEF CanonicalIpv6
    <2>3. /\ Len(given) >= 3 /\ Len(given) <= 3
          /\ given[1] = "[" /\ given[2] \in Addresses /\ given[3] = "]"
      BY <1>2, <2>1, <2>2 DEF Last
    <2>4. host \in Seq(Lowered) /\ Len(host) >= 3 /\ Len(host) <= 3
      <3>1. Each(Lower, given) \in Seq(Lowered) /\ Len(Each(Lower, given)) = Len(given)
        BY <1>1, EachIs
      <3>2. host = Each(Lower, given)
        BY <2>2
      <3> HIDE DEF host
      <3> QED
        BY <2>3, <3>1, <3>2
    <2>5. host[1] = Lower("[") /\ host[2] = Lower(given[2]) /\ host[3] = Lower("]")
      <3>1. \A i \in 1 .. Len(given) : Each(Lower, given)[i] = Lower(given[i])
        BY <1>1, EachIs
      <3>2. host = Each(Lower, given)
        BY <2>2
      <3> HIDE DEF host
      <3>3. 1 \in 1 .. Len(given) /\ 2 \in 1 .. Len(given) /\ 3 \in 1 .. Len(given)
        BY <1>1, <2>3
      <3>4. /\ host[1] = Lower(given[1]) /\ host[2] = Lower(given[2])
            /\ host[3] = Lower(given[3])
        BY <3>1, <3>2, <3>3
      <3> QED
        BY <2>3, <3>4, Zenon
    <2>6. host[1] = "[" /\ host[2] \in Addresses /\ host[3] = "]"
      BY <2>3, <2>5, LowerIs, LoweredSymbols
    <2> HIDE DEF host
    <2>7. Bracketed(host)
      BY <2>4, <2>6 DEF Bracketed
    <2> QED
      BY <2>4, <2>7 DEF host
  <1>5. CASE ~IsPrefix(<<"[">>, hostport)
    <2>1. host = CanonicalDnsHost(given) /\ CanonicalDnsHost(given) # Malformed
      BY <1>5 DEF CanonicalHost, given
    <2>2. given # <<>> /\ Labelled(given) /\ host = Each(Lower, Trimmed(given))
      BY <2>1 DEF CanonicalDnsHost
    <2> DEFINE name == Trimmed(given)
    <2>3. Len(given) >= 1 /\ given[1] # "."
      <3>1. Len(given) >= 1
        BY <1>1, <2>2, NotEmpty
      <3> QED
        BY <1>1, <2>2, <3>1, LabelledIs
    <2>4. /\ name \in Seq(Symbols) /\ Len(name) >= 1 /\ Len(name) <= Len(given)
          /\ \A i \in 1 .. Len(name) : name[i] = given[i]
          /\ name[Len(name)] # "."
      <3>1. CASE given[Len(given)] = "."
        <4>1. Len(given) >= 2 /\ given[Len(given) - 1] # "."
          BY <1>1, <2>2, <2>3, <3>1, LabelledIs
        <4>2. name = SubSeq(given, 1, Len(given) - 1)
          BY <2>2, <3>1 DEF Trimmed, Front, Last
        <4>3. /\ name \in Seq(Symbols) /\ Len(name) = Len(given) - 1
              /\ \A i \in 1 .. Len(given) - 1 : name[i] = given[i]
          BY <1>1, <4>1, <4>2
        <4> HIDE DEF name
        <4> QED
          BY <1>1, <4>1, <4>3
      <3>2. CASE given[Len(given)] # "."
        <4>1. name = given
          BY <3>2 DEF Trimmed, Last
        <4> QED
          BY <1>1, <2>3, <3>2, <4>1
      <3> QED
        BY <3>1, <3>2
    <2> HIDE DEF name
    <2>5. /\ host \in Seq(Lowered) /\ Len(host) = Len(name)
          /\ \A i \in 1 .. Len(name) : host[i] = Lower(name[i])
      BY <2>2, <2>4, EachIs DEF name
    <2> HIDE DEF host
    <2>6. host # <<>> /\ host[Len(host)] # "."
      <3>1. host[Len(host)] = Lower(name[Len(name)])
        BY <2>4, <2>5
      <3>2. Lower(name[Len(name)]) # "."
        BY <2>4, LowerIs DEF Delimiters
      <3> QED
        BY <2>4, <2>5, <3>1, <3>2, NotEmpty
    <2>7. Labelled(host)
      <3> SUFFICES ASSUME NEW i \in 1 .. Len(host)
                   PROVE  /\ host[i] \in Plain
                          /\ host[i] = "." => i > 1 /\ host[i - 1] # "."
        BY <2>5, LabelledIs
      <3>1. /\ i \in 1 .. Len(given) /\ i \in 1 .. Len(name) /\ host[i] = Lower(given[i])
        BY <1>1, <2>4, <2>5
      <3>2. given[i] \in Plain /\ (given[i] = "." => i > 1 /\ given[i - 1] # ".")
        BY <1>1, <2>2, <3>1, LabelledIs
      <3>3. host[i] \in Plain
        BY <3>1, <3>2, LowerIs
      <3>4. ASSUME host[i] = "." PROVE i > 1 /\ host[i - 1] # "."
        <4>1. given[i] = "."
          BY <3>1, <3>4, LowerIs DEF Delimiters
        <4>2. i > 1 /\ given[i - 1] # "."
          BY <3>2, <4>1
        <4>3. i - 1 \in 1 .. Len(name)
          BY <1>1, <3>1, <4>2
        <4>4. host[i - 1] = Lower(given[i - 1])
          BY <2>4, <2>5, <4>3
        <4> QED
          BY <4>2, <4>4, LowerIs DEF Delimiters
      <3> QED
        BY <3>3, <3>4
    <2> QED
      BY <2>5, <2>6, <2>7 DEF Named, host
  <1> QED
    BY <1>4, <1>5

\* With a port part put behind it, a canonical host is read as it was.
LEMMA SettledHost ==
  ASSUME NEW host \in Seq(Lowered), Bracketed(host) \/ Named(host),
         NEW part \in Seq(Lowered), ValidPort(part)
  PROVE  LET hostport == host \o part
         IN /\ Host(hostport) = host /\ PortPart(hostport) = part
            /\ CanonicalHost(hostport) = host /\ host # Malformed
  <1> DEFINE hostport == host \o part
  <1>1. /\ hostport \in Seq(Lowered) /\ Len(host) \in Nat /\ Len(part) \in Nat
        /\ Len(hostport) = Len(host) + Len(part)
        /\ \A i \in 1 .. Len(host) : hostport[i] = host[i]
    OBVIOUS
  <1>2. part # <<>> => part[1] \in {":"}
    BY DEF ValidPort
  <1>3. Malformed = <<>> /\ Each(Lower, host) = host
    BY Spelled DEF Malformed
  <1>4. ASSUME Host(hostport) = host PROVE PortPart(hostport) = part
    <2>1. PortPart(hostport) = Drop(hostport, Len(host))
      BY <1>4 DEF PortPart
    <2>2. \A i \in 1 .. Len(part) : hostport[Len(host) + i] = part[i]
      OBVIOUS
    <2> HIDE DEF hostport
    <2>3. /\ Drop(hostport, Len(host)) \in Seq(Lowered)
          /\ Len(Drop(hostport, Len(host))) = Len(part)
          /\ \A i \in 1 .. Len(part) : Drop(hostport, Len(host))[i] = hostport[Len(host) + i]
      BY <1>1 DEF Drop
    <2> QED
      BY <2>1, <2>2, <2>3, SeqEqual
  <1>5. CASE Bracketed(host)
    <2>1. /\ Len(host) >= 3 /\ Len(host) <= 3
          /\ host[1] = "[" /\ host[2] \in Addresses /\ host[3] = "]"
      BY <1>5 DEF Bracketed
    <2> HIDE DEF hostport
    <2>2. IsPrefix(<<"[">>, hostport)
      <3>1. Len(hostport) >= 1 /\ hostport[1] = "["
        BY <1>1, <2>1
      <3> QED
        BY <1>1, <3>1, BracketIs, NotEmpty
    <2>3. First(hostport, {"]"}) = 3
      <3>1. /\ 3 \in 1 .. Len(hostport) + 1 /\ hostport[1] = "[" /\ hostport[2] = host[2]
            /\ hostport[3] = "]"
        BY <1>1, <2>1
      <3>2. host[2] # "]"
        BY <2>1, LoweredSymbols
      <3>3. \A i \in 1 .. Len(hostport) : i < 3 => hostport[i] \notin {"]"}
        BY <1>1, <3>1, <3>2
      <3>4. hostport[3] \in {"]"}
        BY <3>1
      <3> QED
        BY <1>1, <3>1, <3>3, <3>4, FirstAt
    <2>4. Min({First(hostport, {"]"}), Len(hostport)}) = 3
      <3>1. Len(hostport) >= 3 /\ Len(hostport) \in Nat
        BY <1>1, <2>1
      <3>2. \A x, y \in Nat : x <= y => Min({x, y}) = x
        BY DEF Min
      <3> QED
        BY <2>3, <3>1, <3>2
    <2>5. Host(hostport) = SubSeq(hostport, 1, 3)
      BY <2>2, <2>4 DEF Host
    <2>6. Host(hostport) = host
      <3>1. /\ Host(hostport) \in Seq(Lowered) /\ Len(Host(hostport)) <= 3
            /\ Len(Host(hostport)) >= 3
            /\ \A i \in 1 .. 3 : Host(hostport)[i] = hostport[i]
        BY <1>1, <2>1, <2>5
      <3>2. Len(Host(hostport)) = Len(host)
        BY <1>1, <2>1, <3>1
      <3>3. \A i \in 1 .. Len(host) : Host(hostport)[i] = host[i]
        BY <1>1, <2>1, <3>1
      <3> QED
        BY <3>1, <3>2, <3>3, SeqEqual
    <2>7. Len(host) = 3
      BY <1>1, <2>1, Three, Zenon
    <2>8. CanonicalIpv6(host) = host
      BY <1>3, <2>1, <2>7, Zenon DEF CanonicalIpv6
    <2>9. Last(host) = "]"
      BY <2>1, <2>7, Zenon DEF Last
    <2>10. CanonicalHost(hostport) = host
      BY <2>2, <2>6, <2>8, <2>9, Zenon DEF CanonicalHost
    <2>11. host # <<>>
      BY <2>1, NotEmpty
    <2> QED
      BY <1>3, <1>4, <2>6, <2>10, <2>11 DEF hostport
  <1>6. CASE Named(host)
    <2>1. host # <<>> /\ Labelled(host) /\ host[Len(host)] # "." /\ Len(host) >= 1
      BY <1>6, NotEmpty DEF Named
    <2>2. \A i \in 1 .. Len(host) : host[i] \in Plain
      BY <2>1, LabelledIs
    <2>3. \A i \in 1 .. Len(host) : host[i] \notin {":"}
      BY <2>2, LoweredSymbols
    <2>4. Until(hostport, {":"}) = host
      BY <1>2, <2>3, CutAt
    <2> HIDE DEF hostport
    <2>5. ~IsPrefix(<<"[">>, hostport)
      <3>1. hostport[1] # "["
        BY <1>1, <2>1, <2>2, LoweredSymbols
      <3> QED
        BY <1>1, <3>1, BracketIs
    <2>6. Host(hostport) = host
      BY <2>4, <2>5 DEF Host
    <2>7. Trimmed(host) = host
      BY <2>1 DEF Trimmed, Last
    <2>8. CanonicalHost(hostport) = host
      BY <1>3, <2>1, <2>5, <2>6, <2>7, Zenon DEF CanonicalHost, CanonicalDnsHost
    <2> QED
      BY <1>3, <1>4, <2>1, <2>6, <2>8 DEF hostport
  <1> QED
    BY <1>5, <1>6

\* What is left of a text has no other symbols.
LEMMA DropIn ==
  ASSUME NEW A, NEW text \in Seq(A), NEW n \in Nat
  PROVE  Drop(text, n) \in Seq(A)
  BY DEF Drop

\* The parts of a URL have no other symbols.
LEMMA PartsIn ==
  ASSUME NEW text \in Seq(Symbols)
  PROVE  /\ Scheme(text) \in Seq(Symbols) /\ AfterScheme(text) \in Seq(Symbols)
         /\ Authority(text) \in Seq(Symbols) /\ Remainder(text) \in Seq(Symbols)
         /\ Path(text) \in Seq(Symbols) /\ Query(text) \in Seq(Symbols)
  <1>1. /\ Scheme(text) \in Seq(Symbols) /\ AfterScheme(text) \in Seq(Symbols)
    BY UntilIs, FromIs, DropIn DEF Scheme, AfterScheme
  <1>2. Drop(AfterScheme(text), 2) \in Seq(Symbols)
    BY <1>1, DropIn
  <1>3. Authority(text) \in Seq(Symbols) /\ Remainder(text) \in Seq(Symbols)
    BY <1>2, UntilIs, FromIs DEF Authority, Remainder
  <1>4. Path(text) \in Seq(Symbols) /\ Query(text) \in Seq(Symbols)
    BY <1>3, UntilIs, FromIs DEF Path, Query
  <1> QED
    BY <1>1, <1>3, <1>4

\* A port part that stays is a valid one and not the default.
Kept(scheme, part) == ValidPort(part) /\ (part # <<>> => ~IsDefault(scheme, part))

\* What the authority of a URL becomes.
LEMMA CanonicalAuthorityIs ==
  ASSUME NEW text \in Seq(Symbols), CanonicalAuthority(text) # Malformed
  PROVE  \E host \in Seq(Lowered), part \in Seq(Lowered) :
           /\ CanonicalAuthority(text) = host \o part
           /\ Bracketed(host) \/ Named(host)
           /\ Kept(CanonicalScheme(text), part)
  <1> DEFINE hostport == HostPort(Authority(text))
             host == CanonicalHost(hostport)
             port == PortPart(hostport)
             part == IF IsDefault(CanonicalScheme(text), port) THEN <<>> ELSE port
  <1>1. hostport \in Seq(Symbols)
    BY PartsIn, HostPortIs
  <1>2. host # Malformed /\ ValidPort(port) /\ CanonicalAuthority(text) = host \o part
    BY DEF CanonicalAuthority
  <1> HIDE DEF hostport
  <1>3. host \in Seq(Lowered) /\ (Bracketed(host) \/ Named(host))
    BY <1>1, <1>2, CanonicalHostIs
  <1>4. port \in Seq(Symbols)
    BY <1>1, HostParts
  <1> HIDE DEF host, port
  <1>5. port \in Seq(Lowered)
    <2>1. Len(port) \in Nat /\ (Len(port) >= 1 => port # <<>>)
      BY <1>4, NotEmpty
    <2>2. \A i \in 1 .. Len(port) : port[i] \in {":"} \cup Digits
      BY <1>2, <2>1 DEF ValidPort
    <2>3. {":"} \cup Digits \subseteq Lowered
      BY DEF Lowered, Symbols, Digits
    <2> QED
      BY <1>4, <2>2, <2>3, SymbolsOf
  <1>6. part \in Seq(Lowered) /\ Kept(CanonicalScheme(text), part)
    BY <1>2, <1>5 DEF Kept, ValidPort
  <1> QED
    BY <1>2, <1>3, <1>6

\* An authority in canonical form.
Settled(scheme, authority) ==
  \E host \in Seq(Lowered), part \in Seq(Lowered) :
    /\ authority = host \o part
    /\ Bracketed(host) \/ Named(host)
    /\ Kept(scheme, part)

\* An authority in canonical form has none of the delimiters of other parts.
LEMMA SettledIs ==
  ASSUME NEW scheme, NEW authority, Settled(scheme, authority)
  PROVE  /\ authority \in Seq(Lowered)
         /\ \A i \in 1 .. Len(authority) : authority[i] \notin {"/", "?", "#", "@"}
  <1>1. PICK host \in Seq(Lowered), part \in Seq(Lowered) :
          /\ authority = host \o part
          /\ Bracketed(host) \/ Named(host)
          /\ Kept(scheme, part)
    BY DEF Settled
  <1> DEFINE allowed == Plain \cup Addresses \cup {"[", "]", ":"}
  <1>2. \A i \in 1 .. Len(host) : host[i] \in allowed
    <2>1. CASE Bracketed(host)
      BY <2>1 DEF Bracketed
    <2>2. CASE Named(host)
      BY <2>2, LabelledIs DEF Named
    <2> QED
      BY <1>1, <2>1, <2>2
  <1>3. \A i \in 1 .. Len(part) : part[i] \in allowed
    <2>1. Len(part) \in Nat /\ (Len(part) >= 1 => part # <<>>)
      BY NotEmpty
    <2>2. \A i \in 1 .. Len(part) : part[i] \in {":"} \cup Digits
      BY <1>1, <2>1 DEF Kept, ValidPort
    <2> QED
      BY <2>2 DEF Plain
  <1>4. /\ authority \in Seq(Lowered) /\ Len(authority) = Len(host) + Len(part)
        /\ \A i \in 1 .. Len(host) : authority[i] = host[i]
        /\ \A i \in 1 .. Len(part) : authority[Len(host) + i] = part[i]
        /\ Len(host) \in Nat /\ Len(part) \in Nat
    BY <1>1
  <1>5. ASSUME NEW i \in 1 .. Len(authority) PROVE authority[i] \in allowed
    <2>1. CASE i <= Len(host)
      BY <1>2, <1>4, <2>1
    <2>2. CASE i > Len(host)
      <3>1. i - Len(host) \in 1 .. Len(part) /\ Len(host) + (i - Len(host)) = i
        BY <1>4, <2>2
      <3>2. authority[Len(host) + (i - Len(host))] = part[i - Len(host)]
        BY <1>4, <3>1
      <3> QED
        BY <1>3, <3>1, <3>2
    <2> QED
      BY <1>4, <2>1, <2>2
  <1>6. allowed \cap {"/", "?", "#", "@"} = {}
    BY DEF Plain, Letters, Digits, Addresses
  <1> HIDE DEF allowed
  <1> QED
    BY <1>4, <1>5, <1>6

\* A path and a query in canonical form.
Resolves(path) ==
  path \in Seq(Decoded \ {"?", "#"}) /\ path # <<>> /\ Rooted(path) /\ Clean(path)

\* A canonical path has no dot segment and nothing to decode.
LEMMA CanonicalPathIs ==
  ASSUME NEW path \in Seq(Symbols), Rooted(path),
         \A i \in 1 .. Len(path) : path[i] \notin {"?", "#"}
  PROVE  Resolves(CanonicalPath(path))
  <1> DEFINE A == Decoded \ {"?", "#"}
             decoded == NormalizePercent(path)
             resolved == RemoveDotSegments(decoded)
  <1>1. "/" \in A /\ Decoded \subseteq Symbols
    BY DEF Decoded, Symbols
  <1>2. decoded \in Seq(A)
    <2>1. \A i \in 1 .. Len(decoded) : decoded[i] \in A
      <3>1. Len(decoded) = Len(path) /\ \A i \in 1 .. Len(path) : decoded[i] = Decode(path[i])
        BY EachIs
      <3>2. \A i \in 1 .. Len(path) : path[i] \in Symbols
        OBVIOUS
      <3>3. ASSUME NEW i \in 1 .. Len(path) PROVE Decode(path[i]) \in A
        BY <3>2, DecodeIs DEF Delimiters
      <3> HIDE DEF decoded, A
      <3> QED
        BY <3>1, <3>3
    <2>2. decoded \in Seq(Decoded)
      BY EachIs
    <2> HIDE DEF decoded, A
    <2> QED
      BY <2>1, <2>2, SymbolsOf
  <1>3. Rooted(decoded)
    <2>1. decoded # <<>> => Len(decoded) >= 1
      BY <1>2, NotEmpty
    <2>2. Len(decoded) = Len(path) /\ \A i \in 1 .. Len(path) : decoded[i] = Decode(path[i])
      BY EachIs
    <2>3. Len(path) \in Nat /\ (Len(path) >= 1 => path[1] = "/")
      BY NotEmpty DEF Rooted
    <2> HIDE DEF decoded
    <2>4. Decode("/") = "/"
      BY DEF Decode
    <2> QED
      BY <2>1, <2>2, <2>3, <2>4 DEF Rooted
  <1> HIDE DEF A, decoded
  <1>4. resolved \in Seq(A) /\ Rooted(resolved) /\ Clean(resolved)
    BY <1>1, <1>2, <1>3, DotsRemoved
  <1>5. CanonicalPath(path) = IF resolved = <<>> THEN <<"/">> ELSE resolved
    BY DEF CanonicalPath, decoded
  <1> HIDE DEF resolved
  <1>6. <<"/">> \in Seq(A) /\ Rooted(<<"/">>) /\ Clean(<<"/">>) /\ <<"/">> # <<>>
    BY <1>1 DEF Rooted, Clean, DotAt, OneDotAt, TwoDotsAt
  <1> QED
    <2>1. CASE resolved = <<>>
      BY <1>5, <1>6, <2>1 DEF Resolves, A
    <2>2. CASE resolved # <<>>
      BY <1>4, <1>5, <2>2 DEF Resolves, A
    <2> QED
      BY <2>1, <2>2

\* Such a path is left as it is.
LEMMA CanonicalPathStays ==
  ASSUME NEW path, Resolves(path)
  PROVE  CanonicalPath(path) = path
  <1>1. path \in Seq(Decoded) /\ "/" \in Decoded /\ path # <<>>
    BY SeqWithin DEF Resolves, Decoded, Symbols
  <1>2. NormalizePercent(path) = path
    BY <1>1, Spelled
  <1>3. RemoveDotSegments(path) = path
    BY <1>1, DotsRemoved DEF Resolves
  <1> QED
    BY <1>1, <1>2, <1>3 DEF CanonicalPath

-----------------------------------------------------------------------------
(* Canonical URLs *)

\* A scheme in canonical form.
Names(scheme) ==
  /\ scheme \in Seq(Lowered) /\ scheme # <<>> /\ scheme[1] \in Letters
  /\ \A i \in 1 .. Len(scheme) : scheme[i] \in Plain

\* A query in canonical form.
Asks(query) ==
  /\ query \in Seq(Decoded) /\ (query # <<>> => query[1] = "?")
  /\ \A i \in 1 .. Len(query) : query[i] # "#"

\* A scheme is put in canonical form.
LEMMA CanonicalSchemeIs ==
  ASSUME NEW text \in Seq(Symbols), HasScheme(text)
  PROVE  Names(CanonicalScheme(text))
  <1> DEFINE given == Scheme(text)
             scheme == CanonicalScheme(text)
  <1>1. given \in Seq(Symbols) /\ given # <<>> /\ Len(given) >= 1 /\ Len(given) \in Nat
    BY PartsIn, NotEmpty DEF HasScheme
  <1>2. \A i \in 1 .. Len(given) : given[i] = text[i]
    BY UntilIs DEF Scheme
  <1>3. DOMAIN given = 1 .. Len(given)
    BY <1>1
  <1>4. given[1] \in Letters /\ \A i \in 1 .. Len(given) : given[i] \in Plain
    BY <1>1, <1>2, <1>3 DEF HasScheme, Plain
  <1>5. scheme = Each(Lower, given)
    BY DEF CanonicalScheme
  <1> HIDE DEF given, scheme
  <1>6. /\ scheme \in Seq(Lowered) /\ Len(scheme) = Len(given)
        /\ \A i \in 1 .. Len(given) : scheme[i] = Lower(given[i])
    BY <1>1, <1>5, EachIs
  <1>7. scheme # <<>> /\ scheme[1] \in Letters
    BY <1>1, <1>4, <1>6, LowerIs, NotEmpty
  <1>8. \A i \in 1 .. Len(scheme) : scheme[i] \in Plain
    BY <1>4, <1>6, LowerIs
  <1> QED
    BY <1>6, <1>7, <1>8 DEF Names, scheme

\* The path of a URL begins with a slash, its query with a question mark.
LEMMA PathIs ==
  ASSUME NEW text \in Seq(Symbols)
  PROVE  /\ Rooted(Path(text)) /\ \A i \in 1 .. Len(Path(text)) : Path(text)[i] \notin {"?", "#"}
         /\ Query(text) # <<>> => Query(text)[1] = "?"
         /\ \A i \in 1 .. Len(Query(text)) : Query(text)[i] # "#"
  <1> DEFINE rest == Drop(AfterScheme(text), 2)
             remainder == Remainder(text)
             path == Path(text)
             bare == Until(remainder, {"#"})
             query == Query(text)
  <1>1. rest \in Seq(Symbols) /\ remainder \in Seq(Symbols) /\ path \in Seq(Symbols)
    BY PartsIn, DropIn
  <1>2. remainder # <<>> => remainder[1] \in {"/", "?", "#"}
    BY <1>1, FromIs DEF Remainder
  <1> HIDE DEF rest, remainder
  <1>3. /\ Len(path) = First(remainder, {"?", "#"}) - 1
        /\ \A i \in 1 .. Len(path) : path[i] = remainder[i] /\ path[i] \notin {"?", "#"}
    BY <1>1, UntilIs DEF Path, remainder
  <1>4. Rooted(path)
    <2> SUFFICES ASSUME path # <<>> PROVE path[1] = "/"
      BY DEF Rooted
    <2>1. Len(path) >= 1 /\ Len(path) \in Nat
      BY <1>1, NotEmpty
    <2>2. First(remainder, {"?", "#"}) \in 1 .. Len(remainder) + 1 /\ Len(remainder) \in Nat
      BY <1>1, FirstIs
    <2>3. remainder # <<>>
      BY <1>1, <1>3, <2>1, <2>2, NotEmpty
    <2> HIDE DEF path
    <2>4. path[1] = remainder[1] /\ path[1] \notin {"?", "#"}
      BY <1>3, <2>1
    <2> QED
      BY <1>2, <2>3, <2>4
  <1>5. bare \in Seq(Symbols) /\ \A i \in 1 .. Len(bare) : bare[i] # "#"
    BY <1>1, UntilIs
  <1> HIDE DEF bare
  <1>6. query = From(bare, {"?"})
    BY DEF Query, bare, remainder
  <1>7. /\ query # <<>> => query[1] \in {"?"}
        /\ Len(query) = Len(bare) + 1 - First(bare, {"?"})
        /\ \A i \in 1 .. Len(query) : query[i] = bare[First(bare, {"?"}) + i - 1]
    BY <1>5, <1>6, FromIs
  <1> HIDE DEF query
  <1>8. ASSUME NEW i \in 1 .. Len(query) PROVE query[i] # "#"
    <2>1. First(bare, {"?"}) \in 1 .. Len(bare) + 1 /\ Len(bare) \in Nat
      BY <1>5, FirstIs
    <2>2. First(bare, {"?"}) + i - 1 \in 1 .. Len(bare)
      BY <1>7, <2>1
    <2> QED
      BY <1>5, <1>7, <2>2
  <1> QED
    BY <1>3, <1>4, <1>7, <1>8 DEF query

\* A query is put in canonical form.
LEMMA CanonicalQueryIs ==
  ASSUME NEW text \in Seq(Symbols)
  PROVE  Asks(NormalizePercent(Query(text)))
  <1> DEFINE given == Query(text)
             query == NormalizePercent(given)
  <1>1. given \in Seq(Symbols) /\ (given # <<>> => given[1] = "?")
        /\ \A i \in 1 .. Len(given) : given[i] # "#"
    BY PartsIn, PathIs
  <1> HIDE DEF given
  <1>2. /\ query \in Seq(Decoded) /\ Len(query) = Len(given) /\ Len(given) \in Nat
        /\ \A i \in 1 .. Len(given) : query[i] = Decode(given[i])
    BY <1>1, EachIs
  <1> HIDE DEF query
  <1>3. query # <<>> => query[1] = "?"
    BY <1>1, <1>2, DecodeIs, NotEmpty DEF Delimiters
  <1>4. \A i \in 1 .. Len(query) : query[i] # "#"
    BY <1>1, <1>2, DecodeIs DEF Delimiters
  <1> QED
    BY <1>2, <1>3, <1>4 DEF Asks, query, given

\* A URL in canonical form is made of parts in canonical form.
LEMMA CanonicalUrlIs ==
  ASSUME NEW text \in Seq(Symbols), CanonicalizeUrl(text) # Malformed
  PROVE  LET scheme == CanonicalScheme(text)
             authority == CanonicalAuthority(text)
             path == CanonicalPath(Path(text))
             query == NormalizePercent(Query(text))
         IN /\ CanonicalizeUrl(text) = Url(scheme, authority, path, query)
            /\ Names(scheme) /\ Settled(scheme, authority) /\ Resolves(path) /\ Asks(query)
  <1> DEFINE scheme == CanonicalScheme(text)
             authority == CanonicalAuthority(text)
             path == CanonicalPath(Path(text))
             query == NormalizePercent(Query(text))
  <1>1. /\ HasScheme(text) /\ authority # Malformed
        /\ CanonicalizeUrl(text) = Joined(scheme, authority, path, query)
    BY DEF CanonicalizeUrl, Mark, Joined
  <1>2. Names(scheme)
    BY <1>1, CanonicalSchemeIs
  <1>3. Settled(scheme, authority)
    BY <1>1, CanonicalAuthorityIs DEF Settled
  <1>4. Resolves(path)
    BY PartsIn, PathIs, CanonicalPathIs
  <1>5. Asks(query)
    BY CanonicalQueryIs
  <1> HIDE DEF scheme, authority, path, query
  <1>6. /\ scheme \in Seq(Symbols) /\ authority \in Seq(Symbols) /\ path \in Seq(Symbols)
        /\ query \in Seq(Symbols) /\ Mark \in Seq(Symbols)
    <2>1. Lowered \subseteq Symbols /\ Decoded \subseteq Symbols /\ Decoded \ {"?", "#"} \subseteq Symbols
      BY DEF Lowered, Decoded
    <2>2. authority \in Seq(Lowered)
      BY <1>3, SettledIs
    <2> QED
      BY <1>2, <1>4, <1>5, <2>1, <2>2, SeqWithin DEF Names, Resolves, Asks, Mark, Symbols
  <1>7. Joined(scheme, authority, path, query) = Url(scheme, authority, path, query)
    BY <1>6, UrlIs
  <1> QED
    BY <1>1, <1>2, <1>3, <1>4, <1>5, <1>7 DEF scheme, authority, path, query

\* Parts in canonical form are those of the URL they make.
LEMMA CanonicalParts ==
  ASSUME NEW scheme, NEW authority, NEW path, NEW query,
         Names(scheme), Settled(scheme, authority), Resolves(path), Asks(query)
  PROVE  LET text == Url(scheme, authority, path, query)
         IN /\ text \in Seq(Symbols) /\ Joined(scheme, authority, path, query) = text
            /\ First(text, {":"}) <= Len(text) /\ Scheme(text) = scheme
            /\ AfterScheme(text) = Cat(<<"/", "/">>, Cat(authority, Cat(path, query)))
            /\ Cat(authority, Cat(path, query)) \in Seq(Symbols)
            /\ Authority(text) = authority
            /\ Path(text) = path /\ Query(text) = query
  <1>1. Lowered \subseteq Symbols /\ Decoded \subseteq Symbols /\ Decoded \ {"?", "#"} \subseteq Symbols
    BY DEF Lowered, Decoded
  <1>2. /\ scheme \in Seq(Symbols) /\ authority \in Seq(Symbols) /\ path \in Seq(Symbols)
        /\ query \in Seq(Symbols) /\ Mark \in Seq(Symbols)
    <2>1. authority \in Seq(Lowered)
      BY SettledIs
    <2> QED
      BY <1>1, <2>1, SeqWithin DEF Names, Resolves, Asks, Mark, Symbols
  <1>3. \A i \in 1 .. Len(scheme) : scheme[i] # ":"
    BY LoweredSymbols DEF Names
  <1>4. \A i \in 1 .. Len(authority) : authority[i] \notin {"/", "?", "#"}
    BY SettledIs
  <1>5. \A i \in 1 .. Len(path) : path[i] \notin {"?", "#"}
    BY DEF Resolves
  <1>6. /\ Rooted(path) /\ path # <<>>
        /\ \A i \in 1 .. Len(query) : query[i] # "#"
        /\ query # <<>> => query[1] = "?"
    BY DEF Resolves, Asks
  <1>7. /\ Cat(authority, Cat(path, query)) \in Seq(Symbols)
        /\ Url(scheme, authority, path, query) \in Seq(Symbols)
    <2>1. Cat(path, query) \in Seq(Symbols)
      BY <1>2, CatIs
    <2>2. Cat(authority, Cat(path, query)) \in Seq(Symbols)
      BY <1>2, <2>1, CatIs
    <2>3. Cat(Mark, Cat(authority, Cat(path, query))) \in Seq(Symbols)
      BY <1>2, <2>2, CatIs
    <2>4. Cat(scheme, Cat(Mark, Cat(authority, Cat(path, query)))) \in Seq(Symbols)
      BY <1>2, <2>3, CatIs
    <2> QED
      BY <2>2, <2>4, Zenon DEF Cat, Url
  <1>8. Joined(scheme, authority, path, query) = Url(scheme, authority, path, query)
    BY <1>2, UrlIs
  <1> QED
    <2> DEFINE text == Url(scheme, authority, path, query)
    <2>1. /\ First(text, {":"}) <= Len(text) /\ Scheme(text) = scheme
          /\ AfterScheme(text) = Cat(<<"/", "/">>, Cat(authority, Cat(path, query)))
          /\ Authority(text) = authority
          /\ Path(text) = path /\ Query(text) = query
      <3>1. Apart(scheme, authority, path, query)
        BY <1>3, <1>4, <1>5, <1>6 DEF Apart
      <3> QED
        BY <1>2, <3>1, PartsOf
    <2> QED
      BY <1>7, <1>8, <2>1

\* An authority in canonical form is left as it is.
LEMMA SettledStays ==
  ASSUME NEW text, NEW scheme, NEW authority, Settled(scheme, authority),
         Authority(text) = authority, CanonicalScheme(text) = scheme
  PROVE  CanonicalAuthority(text) = authority /\ authority # Malformed
  <1>1. PICK host \in Seq(Lowered), part \in Seq(Lowered) :
          /\ authority = host \o part
          /\ Bracketed(host) \/ Named(host)
          /\ Kept(scheme, part)
    BY DEF Settled
  <1>2. HostPort(authority) = authority
    BY SettledIs, HostPortIs
  <1>3. /\ PortPart(authority) = part /\ CanonicalHost(authority) = host
        /\ host # Malformed /\ ValidPort(part)
    BY <1>1, SettledHost DEF Kept
  <1>4. CanonicalAuthority(text) = host \o (IF IsDefault(scheme, part) THEN <<>> ELSE part)
    BY <1>2, <1>3 DEF CanonicalAuthority
  <1>5. IsDefault(scheme, part) => part = <<>>
    BY <1>1 DEF Kept
  <1>6. CanonicalAuthority(text) = authority
    BY <1>1, <1>4, <1>5
  <1>7. authority # <<>>
    BY <1>1, <1>3, NotEmpty DEF Malformed
  <1> QED
    BY <1>6, <1>7 DEF Malformed

\* A URL made of parts in canonical form is left as it is.
LEMMA CanonicalStays ==
  ASSUME NEW scheme, NEW authority, NEW path, NEW query,
         Names(scheme), Settled(scheme, authority), Resolves(path), Asks(query)
  PROVE  LET text == Url(scheme, authority, path, query) IN CanonicalizeUrl(text) = text
  <1> DEFINE text == Url(scheme, authority, path, query)
             rest == Cat(authority, Cat(path, query))
  <1>1. /\ text \in Seq(Symbols) /\ Joined(scheme, authority, path, query) = text
        /\ First(text, {":"}) <= Len(text) /\ Scheme(text) = scheme
        /\ AfterScheme(text) = Cat(<<"/", "/">>, rest) /\ rest \in Seq(Symbols)
        /\ Authority(text) = authority
        /\ Path(text) = path /\ Query(text) = query
    BY CanonicalParts
  <1> HIDE DEF text, rest
  <1>2. CanonicalScheme(text) = scheme
    BY <1>1, Spelled DEF CanonicalScheme, Names
  <1>3. HasScheme(text)
    <2>1. /\ DOMAIN scheme = 1 .. Len(scheme) /\ Len(scheme) >= 1
          /\ \A i \in 1 .. Len(scheme) : text[i] = scheme[i]
      BY <1>1, UntilIs, NotEmpty DEF Scheme, Names
    <2> QED
      BY <1>1, <2>1 DEF HasScheme, Names, Plain
  <1>4. IsPrefix(<<"/", "/">>, AfterScheme(text))
    BY <1>1 DEF IsPrefix, Cat
  <1>5. CanonicalAuthority(text) = authority /\ authority # Malformed
    BY <1>1, <1>2, SettledStays
  <1>6. CanonicalPath(path) = path
    BY CanonicalPathStays
  <1>7. NormalizePercent(query) = query
    BY Spelled DEF Asks
  <1>8. CanonicalizeUrl(text) = Joined(scheme, authority, path, query)
    BY <1>1, <1>2, <1>3, <1>4, <1>5, <1>6, <1>7, Zenon DEF CanonicalizeUrl, Joined, Mark
  <1> QED
    BY <1>1, <1>8 DEF text

\* Every text that is written is a sequence of symbols.
Written == url \in Seq(Symbols) /\ family \in Families

LEMMA WrittenAlways == Spec => []Written
  <1>1. Init => Written
    BY FamiliesAssumption DEF Init, Written
  <1>2. Written /\ [Next]_vars => Written'
    <2> SUFFICES ASSUME Written, [Next]_vars PROVE Written'
      OBVIOUS
    <2>1. CASE Next
      <3>1. PICK symbol \in family.symbols : Write(symbol)
        BY <2>1 DEF Next
      <3>2. symbol \in Symbols
        BY FamiliesAssumption DEF Written
      <3> QED
        BY <3>1, <3>2 DEF Write, Written
    <2>2. CASE UNCHANGED vars
      BY <2>2 DEF vars, Written
    <2> QED
      BY <2>1, <2>2
  <1> QED
    BY <1>1, <1>2, PTL DEF Spec

\* A canonical URL is its own canonical form.
LEMMA IdempotentWritten == Written => Idempotent
  <1> SUFFICES ASSUME Written, CanonicalizeUrl(url) # Malformed
               PROVE  CanonicalizeUrl(CanonicalizeUrl(url)) = CanonicalizeUrl(url)
    BY DEF Idempotent
  <1>1. url \in Seq(Symbols)
    BY DEF Written
  <1> QED
    BY <1>1, CanonicalUrlIs, CanonicalStays

\* An agent's URL that was canonicalized is its own canonical form, however long
\* it is and whatever dot segments it has (canonicalize_url).
THEOREM IdempotentAlways == Spec => []Idempotent
  BY WrittenAlways, IdempotentWritten, PTL

\* A canonical URL is bare: its parts are.
LEMMA BareWritten == Written => Bare
  <1> DEFINE canonical == CanonicalizeUrl(url)
             scheme == CanonicalScheme(url)
             authority == CanonicalAuthority(url)
             path == CanonicalPath(Path(url))
             query == NormalizePercent(Query(url))
             port == PortPart(authority)
  <1> SUFFICES ASSUME Written, canonical # Malformed
               PROVE  /\ \A i \in DOMAIN Authority(canonical) : Authority(canonical)[i] # "@"
                      /\ Last(Host(Authority(canonical))) # "."
                      /\ PortPart(Authority(canonical)) # <<>>
                           => ~IsDefault(Scheme(canonical), PortPart(Authority(canonical)))
                      /\ \A i \in DOMAIN canonical : canonical[i] # "#"
    BY DEF Bare
  <1>1. /\ canonical = Url(scheme, authority, path, query)
        /\ Names(scheme) /\ Settled(scheme, authority) /\ Resolves(path) /\ Asks(query)
    BY CanonicalUrlIs DEF Written
  <1> HIDE DEF canonical, scheme, authority, path, query
  <1>2. Authority(canonical) = authority /\ Scheme(canonical) = scheme
    BY <1>1, CanonicalParts
  <1>3. /\ authority \in Seq(Lowered)
        /\ \A i \in DOMAIN authority : authority[i] \notin {"/", "?", "#", "@"}
    BY <1>1, SettledIs
  <1>4. PICK host \in Seq(Lowered), part \in Seq(Lowered) :
          /\ authority = host \o part
          /\ Bracketed(host) \/ Named(host)
          /\ Kept(scheme, part)
    BY <1>1 DEF Settled
  <1>5. Host(authority) = host /\ PortPart(authority) = part
    BY <1>4, SettledHost DEF Kept
  <1>6. Last(host) # "."
    <2>1. CASE Bracketed(host)
      <3>1. Len(host) \in Nat
        OBVIOUS
      <3>2. Len(host) = 3
        BY <2>1, <3>1, Three, Zenon DEF Bracketed
      <3>3. Last(host) = "]"
        BY <2>1, <3>2, Zenon DEF Bracketed, Last
      <3> QED
        BY <3>3
    <2>2. CASE Named(host)
      BY <2>2 DEF Named, Last
    <2> QED
      BY <1>4, <2>1, <2>2
  <1>7. part # <<>> => ~IsDefault(scheme, part)
    BY <1>4 DEF Kept
  <1>8. \A i \in DOMAIN canonical : canonical[i] # "#"
    <2> DEFINE B == Symbols \ {"#"}
    <2>1. scheme \in Seq(B)
      <3>1. \A i \in 1 .. Len(scheme) : scheme[i] \in B
        BY <1>1 DEF Names, Plain, Letters, Digits, Symbols
      <3> HIDE DEF B
      <3> QED
        BY <1>1, <3>1, SymbolsOf DEF Names
    <2>2. authority \in Seq(B)
      <3>1. Lowered \subseteq Symbols
        BY LoweredSymbols
      <3>2. \A i \in 1 .. Len(authority) : authority[i] \in B
        BY <1>3, <3>1
      <3> HIDE DEF B
      <3> QED
        BY <1>3, <3>2, SymbolsOf
    <2>3. path \in Seq(B)
      <3>1. Decoded \ {"?", "#"} \subseteq B
        BY DEF Decoded
      <3> HIDE DEF B
      <3> QED
        BY <1>1, <3>1, SeqWithin DEF Resolves
    <2>4. query \in Seq(B)
      <3>1. Decoded \subseteq Symbols
        BY DEF Decoded
      <3>2. \A i \in 1 .. Len(query) : query[i] \in B
        BY <1>1, <3>1 DEF Asks
      <3> HIDE DEF B
      <3> QED
        BY <1>1, <3>2, SymbolsOf DEF Asks
    <2>5. Mark \in Seq(B)
      BY DEF Mark, Symbols
    <2>6. "#" \notin B
      OBVIOUS
    <2> HIDE DEF B
    <2>7. canonical \in Seq(B)
      <3>1. Cat(path, query) \in Seq(B)
        BY <2>3, <2>4, CatIs
      <3>2. Cat(authority, Cat(path, query)) \in Seq(B)
        BY <2>2, <3>1, CatIs
      <3>3. Cat(Mark, Cat(authority, Cat(path, query))) \in Seq(B)
        BY <2>5, <3>2, CatIs
      <3>4. Cat(scheme, Cat(Mark, Cat(authority, Cat(path, query)))) \in Seq(B)
        BY <2>1, <3>3, CatIs
      <3> QED
        BY <1>1, <3>4, Zenon DEF Cat, Url
    <2> QED
      BY <2>6, <2>7
  <1> QED
    BY <1>2, <1>3, <1>5, <1>6, <1>7, <1>8

\* A canonical URL has no userinfo, no default or empty port, no root dot and no
\* fragment (split_authority, _canonical_host, canonicalize_url).
THEOREM BareAlways == Spec => []Bare
  BY WrittenAlways, BareWritten, PTL

-----------------------------------------------------------------------------
(* Texts that are spelled in other ways *)

lowers == [s \in Symbols |-> Lower(s)]
decodes == [s \in Symbols |-> Decode(s)]

\* What the parts of a URL are told apart by.
marks == [s \in Symbols |-> IF s \in {":", "/", "?", "#"} THEN s ELSE "a"]

\* Two texts are spelled alike, where f says what of a symbol counts.
Alike(f, s, t) ==
  /\ s \in Seq(Symbols) /\ t \in Seq(Symbols) /\ Len(s) = Len(t)
  /\ \A i \in 1 .. Len(s) : f[s[i]] = f[t[i]]

\* Symbols that are spelled alike are of a kind or not of it both.
Tells(f, D) == \A x, y \in Symbols : f[x] = f[y] => (x \in D <=> y \in D)

\* The delimiters stay what they are, however a text is spelled.
LEMMA TellsKinds ==
  /\ \A D \in SUBSET {":", "/", "?", "#"} : Tells(marks, D) /\ Tells(lowers, D) /\ Tells(decodes, D)
  /\ \A D \in SUBSET (Delimiters \cup Digits) : Tells(lowers, D)
  /\ Tells(lowers, Plain) /\ Tells(lowers, Letters) /\ Tells(lowers, Addresses)
  <1>1. \A D \in SUBSET {":", "/", "?", "#"} : Tells(marks, D)
    BY DEF Tells, marks
  <1>2. \A D \in SUBSET {":", "/", "?", "#"} : Tells(decodes, D)
    <2> SUFFICES ASSUME NEW D \in SUBSET {":", "/", "?", "#"}, NEW x \in Symbols, NEW y \in Symbols,
                        Decode(x) = Decode(y), x \in D
                 PROVE  y \in D
      BY DEF Tells, decodes
    <2>1. Decode(x) = x
      BY DecodeIs DEF Delimiters
    <2> QED
      BY <2>1, DecodeIs DEF Delimiters
  <1>3. \A D \in SUBSET (Delimiters \cup Digits) : Tells(lowers, D)
    <2> SUFFICES ASSUME NEW D \in SUBSET (Delimiters \cup Digits), NEW x \in Symbols, NEW y \in Symbols,
                        Lower(x) = Lower(y), x \in D
                 PROVE  y \in D
      BY DEF Tells, lowers
    <2>1. Lower(x) = x
      BY LowerIs
    <2> QED
      BY <2>1, LowerIs
  <1>4. {":", "/", "?", "#"} \subseteq Delimiters \cup Digits
    BY DEF Delimiters
  <1>5. \A D \in SUBSET {":", "/", "?", "#"} : Tells(lowers, D)
    BY <1>3, <1>4
  <1>6. Tells(lowers, Plain) /\ Tells(lowers, Letters) /\ Tells(lowers, Addresses)
    BY LowerIs DEF Tells, lowers
  <1> QED
    BY <1>1, <1>2, <1>3, <1>5, <1>6

\* Texts that are spelled alike are cut at the same place.
LEMMA AlikeFirst ==
  ASSUME NEW f, NEW s, NEW t, Alike(f, s, t), NEW D, Tells(f, D)
  PROVE  First(s, D) = First(t, D)
  <1>1. /\ s \in Seq(Symbols) /\ t \in Seq(Symbols) /\ Len(s) = Len(t) /\ Len(s) \in Nat
        /\ \A i \in 1 .. Len(s) : s[i] \in Symbols /\ t[i] \in Symbols
    BY DEF Alike
  <1>2. \A i \in 1 .. Len(s) : s[i] \in D <=> t[i] \in D
    BY <1>1 DEF Alike, Tells
  <1> DEFINE k == First(s, D)
  <1>3. /\ k \in 1 .. Len(s) + 1 /\ (k <= Len(s) => s[k] \in D)
        /\ \A i \in 1 .. Len(s) : i < k => s[i] \notin D
    BY <1>1, FirstIs
  <1> HIDE DEF k
  <1>4. /\ k \in 1 .. Len(t) + 1 /\ (k <= Len(t) => t[k] \in D)
        /\ \A i \in 1 .. Len(t) : i < k => t[i] \notin D
    BY <1>1, <1>2, <1>3
  <1> QED
    BY <1>1, <1>4, FirstAt DEF k

\* Their parts are spelled alike.
LEMMA AlikePart ==
  ASSUME NEW f, NEW s, NEW t, Alike(f, s, t), NEW m \in Nat, NEW n \in Nat, m >= 1, n <= Len(s)
  PROVE  Alike(f, SubSeq(s, m, n), SubSeq(t, m, n))
  <1>1. /\ s \in Seq(Symbols) /\ t \in Seq(Symbols) /\ Len(s) = Len(t) /\ Len(s) \in Nat
        /\ \A i \in 1 .. Len(s) : f[s[i]] = f[t[i]]
    BY DEF Alike
  <1> DEFINE l == IF m <= n THEN n - m + 1 ELSE 0
  <1>2. /\ SubSeq(s, m, n) \in Seq(Symbols) /\ Len(SubSeq(s, m, n)) = l
        /\ \A i \in 1 .. l : SubSeq(s, m, n)[i] = s[m + i - 1]
    BY <1>1
  <1>3. /\ SubSeq(t, m, n) \in Seq(Symbols) /\ Len(SubSeq(t, m, n)) = l
        /\ \A i \in 1 .. l : SubSeq(t, m, n)[i] = t[m + i - 1]
    BY <1>1
  <1>4. \A i \in 1 .. l : m + i - 1 \in 1 .. Len(s)
    BY <1>1
  <1> HIDE DEF l
  <1> QED
    BY <1>1, <1>2, <1>3, <1>4 DEF Alike

\* So is what they are cut into.
LEMMA AlikeCut ==
  ASSUME NEW f, NEW s, NEW t, Alike(f, s, t), NEW D, Tells(f, D)
  PROVE  Alike(f, Until(s, D), Until(t, D)) /\ Alike(f, From(s, D), From(t, D))
  <1> DEFINE k == First(s, D)
             n == Len(s)
  <1>1. s \in Seq(Symbols) /\ Len(t) = n
    BY DEF Alike
  <1>2. k \in 1 .. n + 1 /\ First(t, D) = k /\ n \in Nat
    BY <1>1, FirstIs, AlikeFirst
  <1>3. /\ Until(s, D) = SubSeq(s, 1, k - 1) /\ Until(t, D) = SubSeq(t, 1, k - 1)
        /\ From(s, D) = SubSeq(s, k, n) /\ From(t, D) = SubSeq(t, k, n)
    BY <1>1, <1>2 DEF Until, From
  <1>4. 1 \in Nat /\ k - 1 \in Nat /\ k \in Nat /\ k - 1 <= Len(s) /\ k >= 1 /\ n <= Len(s)
    BY <1>2
  <1> HIDE DEF k, n
  <1>5. Alike(f, SubSeq(s, 1, k - 1), SubSeq(t, 1, k - 1))
    BY <1>4, AlikePart
  <1>6. Alike(f, SubSeq(s, k, n), SubSeq(t, k, n))
    BY <1>2, <1>4, AlikePart
  <1> QED
    BY <1>3, <1>5, <1>6

\* So is what is left of them.
LEMMA AlikeDrop ==
  ASSUME NEW f, NEW s, NEW t, Alike(f, s, t), NEW n \in Nat
  PROVE  Alike(f, Drop(s, n), Drop(t, n))
  <1>1. Len(s) \in Nat /\ Len(t) = Len(s) /\ n + 1 \in Nat /\ n + 1 >= 1
    BY DEF Alike
  <1> QED
    BY <1>1, AlikePart DEF Drop

\* Their spelling in canonical form is the same.
LEMMA AlikeSpelled ==
  ASSUME NEW s, NEW t
  PROVE  /\ Alike(lowers, s, t) => Each(Lower, s) = Each(Lower, t)
         /\ Alike(decodes, s, t) => NormalizePercent(s) = NormalizePercent(t)
  <1>1. ASSUME Alike(lowers, s, t) PROVE Each(Lower, s) = Each(Lower, t)
    <2>1. /\ s \in Seq(Symbols) /\ t \in Seq(Symbols) /\ Len(s) = Len(t)
          /\ \A i \in 1 .. Len(s) : lowers[s[i]] = lowers[t[i]]
      BY <1>1 DEF Alike
    <2>2. \A i \in 1 .. Len(s) : Lower(s[i]) = Lower(t[i])
      <3>1. \A i \in 1 .. Len(s) : s[i] \in Symbols /\ t[i] \in Symbols
        BY <2>1
      <3> QED
        BY <2>1, <3>1 DEF lowers
    <2>3. /\ Each(Lower, s) \in Seq(Lowered) /\ Len(Each(Lower, s)) = Len(s)
          /\ \A i \in 1 .. Len(s) : Each(Lower, s)[i] = Lower(s[i])
      BY <2>1, EachIs
    <2>4. /\ Each(Lower, t) \in Seq(Lowered) /\ Len(Each(Lower, t)) = Len(t)
          /\ \A i \in 1 .. Len(t) : Each(Lower, t)[i] = Lower(t[i])
      BY <2>1, EachIs
    <2>5. \A i \in 1 .. Len(Each(Lower, s)) : Each(Lower, s)[i] = Each(Lower, t)[i]
      BY <2>1, <2>2, <2>3, <2>4
    <2>6. Len(Each(Lower, s)) = Len(Each(Lower, t))
      BY <2>1, <2>3, <2>4
    <2> QED
      BY <2>3, <2>4, <2>5, <2>6, SeqEqual
  <1>2. ASSUME Alike(decodes, s, t) PROVE NormalizePercent(s) = NormalizePercent(t)
    <2>1. /\ s \in Seq(Symbols) /\ t \in Seq(Symbols) /\ Len(s) = Len(t)
          /\ \A i \in 1 .. Len(s) : decodes[s[i]] = decodes[t[i]]
      BY <1>2 DEF Alike
    <2>2. \A i \in 1 .. Len(s) : Decode(s[i]) = Decode(t[i])
      <3>1. \A i \in 1 .. Len(s) : s[i] \in Symbols /\ t[i] \in Symbols
        BY <2>1
      <3> QED
        BY <2>1, <3>1 DEF decodes
    <2>3. /\ NormalizePercent(s) \in Seq(Decoded) /\ Len(NormalizePercent(s)) = Len(s)
          /\ \A i \in 1 .. Len(s) : NormalizePercent(s)[i] = Decode(s[i])
      BY <2>1, EachIs
    <2>4. /\ NormalizePercent(t) \in Seq(Decoded) /\ Len(NormalizePercent(t)) = Len(t)
          /\ \A i \in 1 .. Len(t) : NormalizePercent(t)[i] = Decode(t[i])
      BY <2>1, EachIs
    <2> QED
      BY <2>1, <2>2, <2>3, <2>4, SeqEqual
  <1> QED
    BY <1>1, <1>2

\* Where the last "@" is does not depend on the spelling.
LEMMA AlikeHostPort ==
  ASSUME NEW s, NEW t, Alike(lowers, s, t)
  PROVE  Alike(lowers, HostPort(s), HostPort(t))
  <1> DEFINE at == {i \in DOMAIN s : s[i] = "@"} \cup {0}
             k == Max(at)
  <1>1. /\ s \in Seq(Symbols) /\ t \in Seq(Symbols) /\ Len(s) = Len(t) /\ Len(s) \in Nat
        /\ DOMAIN s = 1 .. Len(s) /\ DOMAIN t = 1 .. Len(s)
        /\ \A i \in 1 .. Len(s) : s[i] \in Symbols /\ t[i] \in Symbols
    BY DEF Alike
  <1>2. {i \in DOMAIN t : t[i] = "@"} \cup {0} = at
    <2>1. \A i \in 1 .. Len(s) : s[i] = "@" <=> t[i] = "@"
      <3>1. \A i \in 1 .. Len(s) : Lower(s[i]) = Lower(t[i])
        BY <1>1 DEF Alike, lowers
      <3> QED
        BY <3>1, LowerIs DEF Delimiters
    <2> QED
      BY <1>1, <2>1
  <1>3. k \in Nat
    <2>1. at \subseteq Nat /\ at # {} /\ \A x \in at : x <= Len(s)
      BY <1>1
    <2> HIDE DEF at
    <2>2. \E x \in at : \A y \in at : x >= y
      BY <1>1, <2>1, GreatestNumber
    <2>3. k \in at
      BY <2>2 DEF Max
    <2> QED
      BY <2>1, <2>3
  <1>4. HostPort(s) = Drop(s, k) /\ HostPort(t) = Drop(t, k)
    BY <1>2 DEF HostPort
  <1> HIDE DEF k
  <1> QED
    BY <1>3, <1>4, AlikeDrop

\* Their symbols are of the same kinds.
LEMMA AlikeSymbols ==
  ASSUME NEW s, NEW t, Alike(lowers, s, t)
  PROVE  /\ s \in Seq(Symbols) /\ t \in Seq(Symbols) /\ Len(s) = Len(t) /\ Len(s) \in Nat
         /\ s = <<>> <=> t = <<>>
         /\ \A i \in 1 .. Len(s) :
              /\ Lower(s[i]) = Lower(t[i])
              /\ s[i] \in Plain <=> t[i] \in Plain
              /\ s[i] \in Letters <=> t[i] \in Letters
              /\ s[i] \in Addresses <=> t[i] \in Addresses
              /\ \A d \in Delimiters \cup Digits : s[i] = d <=> t[i] = d
  <1>1. /\ s \in Seq(Symbols) /\ t \in Seq(Symbols) /\ Len(s) = Len(t) /\ Len(s) \in Nat
        /\ \A i \in 1 .. Len(s) : s[i] \in Symbols /\ t[i] \in Symbols
    BY DEF Alike
  <1>2. s = <<>> <=> t = <<>>
    BY <1>1, NotEmpty
  <1>3. \A i \in 1 .. Len(s) : Lower(s[i]) = Lower(t[i])
    BY <1>1 DEF Alike, lowers
  <1>4. ASSUME NEW i \in 1 .. Len(s)
        PROVE  /\ s[i] \in Plain <=> t[i] \in Plain
               /\ s[i] \in Letters <=> t[i] \in Letters
               /\ s[i] \in Addresses <=> t[i] \in Addresses
               /\ \A d \in Delimiters \cup Digits : s[i] = d <=> t[i] = d
    BY <1>3, LowerIs
  <1> QED
    BY <1>1, <1>2, <1>3, <1>4

\* Their hosts and ports are spelled alike.
LEMMA AlikeHost ==
  ASSUME NEW s, NEW t, Alike(lowers, s, t)
  PROVE  /\ Alike(lowers, Host(s), Host(t)) /\ Alike(lowers, PortPart(s), PortPart(t))
         /\ IsPrefix(<<"[">>, s) <=> IsPrefix(<<"[">>, t)
  <1>1. /\ s \in Seq(Symbols) /\ t \in Seq(Symbols) /\ Len(s) = Len(t) /\ Len(s) \in Nat
        /\ s = <<>> <=> t = <<>>
    BY AlikeSymbols
  <1>2. IsPrefix(<<"[">>, s) <=> IsPrefix(<<"[">>, t)
    <2>1. s # <<>> => (s[1] = "[" <=> t[1] = "[")
      BY AlikeSymbols, NotEmpty DEF Delimiters
    <2> QED
      BY <1>1, <2>1, BracketIs
  <1>3. {"]"} \in SUBSET (Delimiters \cup Digits) /\ {":"} \in SUBSET (Delimiters \cup Digits)
    BY DEF Delimiters
  <1>4. Tells(lowers, {"]"}) /\ Tells(lowers, {":"})
    BY <1>3, TellsKinds
  <1>5. Alike(lowers, Host(s), Host(t))
    <2>1. CASE IsPrefix(<<"[">>, s)
      <3> DEFINE n == Min({First(s, {"]"}), Len(s)})
      <3>1. First(s, {"]"}) = First(t, {"]"})
        BY <1>4, AlikeFirst
      <3>2. Host(s) = SubSeq(s, 1, n) /\ Host(t) = SubSeq(t, 1, n)
        BY <1>1, <1>2, <2>1, <3>1 DEF Host
      <3>3. n \in Nat /\ n <= Len(s)
        <4>1. First(s, {"]"}) \in 1 .. Len(s) + 1
          BY <1>1, FirstIs
        <4>2. \A x, y \in Nat : Min({x, y}) \in Nat /\ Min({x, y}) <= y
          <5> SUFFICES ASSUME NEW x \in Nat, NEW y \in Nat
                       PROVE  Min({x, y}) \in Nat /\ Min({x, y}) <= y
            OBVIOUS
          <5>1. CASE x <= y
            <6>1. Min({x, y}) = x
              BY <5>1 DEF Min
            <6> QED
              BY <5>1, <6>1
          <5>2. CASE x > y
            <6>1. Min({x, y}) = y
              BY <5>2 DEF Min
            <6> QED
              BY <6>1
          <5> QED
            BY <5>1, <5>2
        <4> QED
          BY <1>1, <4>1, <4>2
      <3> HIDE DEF n
      <3> QED
        BY <3>2, <3>3, AlikePart
    <2>2. CASE ~IsPrefix(<<"[">>, s)
      BY <1>2, <1>4, <2>2, AlikeCut DEF Host
    <2> QED
      BY <2>1, <2>2
  <1>6. Alike(lowers, PortPart(s), PortPart(t))
    <2>1. Len(Host(s)) \in Nat /\ Len(Host(t)) = Len(Host(s))
      BY <1>5, AlikeSymbols
    <2> QED
      BY <2>1, AlikeDrop DEF PortPart
  <1> QED
    BY <1>2, <1>5, <1>6

\* Their canonical hosts are the same.
LEMMA AlikeCanonicalHost ==
  ASSUME NEW s, NEW t, Alike(lowers, s, t)
  PROVE  CanonicalHost(s) = CanonicalHost(t)
  <1> DEFINE a == Host(s)
             b == Host(t)
  <1>1. Alike(lowers, a, b) /\ (IsPrefix(<<"[">>, s) <=> IsPrefix(<<"[">>, t))
    BY AlikeHost
  <1> HIDE DEF a, b
  <1>2. /\ a \in Seq(Symbols) /\ b \in Seq(Symbols) /\ Len(a) = Len(b) /\ Len(a) \in Nat
        /\ a = <<>> <=> b = <<>>
    BY <1>1, AlikeSymbols
  <1>3. (Last(a) = "]" <=> Last(b) = "]") /\ (Last(a) = "." <=> Last(b) = ".")
    <2>1. CASE a = <<>>
      BY <1>2, <2>1
    <2>2. CASE a # <<>>
      <3>1. Len(a) \in 1 .. Len(a)
        BY <1>2, <2>2, NotEmpty
      <3> QED
        BY <1>1, <1>2, <3>1, AlikeSymbols DEF Last, Delimiters
    <2> QED
      BY <2>1, <2>2
  <1>4. Labelled(a) <=> Labelled(b)
    <2>1. \A i \in 1 .. Len(a) : /\ a[i] \in Plain <=> b[i] \in Plain
                                 /\ a[i] = "." <=> b[i] = "."
      BY <1>1, AlikeSymbols DEF Delimiters
    <2>2. \A i \in 1 .. Len(a) : i > 1 => i - 1 \in 1 .. Len(a)
      BY <1>2
    <2> QED
      BY <1>2, <2>1, <2>2, LabelledIs
  <1>5. CanonicalIpv6(a) = CanonicalIpv6(b)
    <2>1. Each(Lower, a) = Each(Lower, b)
      BY <1>1, AlikeSpelled
    <2>2. Len(a) = 3 => (a[2] \in Addresses <=> b[2] \in Addresses)
      BY <1>1, AlikeSymbols
    <2>3. Len(a) = 3 <=> Len(b) = 3
      BY <1>2, Zenon
    <2> QED
      BY <2>1, <2>2, <2>3, Zenon DEF CanonicalIpv6
  <1>6. a # <<>> => Each(Lower, Trimmed(a)) = Each(Lower, Trimmed(b))
    <2> SUFFICES ASSUME a # <<>> PROVE Alike(lowers, Trimmed(a), Trimmed(b))
      BY AlikeSpelled
    <2>1. Len(a) >= 1 /\ b # <<>>
      BY <1>2, NotEmpty
    <2>2. Alike(lowers, Front(a), Front(b))
      <3>1. 1 \in Nat /\ Len(a) - 1 \in Nat /\ Len(a) - 1 <= Len(a)
        BY <1>2, <2>1
      <3>2. Alike(lowers, SubSeq(a, 1, Len(a) - 1), SubSeq(b, 1, Len(a) - 1))
        BY <1>1, <3>1, AlikePart
      <3> QED
        BY <1>2, <3>2 DEF Front
    <2> QED
      BY <1>1, <1>3, <2>1, <2>2 DEF Trimmed
  <1>7. CanonicalDnsHost(a) = CanonicalDnsHost(b)
    BY <1>2, <1>4, <1>6 DEF CanonicalDnsHost
  <1> QED
    BY <1>1, <1>3, <1>5, <1>7 DEF CanonicalHost, a, b

\* Their ports are the same.
LEMMA AlikePort ==
  ASSUME NEW p, NEW q, Alike(lowers, p, q)
  PROVE  (ValidPort(p) <=> ValidPort(q)) /\ (ValidPort(p) => p = q)
  <1>1. /\ p \in Seq(Symbols) /\ q \in Seq(Symbols) /\ Len(p) = Len(q) /\ Len(p) \in Nat
        /\ p = <<>> <=> q = <<>>
    BY AlikeSymbols
  <1>2. p # <<>> => Len(p) >= 1
    BY <1>1, NotEmpty
  <1>3. \A i \in 1 .. Len(p) : \A d \in {":"} \cup Digits : p[i] = d <=> q[i] = d
    BY AlikeSymbols DEF Delimiters
  <1>4. \A i \in 1 .. Len(p) : p[i] \in Digits <=> q[i] \in Digits
    BY <1>3
  <1>5. p # <<>> => (p[1] = ":" <=> q[1] = ":")
    BY <1>1, <1>2, <1>3
  <1>6. ValidPort(p) <=> ValidPort(q)
    BY <1>1, <1>2, <1>4, <1>5 DEF ValidPort
  <1>7. ASSUME ValidPort(p) PROVE p = q
    <2>1. ASSUME NEW i \in 1 .. Len(p) PROVE p[i] = q[i]
      <3>1. p[i] \in {":"} \cup Digits
        <4>1. p # <<>>
          BY <1>1, NotEmpty
        <4> QED
          BY <1>1, <1>7, <4>1 DEF ValidPort
      <3> QED
        BY <1>3, <3>1
    <2> QED
      BY <1>1, <2>1, SeqEqual
  <1> QED
    BY <1>6, <1>7

\* Their canonical authorities are the same.
LEMMA AlikeAuthority ==
  ASSUME NEW s, NEW t, Alike(lowers, Scheme(s), Scheme(t)),
         Alike(lowers, Authority(s), Authority(t))
  PROVE  CanonicalAuthority(s) = CanonicalAuthority(t)
  <1> DEFINE a == HostPort(Authority(s))
             b == HostPort(Authority(t))
  <1>1. Alike(lowers, a, b)
    BY AlikeHostPort
  <1> HIDE DEF a, b
  <1>2. CanonicalHost(a) = CanonicalHost(b)
    BY <1>1, AlikeCanonicalHost
  <1>3. /\ ValidPort(PortPart(a)) <=> ValidPort(PortPart(b))
        /\ ValidPort(PortPart(a)) => PortPart(a) = PortPart(b)
    BY <1>1, AlikeHost, AlikePort
  <1>4. CanonicalScheme(s) = CanonicalScheme(t)
    BY AlikeSpelled DEF CanonicalScheme
  <1>5. CASE CanonicalHost(a) = Malformed \/ ~ValidPort(PortPart(a))
    BY <1>2, <1>3, <1>5 DEF CanonicalAuthority, a, b
  <1>6. CASE ~(CanonicalHost(a) = Malformed \/ ~ValidPort(PortPart(a)))
    <2>1. PortPart(a) = PortPart(b) /\ ValidPort(PortPart(b))
      BY <1>3, <1>6
    <2> QED
      BY <1>2, <1>4, <1>6, <2>1 DEF CanonicalAuthority, a, b
  <1> QED
    BY <1>5, <1>6

\* How much of a text is scheme and authority, with what stands about them.
Length(text) == Len(text) - Len(Remainder(text))

\* The other text spells scheme and authority in letters of another case, and
\* encodes other characters of the rest.
Respelled(text, other) ==
  /\ text \in Seq(Symbols) /\ other \in Seq(Symbols) /\ Len(text) = Len(other)
  /\ \A i \in 1 .. Len(text) :
       IF i <= Length(text) THEN lowers[text[i]] = lowers[other[i]]
       ELSE decodes[text[i]] = decodes[other[i]]

\* Parts that are spelled alike, of texts that are not.
LEMMA AlikeFrom ==
  ASSUME NEW f, NEW s \in Seq(Symbols), NEW t \in Seq(Symbols), Len(s) = Len(t),
         NEW m \in Nat, NEW n \in Nat, m >= 1, n <= Len(s),
         \A i \in m .. n : f[s[i]] = f[t[i]]
  PROVE  Alike(f, SubSeq(s, m, n), SubSeq(t, m, n))
  <1> DEFINE l == IF m <= n THEN n - m + 1 ELSE 0
  <1>1. /\ SubSeq(s, m, n) \in Seq(Symbols) /\ Len(SubSeq(s, m, n)) = l
        /\ \A i \in 1 .. l : SubSeq(s, m, n)[i] = s[m + i - 1]
    OBVIOUS
  <1>2. /\ SubSeq(t, m, n) \in Seq(Symbols) /\ Len(SubSeq(t, m, n)) = l
        /\ \A i \in 1 .. l : SubSeq(t, m, n)[i] = t[m + i - 1]
    OBVIOUS
  <1>3. \A i \in 1 .. l : m + i - 1 \in m .. n
    OBVIOUS
  <1> HIDE DEF l
  <1> QED
    BY <1>1, <1>2, <1>3 DEF Alike

\* A part of a part is a part.
LEMMA PartOfPart ==
  ASSUME NEW A, NEW text \in Seq(A), NEW k \in Nat, NEW n \in Nat, NEW a \in Nat, NEW b \in Nat,
         k >= 1, n <= Len(text), k <= n + 1, a >= 1, a <= b + 1, k + b <= n + 1
  PROVE  SubSeq(SubSeq(text, k, n), a, b) = SubSeq(text, k + a - 1, k + b - 1)
  <1> DEFINE part == SubSeq(text, k, n)
  <1>1. /\ part \in Seq(A) /\ Len(part) = n - k + 1
        /\ \A i \in 1 .. n - k + 1 : part[i] = text[k + i - 1]
    OBVIOUS
  <1> HIDE DEF part
  <1> DEFINE left == SubSeq(part, a, b)
             right == SubSeq(text, k + a - 1, k + b - 1)
  <1>2. /\ left \in Seq(A) /\ Len(left) = b - a + 1
        /\ \A i \in 1 .. b - a + 1 : left[i] = part[a + i - 1]
    BY <1>1
  <1>3. /\ right \in Seq(A) /\ Len(right) = b - a + 1
        /\ \A i \in 1 .. b - a + 1 : right[i] = text[k + a - 1 + i - 1]
    OBVIOUS
  <1> HIDE DEF left, right
  <1>4. ASSUME NEW i \in 1 .. b - a + 1 PROVE left[i] = right[i]
    <2>1. a + i - 1 \in 1 .. n - k + 1 /\ k + (a + i - 1) - 1 = k + a - 1 + i - 1
      OBVIOUS
    <2>2. part[a + i - 1] = text[k + (a + i - 1) - 1]
      BY <1>1, <2>1
    <2> QED
      BY <1>2, <1>3, <2>1, <2>2
  <1> QED
    BY <1>2, <1>3, <1>4, SeqEqual DEF left, right, part

\* Where the parts of a URL are in its text.
LEMMA PartsAt ==
  ASSUME NEW text \in Seq(Symbols), NEW n \in Nat, Len(text) = n,
         NEW k \in 1 .. n, First(text, {":"}) = k, n - k >= 2
  PROVE  /\ Scheme(text) = SubSeq(text, 1, k - 1)
         /\ AfterScheme(text) = SubSeq(text, k + 1, n)
         /\ Drop(AfterScheme(text), 2) = SubSeq(text, k + 3, n)
         /\ \A m \in 1 .. n - k - 1 :
              First(SubSeq(text, k + 3, n), {"/", "?", "#"}) = m =>
                /\ Authority(text) = SubSeq(text, k + 3, k + m + 1)
                /\ Remainder(text) = SubSeq(text, k + m + 2, n)
  <1>1. Scheme(text) = SubSeq(text, 1, k - 1) /\ From(text, {":"}) = SubSeq(text, k, n)
    BY DEF Scheme, Until, From
  <1>2. Len(SubSeq(text, k, n)) = n - k + 1 /\ k + 2 - 1 = k + 1 /\ k + (n - k + 1) - 1 = n
    OBVIOUS
  <1>3. AfterScheme(text) = SubSeq(text, k + 1, n)
    <2>1. AfterScheme(text) = SubSeq(SubSeq(text, k, n), 2, n - k + 1)
      BY <1>1, <1>2 DEF AfterScheme, Drop
    <2>2. 2 \in Nat /\ n - k + 1 \in Nat /\ k \in Nat
      OBVIOUS
    <2>3. SubSeq(SubSeq(text, k, n), 2, n - k + 1) = SubSeq(text, k + 2 - 1, k + (n - k + 1) - 1)
      BY <2>2, PartOfPart
    <2> QED
      BY <1>2, <2>1, <2>3
  <1>4. Len(SubSeq(text, k + 1, n)) = n - k /\ k + 1 + 3 - 1 = k + 3 /\ k + 1 + (n - k) - 1 = n
    OBVIOUS
  <1>5. Drop(AfterScheme(text), 2) = SubSeq(text, k + 3, n)
    <2>1. Drop(AfterScheme(text), 2) = SubSeq(SubSeq(text, k + 1, n), 3, n - k)
      BY <1>3, <1>4 DEF Drop
    <2>2. 3 \in Nat /\ n - k \in Nat /\ k + 1 \in Nat
      OBVIOUS
    <2>3. SubSeq(SubSeq(text, k + 1, n), 3, n - k) = SubSeq(text, k + 1 + 3 - 1, k + 1 + (n - k) - 1)
      BY <2>2, PartOfPart
    <2> QED
      BY <1>4, <2>1, <2>3
  <1>6. ASSUME NEW m \in 1 .. n - k - 1,
               First(SubSeq(text, k + 3, n), {"/", "?", "#"}) = m
        PROVE  /\ Authority(text) = SubSeq(text, k + 3, k + m + 1)
               /\ Remainder(text) = SubSeq(text, k + m + 2, n)
    <2> DEFINE rest == SubSeq(text, k + 3, n)
    <2>1. /\ Len(rest) = n - k - 2 /\ k + 3 \in Nat /\ m - 1 \in Nat /\ 1 \in Nat
          /\ k + 3 + 1 - 1 = k + 3 /\ k + 3 + (m - 1) - 1 = k + m + 1
          /\ k + 3 + m - 1 = k + m + 2 /\ k + 3 + (n - k - 2) - 1 = n
          /\ n - k - 2 \in Nat /\ m \in Nat
      OBVIOUS
    <2>2. SubSeq(rest, 1, m - 1) = SubSeq(text, k + 3 + 1 - 1, k + 3 + (m - 1) - 1)
      BY <2>1, PartOfPart
    <2>3. SubSeq(rest, m, n - k - 2) = SubSeq(text, k + 3 + m - 1, k + 3 + (n - k - 2) - 1)
      BY <2>1, PartOfPart
    <2> HIDE DEF rest
    <2>4. Authority(text) = SubSeq(rest, 1, m - 1)
      BY <1>5, <1>6 DEF Authority, Until, rest
    <2>5. Remainder(text) = SubSeq(rest, m, n - k - 2)
      BY <1>5, <1>6, <2>1 DEF Remainder, From, rest
    <2> QED
      BY <2>1, <2>2, <2>3, <2>4, <2>5
  <1> QED
    BY <1>1, <1>3, <1>5, <1>6

\* Texts of one spelling or the other have the same parts.
LEMMA RespelledParts ==
  ASSUME NEW s, NEW t, Respelled(s, t), First(s, {":"}) <= Len(s),
         Len(AfterScheme(s)) >= 2
  PROVE  /\ Alike(lowers, Scheme(s), Scheme(t)) /\ Alike(marks, s, t)
         /\ Alike(lowers, SubSeq(AfterScheme(s), 1, 2), SubSeq(AfterScheme(t), 1, 2))
         /\ Alike(lowers, Authority(s), Authority(t))
         /\ Alike(decodes, Remainder(s), Remainder(t))
         /\ Len(AfterScheme(t)) = Len(AfterScheme(s))
         /\ Len(Scheme(s)) < Length(s)
  <1> DEFINE n == Len(s)
             k == First(s, {":"})
             D == {"/", "?", "#"}
             m == First(SubSeq(s, k + 3, n), D)
             b == Length(s)
  <1>1. /\ s \in Seq(Symbols) /\ t \in Seq(Symbols) /\ Len(t) = n /\ n \in Nat
        /\ Len(s) = n /\ \A i \in 1 .. n : s[i] \in Symbols /\ t[i] \in Symbols
    BY DEF Respelled
  <1>2. Alike(marks, s, t)
    <2>1. \A i \in 1 .. n : Lower(s[i]) = Lower(t[i]) \/ Decode(s[i]) = Decode(t[i])
      BY <1>1 DEF Respelled, lowers, decodes
    <2>2. \A i \in 1 .. n : \A d \in {":", "/", "?", "#"} : s[i] = d <=> t[i] = d
      BY <2>1, LowerIs, DecodeIs DEF Delimiters
    <2>3. \A i \in 1 .. n : marks[s[i]] = marks[t[i]]
      BY <1>1, <2>2 DEF marks
    <2> QED
      BY <1>1, <2>3 DEF Alike
  <1>3. k \in 1 .. n /\ First(t, {":"}) = k
    BY <1>1, <1>2, FirstIs, AlikeFirst, TellsKinds
  <1>4. n - k >= 2
    <2>1. Len(From(s, {":"})) = n - k + 1 /\ From(s, {":"}) \in Seq(Symbols)
      BY <1>1, <1>3, FromIs
    <2> DEFINE from == From(s, {":"})
    <2>2. 1 \in 0 .. Len(from)
      BY <1>1, <1>3, <2>1
    <2>3. Len(AfterScheme(s)) = Len(Drop(from, 1))
      BY DEF AfterScheme
    <2> HIDE DEF from
    <2>4. Len(Drop(from, 1)) = Len(from) - 1
      BY <2>1, <2>2, DropIs DEF from
    <2>5. Len(AfterScheme(s)) = n - k
      BY <1>1, <1>3, <2>1, <2>3, <2>4 DEF from
    <2> QED
      BY <2>5
  <1> HIDE DEF m, n
  <1>5. /\ m \in 1 .. n - k - 1
        /\ First(SubSeq(s, k + 3, n), D) = m /\ First(SubSeq(t, k + 3, n), D) = m
    <2>1. k + 3 \in Nat /\ k + 3 >= 1 /\ n <= Len(s)
      BY <1>1, <1>3
    <2> HIDE DEF k
    <2>2. Alike(marks, SubSeq(s, k + 3, n), SubSeq(t, k + 3, n))
      BY <1>1, <1>2, <2>1, AlikePart
    <2>3. SubSeq(s, k + 3, n) \in Seq(Symbols) /\ Len(SubSeq(s, k + 3, n)) = n - k - 2
      BY <1>1, <1>3, <1>4
    <2>4. Tells(marks, D)
      BY TellsKinds
    <2>5. First(SubSeq(s, k + 3, n), D) \in 1 .. (n - k - 2) + 1
      BY <2>3, FirstIs
    <2>6. First(SubSeq(t, k + 3, n), D) = First(SubSeq(s, k + 3, n), D)
      BY <2>2, <2>4, AlikeFirst
    <2> QED
      BY <1>1, <1>3, <1>4, <2>5, <2>6 DEF m
  <1> HIDE DEF k
  <1>6. /\ Scheme(s) = SubSeq(s, 1, k - 1) /\ AfterScheme(s) = SubSeq(s, k + 1, n)
        /\ Authority(s) = SubSeq(s, k + 3, k + m + 1)
        /\ Remainder(s) = SubSeq(s, k + m + 2, n)
    BY <1>1, <1>3, <1>4, <1>5, PartsAt DEF k
  <1>7. /\ Scheme(t) = SubSeq(t, 1, k - 1) /\ AfterScheme(t) = SubSeq(t, k + 1, n)
        /\ Authority(t) = SubSeq(t, k + 3, k + m + 1)
        /\ Remainder(t) = SubSeq(t, k + m + 2, n)
    BY <1>1, <1>3, <1>4, <1>5, PartsAt
  <1>8. b = k + m + 1
    <2>1. Len(SubSeq(s, k + m + 2, n)) = n - k - m - 1
      BY <1>1, <1>3, <1>4, <1>5
    <2> QED
      <3>1. b = n - Len(SubSeq(s, k + m + 2, n))
        BY <1>1, <1>6 DEF Length
      <3> HIDE DEF b
      <3> QED
        BY <1>1, <1>3, <1>5, <2>1, <3>1
  <1> HIDE DEF b
  <1>9. /\ \A i \in 1 .. b : lowers[s[i]] = lowers[t[i]]
        /\ \A i \in b + 1 .. n : decodes[s[i]] = decodes[t[i]]
    BY <1>1, <1>3, <1>4, <1>5, <1>8 DEF Respelled, b
  <1>10. Alike(lowers, Scheme(s), Scheme(t))
    <2>1. 1 \in Nat /\ 1 >= 1 /\ k - 1 \in Nat /\ k - 1 <= Len(s)
      BY <1>1, <1>3, <1>5, <1>8
    <2>2. \A i \in 1 .. k - 1 : lowers[s[i]] = lowers[t[i]]
      BY <1>1, <1>3, <1>5, <1>8, <1>9
    <2> DEFINE y == k - 1
    <2> HIDE DEF y
    <2>3. Alike(lowers, SubSeq(s, 1, y), SubSeq(t, 1, y))
      BY <1>1, <2>1, <2>2, AlikeFrom DEF y
    <2> QED
      BY <1>6, <1>7, <2>3 DEF y
  <1>11. Alike(lowers, Authority(s), Authority(t))
    <2> DEFINE x == k + 3
               y == k + m + 1
    <2>1. /\ x \in Nat /\ y \in Nat /\ x >= 1 /\ y <= Len(s)
          /\ \A i \in x .. y : i \in 1 .. b
      BY <1>1, <1>3, <1>4, <1>5, <1>8
    <2> HIDE DEF x, y
    <2>2. \A i \in x .. y : lowers[s[i]] = lowers[t[i]]
      BY <1>9, <2>1
    <2>3. Alike(lowers, SubSeq(s, x, y), SubSeq(t, x, y))
      BY <1>1, <2>1, <2>2, AlikeFrom
    <2> QED
      BY <1>6, <1>7, <2>3 DEF x, y
  <1>12. Alike(decodes, Remainder(s), Remainder(t))
    <2> DEFINE x == k + m + 2
    <2>1. /\ x \in Nat /\ x >= 1 /\ n <= Len(s)
          /\ \A i \in x .. n : i \in b + 1 .. n
      BY <1>1, <1>3, <1>4, <1>5, <1>8
    <2> HIDE DEF x
    <2>2. \A i \in x .. n : decodes[s[i]] = decodes[t[i]]
      BY <1>9, <2>1
    <2>3. Alike(decodes, SubSeq(s, x, n), SubSeq(t, x, n))
      BY <1>1, <2>1, <2>2, AlikeFrom
    <2> QED
      BY <1>6, <1>7, <2>3 DEF x
  <1>13. Alike(lowers, SubSeq(AfterScheme(s), 1, 2), SubSeq(AfterScheme(t), 1, 2))
    <2> DEFINE j == k + 1
    <2>1. /\ j \in Nat /\ 1 \in Nat /\ 2 \in Nat /\ n \in Nat
          /\ j >= 1 /\ n <= Len(s) /\ n <= Len(t) /\ j <= n + 1
          /\ 1 >= 1 /\ 1 <= 2 + 1 /\ j + 2 <= n + 1
      BY <1>1, <1>3, <1>4
    <2>2. j + 1 - 1 = j /\ j + 2 - 1 = k + 2 /\ k + 2 \in Nat /\ k + 2 <= Len(s)
      BY <1>1, <1>3, <1>4
    <2>3. \A i \in j .. k + 2 : lowers[s[i]] = lowers[t[i]]
      BY <1>1, <1>3, <1>4, <1>5, <1>8, <1>9
    <2> HIDE DEF j
    <2>4. ASSUME NEW u \in Seq(Symbols), n <= Len(u)
          PROVE  SubSeq(SubSeq(u, j, n), 1, 2) = SubSeq(u, j + 1 - 1, j + 2 - 1)
      BY <2>1, <2>4, PartOfPart
    <2>5. Alike(lowers, SubSeq(s, j, k + 2), SubSeq(t, j, k + 2))
      BY <1>1, <2>1, <2>2, <2>3, AlikeFrom
    <2>6. AfterScheme(s) = SubSeq(s, j, n) /\ AfterScheme(t) = SubSeq(t, j, n)
      BY <1>6, <1>7 DEF j
    <2> QED
      BY <1>1, <2>1, <2>2, <2>4, <2>5, <2>6
  <1>14. Len(AfterScheme(s)) = n - k /\ Len(AfterScheme(t)) = n - k
    BY <1>1, <1>3, <1>6, <1>7
  <1>15. Len(Scheme(s)) < b
    <2>1. Len(SubSeq(s, 1, k - 1)) = k - 1
      BY <1>1, <1>3
    <2> QED
      BY <1>3, <1>5, <1>6, <1>8, <2>1
  <1> QED
    BY <1>2, <1>10, <1>11, <1>12, <1>13, <1>14, <1>15 DEF b

\* An authority is told by the slashes before it.
LEMMA SlashesAre ==
  ASSUME NEW A, NEW text \in Seq(A)
  PROVE  IsPrefix(<<"/", "/">>, text) <=> Len(text) >= 2 /\ text[1] = "/" /\ text[2] = "/"
  BY DEF IsPrefix

\* Another spelling has the same slashes.
LEMMA RespelledSlashes ==
  ASSUME NEW s, NEW t, Len(s) = Len(t), s \in Seq(Symbols), t \in Seq(Symbols),
         Alike(lowers, SubSeq(s, 1, 2), SubSeq(t, 1, 2)), IsPrefix(<<"/", "/">>, s)
  PROVE  IsPrefix(<<"/", "/">>, t)
  <1> DEFINE a == SubSeq(s, 1, 2)
             b == SubSeq(t, 1, 2)
  <1>1. Len(s) >= 2 /\ s[1] = "/" /\ s[2] = "/" /\ Len(t) >= 2
    BY SlashesAre
  <1>2. Len(a) >= 2 /\ a[1] = s[1] /\ a[2] = s[2] /\ b[1] = t[1] /\ b[2] = t[2]
    BY <1>1
  <1> HIDE DEF a, b
  <1>3. \A i \in 1 .. Len(a) : a[i] = "/" <=> b[i] = "/"
    <2>1. Alike(lowers, a, b) /\ "/" \in Delimiters \cup Digits
      BY DEF a, b, Delimiters
    <2> QED
      BY <2>1, AlikeSymbols
  <1>4. 1 \in 1 .. Len(a) /\ 2 \in 1 .. Len(a)
    <2>1. Len(a) \in Nat
      BY AlikeSymbols DEF a, b
    <2> QED
      BY <1>2, <2>1
  <1>5. t[1] = "/" /\ t[2] = "/"
    BY <1>1, <1>2, <1>3, <1>4
  <1> QED
    BY <1>1, <1>5, SlashesAre

\* However it is spelled, a URL has one canonical form.
LEMMA RespelledSame ==
  ASSUME NEW s, NEW t, Respelled(s, t), CanonicalizeUrl(s) # Malformed
  PROVE  CanonicalizeUrl(t) = CanonicalizeUrl(s)
  <1>1. /\ s \in Seq(Symbols) /\ t \in Seq(Symbols) /\ Len(t) = Len(s) /\ Len(s) \in Nat
        /\ HasScheme(s) /\ IsPrefix(<<"/", "/">>, AfterScheme(s))
        /\ CanonicalAuthority(s) # Malformed
    BY DEF CanonicalizeUrl, Respelled
  <1>2. First(s, {":"}) <= Len(s) /\ Len(AfterScheme(s)) >= 2
    <2>1. AfterScheme(s) \in Seq(Symbols)
      BY <1>1, PartsIn
    <2> QED
      BY <1>1, <2>1, SlashesAre DEF HasScheme
  <1>3. /\ Alike(lowers, Scheme(s), Scheme(t)) /\ Alike(marks, s, t)
        /\ Alike(lowers, SubSeq(AfterScheme(s), 1, 2), SubSeq(AfterScheme(t), 1, 2))
        /\ Alike(lowers, Authority(s), Authority(t))
        /\ Alike(decodes, Remainder(s), Remainder(t))
        /\ Len(AfterScheme(t)) = Len(AfterScheme(s))
    BY <1>2, RespelledParts
  <1>4. HasScheme(t)
    <2> DEFINE a == Scheme(s)
               b == Scheme(t)
    <2>1. First(t, {":"}) <= Len(t)
      BY <1>1, <1>2, <1>3, AlikeFirst, TellsKinds
    <2>2. /\ \A i \in 1 .. Len(a) : a[i] = s[i]
          /\ \A i \in 1 .. Len(b) : b[i] = t[i]
      BY <1>1, UntilIs DEF Scheme
    <2>3. /\ a # <<>> /\ s[1] \in Letters /\ \A i \in DOMAIN a : s[i] \in Plain
      BY <1>1 DEF HasScheme, Plain
    <2> HIDE DEF a, b
    <2>4. /\ a \in Seq(Symbols) /\ b \in Seq(Symbols) /\ Len(a) = Len(b) /\ Len(a) \in Nat
          /\ a = <<>> <=> b = <<>>
          /\ \A i \in 1 .. Len(a) : /\ a[i] \in Plain <=> b[i] \in Plain
                                    /\ a[i] \in Letters <=> b[i] \in Letters
      BY <1>3, AlikeSymbols DEF a, b
    <2>5. DOMAIN a = 1 .. Len(a) /\ DOMAIN b = 1 .. Len(a) /\ Len(a) >= 1
      BY <2>3, <2>4, NotEmpty
    <2>6. b # <<>> /\ t[1] \in Letters /\ \A i \in DOMAIN b : t[i] \in Plain
      BY <2>2, <2>3, <2>4, <2>5
    <2> QED
      BY <2>1, <2>6 DEF HasScheme, Plain, b
  <1>5. IsPrefix(<<"/", "/">>, AfterScheme(t))
    BY <1>1, <1>3, PartsIn, RespelledSlashes
  <1>6. CanonicalScheme(t) = CanonicalScheme(s)
    BY <1>3, AlikeSpelled DEF CanonicalScheme
  <1>7. CanonicalAuthority(t) = CanonicalAuthority(s)
    BY <1>3, AlikeAuthority
  <1>8. CanonicalPath(Path(t)) = CanonicalPath(Path(s))
    <2>1. Tells(decodes, {"?", "#"})
      BY TellsKinds
    <2>2. Alike(decodes, Path(s), Path(t))
      BY <1>3, <2>1, AlikeCut DEF Path
    <2>3. NormalizePercent(Path(s)) = NormalizePercent(Path(t))
      BY <2>2, AlikeSpelled
    <2> QED
      BY <2>3 DEF CanonicalPath
  <1>9. NormalizePercent(Query(t)) = NormalizePercent(Query(s))
    <2>1. Tells(decodes, {"?"}) /\ Tells(decodes, {"#"})
      BY TellsKinds
    <2>2. Alike(decodes, Until(Remainder(s), {"#"}), Until(Remainder(t), {"#"}))
      BY <1>3, <2>1, AlikeCut
    <2>3. Alike(decodes, Query(s), Query(t))
      BY <2>1, <2>2, AlikeCut DEF Query
    <2> QED
      BY <2>3, AlikeSpelled
  <1>10. CanonicalizeUrl(s) = Joined(CanonicalScheme(s), CanonicalAuthority(s),
                                     CanonicalPath(Path(s)), NormalizePercent(Query(s)))
    BY <1>1 DEF CanonicalizeUrl, Joined, Mark
  <1>11. CanonicalizeUrl(t) = Joined(CanonicalScheme(t), CanonicalAuthority(t),
                                     CanonicalPath(Path(t)), NormalizePercent(Query(t)))
    BY <1>1, <1>4, <1>5, <1>7 DEF CanonicalizeUrl, Joined, Mark
  <1> QED
    BY <1>6, <1>7, <1>8, <1>9, <1>10, <1>11

\* A spelling of a symbol that means the same where it stands.
LEMMA SpellingsAre ==
  ASSUME NEW i \in DOMAIN url, NEW symbol \in Spellings(i), CanonicalizeUrl(url) # Malformed,
         url \in Seq(Symbols)
  PROVE  /\ symbol \in Symbols
         /\ IF i <= Length(url) THEN Lower(url[i]) = Lower(symbol) ELSE Decode(url[i]) = Decode(symbol)
  <1>1. Len(Scheme(url)) < Length(url)
    <2>1. Respelled(url, url)
      BY DEF Respelled
    <2>2. /\ HasScheme(url) /\ IsPrefix(<<"/", "/">>, AfterScheme(url))
          /\ AfterScheme(url) \in Seq(Symbols)
      BY PartsIn DEF CanonicalizeUrl
    <2>3. First(url, {":"}) <= Len(url) /\ Len(AfterScheme(url)) >= 2
      BY <2>2, SlashesAre DEF HasScheme
    <2> QED
      BY <2>1, <2>3, RespelledParts
  <1>2. Len(Scheme(url)) \in Nat /\ Length(url) \in Int /\ i \in Nat
    <2>1. Scheme(url) \in Seq(Symbols) /\ Remainder(url) \in Seq(Symbols)
      BY PartsIn
    <2> QED
      BY <2>1 DEF Length
  <1>3. CASE i <= Len(Scheme(url))
    <2>1. Spellings(i) = UNION {s \in {{"https", "HTTPS"}, {"h", "H"}} : url[i] \in s}
      BY <1>3 DEF Spellings
    <2>2. symbol \in Symbols /\ Lower(url[i]) = Lower(symbol)
      BY <2>1 DEF Lower, Symbols, Letters
    <2> QED
      BY <1>1, <1>2, <1>3, <2>2
  <1>4. CASE i > Len(Scheme(url)) /\ i <= Length(url)
    <2>1. Spellings(i) = UNION {s \in {{"h", "H"}, {"::a", "::A"}} : url[i] \in s}
      BY <1>2, <1>4 DEF Spellings, Length
    <2>2. symbol \in Symbols /\ Lower(url[i]) = Lower(symbol)
      BY <2>1 DEF Lower, Symbols, Letters, Addresses
    <2> QED
      BY <1>4, <2>2
  <1>5. CASE i > Length(url)
    <2>1. Spellings(i) =
            UNION {s \in {{".", "%2e", "%2E"}, {"a", "%61"}, {"%2f", "%2F"}} : url[i] \in s}
      BY <1>1, <1>2, <1>5 DEF Spellings, Length
    <2>2. symbol \in Symbols /\ Decode(url[i]) = Decode(symbol)
      BY <2>1 DEF Decode, Symbols, Letters, Encoded
    <2> QED
      BY <1>2, <1>5, <2>2
  <1> QED
    BY <1>2, <1>3, <1>4, <1>5

\* One symbol in another spelling respells the URL.
LEMMA SpellingWritten == Written => SpellingIndifferent
  <1> SUFFICES ASSUME Written, CanonicalizeUrl(url) # Malformed,
                      NEW i \in DOMAIN url, NEW symbol \in Spellings(i)
               PROVE  UrlsEquivalent([url EXCEPT ![i] = symbol], url)
    BY DEF SpellingIndifferent
  <1> DEFINE other == [url EXCEPT ![i] = symbol]
  <1>1. url \in Seq(Symbols) /\ DOMAIN url = 1 .. Len(url) /\ Len(url) \in Nat
    BY DEF Written
  <1>2. /\ symbol \in Symbols
        /\ IF i <= Length(url) THEN Lower(url[i]) = Lower(symbol) ELSE Decode(url[i]) = Decode(symbol)
    BY <1>1, SpellingsAre
  <1>3. /\ other \in Seq(Symbols) /\ Len(other) = Len(url) /\ other[i] = symbol
        /\ \A j \in 1 .. Len(url) : j # i => other[j] = url[j]
    BY <1>1, <1>2
  <1> HIDE DEF other
  <1>4. ASSUME NEW j \in 1 .. Len(url)
        PROVE  IF j <= Length(url) THEN lowers[url[j]] = lowers[other[j]]
               ELSE decodes[url[j]] = decodes[other[j]]
    <2>1. url[j] \in Symbols
      BY <1>1
    <2>2. CASE j = i
      BY <1>2, <1>3, <2>1, <2>2 DEF lowers, decodes
    <2>3. CASE j # i
      BY <1>3, <2>3
    <2> QED
      BY <2>2, <2>3
  <1>5. Respelled(url, other)
    BY <1>1, <1>3, <1>4 DEF Respelled
  <1>6. CanonicalizeUrl(other) = CanonicalizeUrl(url)
    BY <1>5, RespelledSame
  <1> QED
    BY <1>6 DEF UrlsEquivalent, other

\* In whatever case scheme and host are written, and whichever characters of the
\* path and the query are encoded, a URL names the same agent (urls_equivalent).
THEOREM SpellingIndifferentAlways == Spec => []SpellingIndifferent
  BY WrittenAlways, SpellingWritten, PTL

-----------------------------------------------------------------------------
(* The segments of a path *)

\* Each value is made of the one before and its number.
Recurs(g, F, x) == g[0] = x /\ \A n \in Nat : g[n + 1] = F[n][g[n]]

\* A function can be defined by recursion.
LEMMA RecursionExists ==
  ASSUME NEW S, NEW x \in S, NEW F \in [Nat -> [S -> S]]
  PROVE  \E g \in [Nat -> S] : Recurs(g, F, x)
  <1> DEFINE G == [p \in Nat \X S |-> <<p[1] + 1, F[p[1]][p[2]]>>]
  <1>1. G \in [Nat \X S -> Nat \X S] /\ <<0, x>> \in Nat \X S
    OBVIOUS
  <1>2. \A p \in Nat \X S : G[p] = <<p[1] + 1, F[p[1]][p[2]]>>
    OBVIOUS
  <1> HIDE DEF G
  <1>3. PICK h \in [Nat -> Nat \X S] : Iterates(h, G, <<0, x>>)
    BY <1>1, IterationExists
  <1>4. h[0] = <<0, x>> /\ \A n \in Nat : h[n] \in Nat \X S /\ h[n + 1] = G[h[n]]
    BY <1>3 DEF Iterates
  <1>5. \A n \in Nat : h[n + 1] = <<h[n][1] + 1, F[h[n][1]][h[n][2]]>>
    BY <1>2, <1>4
  <1> DEFINE T == {n \in Nat : h[n][1] = n}
  <1>6. 0 \in T
    BY <1>4
  <1>7. \A n \in T : n + 1 \in T
    BY <1>5
  <1>8. T = Nat
    <2> HIDE DEF T
    <2>1. T \in SUBSET Nat
      BY DEF T
    <2> QED
      BY <1>6, <1>7, <2>1, SetInduction
  <1> DEFINE g == [n \in Nat |-> h[n][2]]
  <1>9. ASSUME NEW n \in Nat PROVE h[n] = <<n, g[n]>> /\ g[n] \in S
    <2>1. n \in T
      BY <1>8
    <2>2. h[n] \in Nat \X S /\ h[n][1] = n
      BY <1>4, <2>1
    <2> QED
      BY <2>2
  <1>10. g[0] = x /\ g \in [Nat -> S]
    BY <1>4, <1>9
  <1>11. \A n \in Nat : g[n + 1] = F[n][g[n]]
    <2> TAKE n \in Nat
    <2>1. h[n + 1][2] = F[h[n][1]][h[n][2]]
      BY <1>5
    <2>2. h[n] = <<n, g[n]>> /\ g[n + 1] = h[n + 1][2]
      BY <1>9
    <2> QED
      BY <2>1, <2>2
  <1> HIDE DEF g
  <1>12. Recurs(g, F, x)
    BY <1>10, <1>11 DEF Recurs
  <1> QED
    BY <1>10, <1>12

\* The texts of more and more of the segments.
Writes(f, segments) ==
  /\ f[0] = <<>> /\ Text(segments) = f[Len(segments)]
  /\ \A n \in 0 .. Len(segments) - 1 :
       f[n + 1] = Cat(f[n], Cat(<<"/">>, segments[n + 1]))

\* The text of segments, one after the other.
LEMMA TextIs ==
  ASSUME NEW A, "/" \in A, NEW segments \in Seq(Seq(A))
  PROVE  \E f \in [0 .. Len(segments) -> Seq(A)] : Writes(f, segments)
  <1> DEFINE L == Len(segments)
             Body(g) == [n \in 0 .. L |->
               IF n = 0 THEN <<>> ELSE Cat(g[n - 1], Cat(<<"/">>, segments[n]))]
             f == CHOOSE g : g = Body(g)
             F == [n \in Nat |-> [s \in Seq(A) |->
                     IF n + 1 <= L THEN Cat(s, Cat(<<"/">>, segments[n + 1])) ELSE s]]
  <1>1. L \in Nat /\ <<>> \in Seq(A) /\ \A n \in 1 .. L : segments[n] \in Seq(A)
    OBVIOUS
  <1>2. ASSUME NEW s \in Seq(A), NEW n \in 1 .. L
        PROVE  Cat(s, Cat(<<"/">>, segments[n])) \in Seq(A)
    <2>1. <<"/">> \in Seq(A) /\ segments[n] \in Seq(A)
      BY <1>1
    <2>2. Cat(<<"/">>, segments[n]) \in Seq(A)
      BY <2>1, CatIs
    <2> QED
      BY <2>2, CatIs
  <1> HIDE DEF L
  <1>3. F \in [Nat -> [Seq(A) -> Seq(A)]]
    <2>1. ASSUME NEW n \in Nat, NEW s \in Seq(A)
          PROVE  (IF n + 1 <= L THEN Cat(s, Cat(<<"/">>, segments[n + 1])) ELSE s) \in Seq(A)
      <3>1. n + 1 <= L => n + 1 \in 1 .. L
        BY <1>1
      <3> QED
        BY <1>2, <3>1
    <2> QED
      BY <2>1
  <1>4. ASSUME NEW n \in Nat, NEW s \in Seq(A), n + 1 <= L
        PROVE  F[n][s] = Cat(s, Cat(<<"/">>, segments[n + 1]))
    BY <1>4
  <1> HIDE DEF F
  <1>5. PICK g \in [Nat -> Seq(A)] :
          g[0] = <<>> /\ \A n \in Nat : g[n + 1] = F[n][g[n]]
    <2>1. \E g \in [Nat -> Seq(A)] : Recurs(g, F, <<>>)
      BY <1>1, <1>3, RecursionExists
    <2> QED
      BY <2>1 DEF Recurs
  <1> DEFINE h == [n \in 0 .. L |-> g[n]]
  <1>6. h = Body(h)
    <2>1. ASSUME NEW n \in 0 .. L, n # 0
          PROVE  h[n] = Cat(h[n - 1], Cat(<<"/">>, segments[n]))
      <3>1. n - 1 \in Nat /\ n - 1 \in 0 .. L /\ (n - 1) + 1 = n /\ n <= L
        BY <1>1, <2>1
      <3>2. g[(n - 1) + 1] = Cat(g[n - 1], Cat(<<"/">>, segments[(n - 1) + 1]))
        BY <1>4, <1>5, <3>1
      <3> QED
        BY <3>1, <3>2
    <2>2. 0 \in 0 .. L => h[0] = <<>>
      BY <1>5
    <2> QED
      BY <2>1, <2>2
  <1>7. f = Body(f)
    BY <1>6
  <1>8. Text(segments) = f[L]
    BY Zenon DEF Text, L, Cat
  <1> HIDE DEF f
  <1>9. f[0] = <<>>
    BY <1>1, <1>7
  <1>10. ASSUME NEW n \in 0 .. L - 1
         PROVE  f[n + 1] = Cat(f[n], Cat(<<"/">>, segments[n + 1]))
    <2>1. n + 1 \in 0 .. L /\ n + 1 # 0 /\ (n + 1) - 1 = n
      BY <1>1
    <2> QED
      BY <1>7, <2>1
  <1>11. \A n \in 0 .. L : f[n] \in Seq(A)
    <2> DEFINE T == {n \in Nat : n <= L => f[n] \in Seq(A)}
    <2>1. 0 \in T
      BY <1>1, <1>9
    <2>2. ASSUME NEW n \in T PROVE n + 1 \in T
      <3> SUFFICES ASSUME n + 1 <= L PROVE f[n + 1] \in Seq(A)
        OBVIOUS
      <3>1. n \in 0 .. L - 1 /\ n + 1 \in 1 .. L /\ f[n] \in Seq(A)
        BY <1>1
      <3> QED
        BY <1>2, <1>10, <3>1
    <2>3. T = Nat
      <3> HIDE DEF T
      <3>1. T \in SUBSET Nat
        BY DEF T
      <3> QED
        BY <2>1, <2>2, <3>1, SetInduction
    <2> TAKE n \in 0 .. L
    <2>4. n \in Nat /\ n <= L
      BY <1>1
    <2> QED
      BY <2>3, <2>4
  <1>12. f \in [0 .. L -> Seq(A)]
    BY <1>7, <1>11
  <1>13. Writes(f, segments)
    BY <1>8, <1>9, <1>10 DEF L, Writes
  <1> QED
    BY <1>12, <1>13 DEF L

\* The text of no segments, and of one more.
LEMMA TextAppend ==
  ASSUME NEW A, "/" \in A, NEW segments \in Seq(Seq(A)), NEW segment \in Seq(A)
  PROVE  /\ Text(segments) \in Seq(A)
         /\ Text(Append(segments, segment)) = Cat(Text(segments), Cat(<<"/">>, segment))
  <1> DEFINE more == Append(segments, segment)
             L == Len(segments)
  <1>1. /\ more \in Seq(Seq(A)) /\ L \in Nat /\ Len(more) = L + 1 /\ more[L + 1] = segment
        /\ \A n \in 1 .. L : more[n] = segments[n]
    OBVIOUS
  <1> HIDE DEF more
  <1>2. PICK f \in [0 .. L -> Seq(A)] :
          /\ f[0] = <<>> /\ Text(segments) = f[L]
          /\ \A n \in 0 .. L - 1 : f[n + 1] = Cat(f[n], Cat(<<"/">>, segments[n + 1]))
    <2>1. PICK f \in [0 .. Len(segments) -> Seq(A)] : Writes(f, segments)
      BY TextIs
    <2> QED
      BY <2>1 DEF Writes
  <1>3. PICK h \in [0 .. Len(more) -> Seq(A)] :
          /\ h[0] = <<>> /\ Text(more) = h[Len(more)]
          /\ \A n \in 0 .. Len(more) - 1 : h[n + 1] = Cat(h[n], Cat(<<"/">>, more[n + 1]))
    <2>1. PICK h \in [0 .. Len(more) -> Seq(A)] : Writes(h, more)
      BY <1>1, TextIs
    <2> QED
      BY <2>1 DEF Writes
  <1> HIDE DEF L
  <1>4. f[L] = h[L]
    <2> DEFINE T == {n \in Nat : n <= L => f[n] = h[n]}
    <2>1. 0 \in T
      BY <1>2, <1>3
    <2>2. ASSUME NEW n \in T PROVE n + 1 \in T
      <3> SUFFICES ASSUME n + 1 <= L PROVE f[n + 1] = h[n + 1]
        OBVIOUS
      <3>1. /\ n \in 0 .. L - 1 /\ n \in 0 .. Len(more) - 1 /\ n + 1 \in 1 .. L
            /\ f[n] = h[n]
        BY <1>1
      <3> QED
        BY <1>1, <1>2, <1>3, <3>1
    <2>3. T = Nat
      <3> HIDE DEF T
      <3>1. T \in SUBSET Nat
        BY DEF T
      <3> QED
        BY <2>1, <2>2, <3>1, SetInduction
    <2> QED
      <3>1. L \in T /\ L <= L
        <4> HIDE DEF T
        <4> QED
          BY <1>1, <2>3
      <3> QED
        BY <3>1
  <1>5. L \in 0 .. Len(more) - 1 /\ L \in 0 .. L
    BY <1>1
  <1>6. Text(more) = Cat(h[L], Cat(<<"/">>, segment))
    BY <1>1, <1>3, <1>5
  <1> QED
    BY <1>2, <1>4, <1>5, <1>6 DEF more

\* No segments have no text.
LEMMA TextEmpty == Text(<<>>) = <<>>
  <1>1. PICK f \in [0 .. 0 -> Seq({"/"})] : f[0] = <<>> /\ Text(<<>>) = f[0]
    <2> DEFINE segments == <<>>
               A == {"/"}
    <2>1. segments \in Seq(Seq(A)) /\ Len(segments) = 0 /\ "/" \in A
      OBVIOUS
    <2> HIDE DEF segments, A
    <2>2. \E f \in [0 .. Len(segments) -> Seq(A)] :
            f[0] = <<>> /\ Text(segments) = f[Len(segments)]
      <3>1. PICK f \in [0 .. Len(segments) -> Seq(A)] : Writes(f, segments)
        BY <2>1, TextIs
      <3> QED
        BY <3>1 DEF Writes
    <2>3. \E f \in [0 .. 0 -> Seq(A)] : f[0] = <<>> /\ Text(segments) = f[0]
      BY <2>1, <2>2
    <2> QED
      BY <2>3 DEF segments, A
  <1> QED
    BY <1>1

\* The segment at a slash, and where the next one begins.
LEMMA SegmentAt ==
  ASSUME NEW A, NEW path \in Seq(A), NEW i \in 1 .. Len(path)
  PROVE  LET k == First(Drop(path, i), {"/"})
         IN /\ Segment(path, i) \in Seq(A \ {"/"}) /\ Len(Segment(path, i)) = k - 1
            /\ k \in 1 .. Len(path) - i + 1
            /\ \A j \in 1 .. k - 1 : Segment(path, i)[j] = path[i + j] /\ path[i + j] # "/"
            /\ i + k <= Len(path) => path[i + k] = "/"
  <1> DEFINE rest == Drop(path, i)
             k == First(rest, {"/"})
             segment == Segment(path, i)
  <1>1. Len(path) \in Nat /\ i \in 0 .. Len(path)
    OBVIOUS
  <1>2. /\ rest \in Seq(A) /\ Len(rest) = Len(path) - i
        /\ \A j \in 1 .. Len(path) - i : rest[j] = path[i + j]
    BY <1>1, DropIs
  <1> HIDE DEF rest
  <1>3. k \in 1 .. Len(rest) + 1 /\ (k <= Len(rest) => rest[k] = "/")
    BY <1>2, FirstIs
  <1>4. /\ segment \in Seq(A) /\ Len(segment) = k - 1
        /\ \A j \in 1 .. k - 1 : segment[j] = rest[j] /\ rest[j] \notin {"/"}
    BY <1>2, UntilIs DEF Segment, rest
  <1> HIDE DEF segment, k
  <1>5. \A j \in 1 .. k - 1 : segment[j] = path[i + j] /\ path[i + j] # "/"
    <2> TAKE j \in 1 .. k - 1
    <2>1. j \in 1 .. Len(path) - i
      BY <1>1, <1>2, <1>3
    <2> QED
      BY <1>2, <1>4, <2>1
  <1>6. segment \in Seq(A \ {"/"})
    <2>1. \A j \in 1 .. Len(segment) : segment[j] \in A \ {"/"}
      BY <1>4, <1>5
    <2> QED
      BY <1>4, <2>1, SymbolsOf
  <1>7. k \in 1 .. Len(path) - i + 1 /\ (i + k <= Len(path) => path[i + k] = "/")
    BY <1>1, <1>2, <1>3
  <1> QED
    BY <1>4, <1>5, <1>6, <1>7 DEF segment, k, rest

\* Reading a segment makes a stack of segments.
LEMMA ReadIs ==
  ASSUME NEW T, NEW stack \in Seq(T), NEW segment \in T
  PROVE  Read(stack, segment) \in Seq(T)
  BY DEF Read, Front

\* What the segments up to each position of a path resolve to.
LEMMA StackIs ==
  ASSUME NEW A, NEW path \in Seq(A)
  PROVE  /\ Stack(path) \in [0 .. Len(path) -> Seq(Seq(A \ {"/"}))]
         /\ Stack(path)[0] = <<>>
         /\ \A n \in 1 .. Len(path) :
              Stack(path)[n] =
                IF path[n] = "/" THEN Read(Stack(path)[n - 1], Segment(path, n))
                ELSE Stack(path)[n - 1]
  <1> DEFINE L == Len(path)
             T == Seq(A \ {"/"})
             S == Seq(T)
             Body(g) == [n \in 0 .. L |->
               IF n = 0 THEN <<>>
               ELSE IF path[n] = "/" THEN Read(g[n - 1], Segment(path, n)) ELSE g[n - 1]]
             f == CHOOSE g : g = Body(g)
             F == [n \in Nat |-> [s \in S |->
                     IF n + 1 <= L /\ path[n + 1] = "/" THEN Read(s, Segment(path, n + 1))
                     ELSE s]]
  <1>1. L \in Nat /\ <<>> \in S
    OBVIOUS
  <1>2. \A n \in 1 .. L : Segment(path, n) \in T
    BY SegmentAt
  <1>3. \A s \in S : \A n \in 1 .. L : Read(s, Segment(path, n)) \in S
    <2> HIDE DEF T, L
    <2> QED
      BY <1>2, ReadIs
  <1> HIDE DEF L, S
  <1>4. F \in [Nat -> [S -> S]]
    <2>1. \A n \in Nat : n + 1 <= L => n + 1 \in 1 .. L
      BY <1>1
    <2> QED
      BY <1>3, <2>1
  <1>5. ASSUME NEW n \in Nat, NEW s \in S, n + 1 <= L
        PROVE  F[n][s] = IF path[n + 1] = "/" THEN Read(s, Segment(path, n + 1)) ELSE s
    BY <1>5
  <1> HIDE DEF F
  <1>6. PICK g \in [Nat -> S] : g[0] = <<>> /\ \A n \in Nat : g[n + 1] = F[n][g[n]]
    <2>1. \E g \in [Nat -> S] : Recurs(g, F, <<>>)
      BY <1>1, <1>4, RecursionExists
    <2> QED
      BY <2>1 DEF Recurs
  <1> DEFINE h == [n \in 0 .. L |-> g[n]]
  <1>7. h = Body(h)
    <2>1. ASSUME NEW n \in 0 .. L, n # 0
          PROVE  h[n] = IF path[n] = "/" THEN Read(h[n - 1], Segment(path, n)) ELSE h[n - 1]
      <3>1. n - 1 \in Nat /\ n - 1 \in 0 .. L /\ (n - 1) + 1 = n /\ n <= L
        BY <1>1, <2>1
      <3>2. g[n] = F[n - 1][g[n - 1]] /\ g[n - 1] \in S
        BY <1>6, <3>1
      <3>3. F[n - 1][g[n - 1]] =
              IF path[(n - 1) + 1] = "/" THEN Read(g[n - 1], Segment(path, (n - 1) + 1))
              ELSE g[n - 1]
        BY <1>5, <3>1, <3>2
      <3> QED
        BY <3>1, <3>2, <3>3
    <2>2. 0 \in 0 .. L => h[0] = <<>>
      BY <1>6
    <2> QED
      BY <2>1, <2>2
  <1>8. f = Body(f)
    BY <1>7
  <1>9. Stack(path) = f
    BY Zenon DEF Stack, L
  <1> HIDE DEF f
  <1>10. f[0] = <<>>
    BY <1>1, <1>8
  <1>11. \A n \in 1 .. L :
           f[n] = IF path[n] = "/" THEN Read(f[n - 1], Segment(path, n)) ELSE f[n - 1]
    BY <1>1, <1>8
  <1>12. \A n \in 0 .. L : f[n] \in S
    <2> DEFINE N == {n \in Nat : n <= L => f[n] \in S}
    <2>1. 0 \in N
      BY <1>1, <1>10
    <2>2. ASSUME NEW n \in N PROVE n + 1 \in N
      <3> SUFFICES ASSUME n + 1 <= L PROVE f[n + 1] \in S
        OBVIOUS
      <3>1. n + 1 \in 1 .. L /\ f[n] \in S /\ (n + 1) - 1 = n
        BY <1>1
      <3>2. Read(f[n], Segment(path, n + 1)) \in S
        BY <1>3, <3>1
      <3> QED
        BY <1>11, <3>1, <3>2
    <2>3. N = Nat
      <3> HIDE DEF N
      <3>1. N \in SUBSET Nat
        BY DEF N
      <3> QED
        BY <2>1, <2>2, <3>1, SetInduction
    <2> TAKE n \in 0 .. L
    <2>4. n \in Nat /\ n <= L
      BY <1>1
    <2> QED
      BY <2>3, <2>4
  <1>13. f \in [0 .. L -> S]
    BY <1>8, <1>12
  <1> QED
    BY <1>9, <1>10, <1>11, <1>13 DEF L, S

\* Nothing changes up to the next slash.
LEMMA StackKeeps ==
  ASSUME NEW A, NEW path \in Seq(A), NEW i \in 0 .. Len(path), NEW j \in i .. Len(path),
         \A n \in i + 1 .. j : path[n] # "/"
  PROVE  Stack(path)[j] = Stack(path)[i]
  <1> DEFINE stack == Stack(path)
             N == {n \in Nat : i + n <= j => stack[i + n] = stack[i]}
  <1>1. Len(path) \in Nat
    OBVIOUS
  <1>2. \A n \in 1 .. Len(path) : path[n] # "/" => stack[n] = stack[n - 1]
    BY StackIs
  <1> HIDE DEF stack
  <1>3. 0 \in N
    BY <1>1
  <1>4. ASSUME NEW n \in N PROVE n + 1 \in N
    <2> SUFFICES ASSUME i + (n + 1) <= j PROVE stack[i + (n + 1)] = stack[i]
      OBVIOUS
    <2>1. /\ n \in Nat /\ stack[i + n] = stack[i]
          /\ i + (n + 1) \in i + 1 .. j /\ i + (n + 1) \in 1 .. Len(path)
          /\ (i + (n + 1)) - 1 = i + n
      BY <1>1
    <2> QED
      BY <1>2, <2>1
  <1>5. N = Nat
    <2> HIDE DEF N
    <2>1. N \in SUBSET Nat
      BY DEF N
    <2> QED
      BY <1>3, <1>4, <2>1, SetInduction
  <1>6. j - i \in Nat /\ i + (j - i) = j
    BY <1>1
  <1>7. i + (j - i) <= j => stack[i + (j - i)] = stack[i]
    BY <1>5, <1>6
  <1> QED
    BY <1>1, <1>6, <1>7 DEF stack

\* Segments are texts.
LEMMA SegmentsIn ==
  ASSUME NEW A, NEW stack \in Seq(Seq(A \ {"/"}))
  PROVE  stack \in Seq(Seq(A))
  <1>1. Seq(A \ {"/"}) \subseteq Seq(A)
    BY SeqWithin
  <1> QED
    BY <1>1, SeqWithin

\* A text is two texts, one after the other.
Consists(text, x, y) ==
  /\ Len(text) = Len(x) + Len(y) /\ Len(x) \in Nat /\ Len(y) \in Nat
  /\ \A i \in 1 .. Len(x) : text[i] = x[i]
  /\ \A i \in 1 .. Len(y) : text[Len(x) + i] = y[i]

\* Two texts put together consist of them.
LEMMA CatAt ==
  ASSUME NEW A, NEW x \in Seq(A), NEW y \in Seq(A)
  PROVE  Cat(x, y) \in Seq(A) /\ Consists(Cat(x, y), x, y)
  BY DEF Cat, Consists

\* Cutting the text at its last slash takes back the last segment.
LEMMA PopTakesSegment ==
  ASSUME NEW A, "/" \in A, NEW stack \in Seq(Seq(A \ {"/"}))
  PROVE  Pop(Text(stack)) = Text(IF stack = <<>> THEN <<>> ELSE Front(stack))
  <1>1. CASE stack = <<>>
    <2>1. Text(stack) = <<>>
      BY <1>1, TextEmpty
    <2> DEFINE at == {i \in DOMAIN <<>> : <<>>[i] = "/"} \cup {1}
    <2>2. at = {1}
      OBVIOUS
    <2>3. Max(at) = 1
      BY <2>2 DEF Max
    <2>4. Pop(<<>>) = SubSeq(<<>>, 1, Max(at) - 1)
      BY DEF Pop
    <2>5. SubSeq(<<>>, 1, 0) = <<>>
      OBVIOUS
    <2> HIDE DEF at
    <2>6. Pop(<<>>) = <<>>
      BY <2>3, <2>4, <2>5
    <2> QED
      BY <1>1, <2>1, <2>6
  <1>2. CASE stack # <<>>
    <2> DEFINE rest == Front(stack)
               segment == stack[Len(stack)]
               left == Text(rest)
               right == Cat(<<"/">>, segment)
               text == Text(stack)
    <2>1. /\ rest \in Seq(Seq(A \ {"/"})) /\ segment \in Seq(A \ {"/"})
          /\ stack = Append(rest, segment)
      BY <1>2 DEF Front
    <2> HIDE DEF rest, segment
    <2>2. left \in Seq(A) /\ text = Cat(left, right) /\ segment \in Seq(A)
      <3>1. rest \in Seq(Seq(A)) /\ segment \in Seq(A)
        BY <2>1, SegmentsIn, SeqWithin
      <3> QED
        BY <2>1, <3>1, TextAppend
    <2> HIDE DEF left
    <2>3. /\ right \in Seq(A) /\ right[1] = "/" /\ Len(right) = 1 + Len(segment)
          /\ \A i \in 2 .. Len(right) : right[i] # "/"
      <3>1. \A i \in 1 .. Len(segment) : segment[i] # "/"
        BY <2>1
      <3>2. /\ right \in Seq(A) /\ right[1] = "/" /\ Len(right) = 1 + Len(segment)
            /\ \A i \in 1 .. Len(segment) : right[1 + i] = segment[i]
        BY <2>2 DEF Cat
      <3> HIDE DEF right
      <3>3. ASSUME NEW i \in 2 .. Len(right) PROVE right[i] # "/"
        <4>1. Len(segment) \in Nat
          BY <2>2
        <4>2. i - 1 \in 1 .. Len(segment) /\ 1 + (i - 1) = i
          BY <3>2, <4>1
        <4> QED
          BY <3>1, <3>2, <4>2
      <3> QED
        BY <3>2, <3>3
    <2> HIDE DEF right, text
    <2>4. /\ text \in Seq(A) /\ Len(text) = Len(left) + Len(right)
          /\ Len(left) \in Nat /\ Len(right) \in Nat /\ Len(right) >= 1
          /\ \A i \in 1 .. Len(left) : text[i] = left[i]
          /\ \A i \in 1 .. Len(right) : text[Len(left) + i] = right[i]
      <3>1. Len(right) >= 1
        <4>1. Len(segment) \in Nat
          BY <2>2
        <4> QED
          BY <2>3, <4>1
      <3>2. text \in Seq(A) /\ Consists(text, left, right)
        BY <2>2, <2>3, CatAt
      <3> QED
        BY <3>1, <3>2 DEF Consists
    <2> DEFINE at == {i \in DOMAIN text : text[i] = "/"} \cup {1}
               k == Len(left) + 1
    <2>5. k \in at
      BY <2>3, <2>4
    <2>6. \A i \in at : i <= k /\ i \in Nat
      <3> SUFFICES ASSUME NEW i \in 1 .. Len(text), i > k PROVE text[i] # "/"
        BY <2>4
      <3>1. i - Len(left) \in 2 .. Len(right) /\ Len(left) + (i - Len(left)) = i
        BY <2>4
      <3>2. text[i] = right[i - Len(left)]
        BY <2>4, <3>1
      <3> QED
        BY <2>3, <3>1, <3>2
    <2>7. Max(at) = k
      <3> HIDE DEF at
      <3>1. k \in Nat /\ \A i \in at : k >= i
        BY <2>4, <2>6
      <3>2. \A x \in at : (\A i \in at : x >= i) => x = k
        BY <2>5, <2>6, <3>1
      <3> HIDE DEF k
      <3> QED
        BY <2>5, <3>1, <3>2 DEF Max
    <2>8. Pop(text) = SubSeq(text, 1, k - 1)
      BY <2>7, Zenon DEF Pop
    <2> HIDE DEF at
    <2>9. SubSeq(text, 1, k - 1) = left
      <3> DEFINE s == SubSeq(text, 1, k - 1)
      <3>1. s \in Seq(A) /\ Len(s) = Len(left) /\ \A i \in 1 .. Len(left) : s[i] = left[i]
        BY <2>4
      <3> HIDE DEF s
      <3>2. s = left
        BY <2>2, <3>1, SeqEqual
      <3> QED
        BY <3>2 DEF s
    <2> QED
      BY <1>2, <2>8, <2>9 DEF left, rest, text
  <1> QED
    BY <1>1, <1>2

\* The dot segment that a turn meets is the segment that begins there.
LEMMA DotsAt ==
  ASSUME NEW A, NEW path \in Seq(A), NEW i \in 1 .. Len(path)
  PROVE  LET data == Drop(path, i - 1)
         IN /\ data \in Seq(A) /\ Len(data) = Len(path) - i + 1
            /\ \A j \in 1 .. Len(path) - i + 1 : data[j] = path[i + j - 1]
            /\ Drop(data, 1) = Drop(path, i)
            /\ path[i] = "/" => (OneDotAt(data, 1) <=> Segment(path, i) = <<".">>)
            /\ path[i] = "/" => (TwoDotsAt(data, 1) <=> Segment(path, i) = Up)
  <1> DEFINE data == Drop(path, i - 1)
             segment == Segment(path, i)
             k == First(Drop(path, i), {"/"})
             L == Len(path)
  <1>1. L \in Nat /\ i - 1 \in 0 .. L /\ i \in 0 .. L
    OBVIOUS
  <1>2. /\ data \in Seq(A) /\ Len(data) = L - i + 1
        /\ \A j \in 1 .. L - i + 1 : data[j] = path[i + j - 1]
    <2>1. /\ data \in Seq(A) /\ Len(data) = L - (i - 1)
          /\ \A j \in 1 .. L - (i - 1) : data[j] = path[(i - 1) + j]
      BY <1>1, DropIs
    <2> HIDE DEF data
    <2> QED
      BY <1>1, <2>1
  <1> HIDE DEF data
  <1>3. Drop(data, 1) = Drop(path, i)
    <2>1. 1 \in 0 .. Len(data)
      BY <1>1, <1>2
    <2>2. /\ Drop(data, 1) \in Seq(A) /\ Len(Drop(data, 1)) = Len(data) - 1
          /\ \A j \in 1 .. Len(data) - 1 : Drop(data, 1)[j] = data[1 + j]
      BY <1>2, <2>1, DropIs
    <2>3. /\ Drop(path, i) \in Seq(A) /\ Len(Drop(path, i)) = L - i
          /\ \A j \in 1 .. L - i : Drop(path, i)[j] = path[i + j]
      BY <1>1, DropIs
    <2>4. Len(data) - 1 = L - i
      BY <1>1, <1>2
    <2>5. \A j \in 1 .. L - i : data[1 + j] = path[i + j]
      BY <1>1, <1>2
    <2> DEFINE x == Drop(data, 1)
               y == Drop(path, i)
    <2> HIDE DEF x, y
    <2>6. x \in Seq(A) /\ y \in Seq(A) /\ Len(x) = Len(y)
      BY <2>2, <2>3, <2>4 DEF x, y
    <2>7. \A j \in 1 .. Len(x) : x[j] = y[j]
      BY <2>2, <2>3, <2>4, <2>5 DEF x, y
    <2>8. x = y
      BY <2>6, <2>7, SeqEqual
    <2> QED
      BY <2>8 DEF x, y
  <1>4. /\ segment \in Seq(A) /\ Len(segment) = k - 1 /\ k \in 1 .. L - i + 1
        /\ \A j \in 1 .. k - 1 : segment[j] = path[i + j] /\ path[i + j] # "/"
        /\ i + k <= L => path[i + k] = "/"
    <2>1. segment \in Seq(A \ {"/"})
      BY SegmentAt
    <2>2. segment \in Seq(A)
      BY <2>1, SeqWithin
    <2> QED
      BY <2>2, SegmentAt
  <1> HIDE DEF segment, k, L
  <1>5. OneDotAt(data, 1) <=> segment = <<".">>
    <2>1. segment = <<".">> <=> k >= 2 /\ k <= 2 /\ path[i + 1] = "."
      <3>1. segment = <<".">> <=> Len(segment) >= 1 /\ Len(segment) <= 1 /\ segment[1] = "."
        BY <1>4, ShortTexts
      <3> QED
        BY <1>1, <1>4, <3>1
    <2>2. OneDotAt(data, 1) <=>
            i + 1 <= L /\ path[i + 1] = "." /\ (i + 2 <= L => path[i + 2] = "/")
      BY <1>1, <1>2 DEF OneDotAt
    <2>3. ASSUME k >= 2, k <= 2, path[i + 1] = "." PROVE OneDotAt(data, 1)
      BY <1>1, <1>4, <2>2, <2>3
    <2>4. ASSUME i + 1 <= L, path[i + 1] = ".", i + 2 <= L => path[i + 2] = "/"
          PROVE  k >= 2 /\ k <= 2
      <3>1. k >= 2
        <4>1. CASE k <= 1
          BY <1>1, <1>4, <2>4, <4>1
        <4> QED
          BY <1>1, <1>4, <4>1
      <3>2. CASE k > 2
        <4>1. i + 2 <= L /\ 2 \in 1 .. k - 1
          BY <1>1, <1>4, <3>2
        <4> QED
          BY <1>4, <2>4, <4>1
      <3> QED
        BY <1>1, <1>4, <3>1, <3>2
    <2> QED
      BY <2>1, <2>2, <2>3, <2>4
  <1>6. TwoDotsAt(data, 1) <=> segment = Up
    <2>1. segment = Up <=> k >= 3 /\ k <= 3 /\ path[i + 1] = "." /\ path[i + 2] = "."
      <3>1. segment = <<".", ".">>
              <=> /\ Len(segment) >= 2 /\ Len(segment) <= 2
                  /\ segment[1] = "." /\ segment[2] = "."
        BY <1>4, ShortTexts
      <3> QED
        BY <1>1, <1>4, <3>1 DEF Up
    <2>2. TwoDotsAt(data, 1) <=>
            /\ i + 2 <= L /\ path[i + 1] = "." /\ path[i + 2] = "."
            /\ i + 3 <= L => path[i + 3] = "/"
      BY <1>1, <1>2 DEF TwoDotsAt
    <2>3. ASSUME k >= 3, k <= 3, path[i + 1] = ".", path[i + 2] = "." PROVE TwoDotsAt(data, 1)
      BY <1>1, <1>4, <2>2, <2>3
    <2>4. ASSUME i + 2 <= L, path[i + 1] = ".", path[i + 2] = ".",
                 i + 3 <= L => path[i + 3] = "/"
          PROVE  k >= 3 /\ k <= 3
      <3>1. k >= 3
        <4>1. CASE k <= 1
          BY <1>1, <1>4, <2>4, <4>1
        <4>2. CASE k >= 2 /\ k <= 2
          BY <1>1, <1>4, <2>4, <4>2
        <4> QED
          BY <1>1, <1>4, <4>1, <4>2
      <3>2. CASE k > 3
        <4>1. i + 3 <= L /\ 3 \in 1 .. k - 1
          BY <1>1, <1>4, <3>2
        <4> QED
          BY <1>4, <2>4, <4>1
      <3> QED
        BY <1>1, <1>4, <3>1, <3>2
    <2> QED
      BY <2>1, <2>2, <2>3, <2>4
  <1> QED
    BY <1>2, <1>3, <1>5, <1>6 DEF data, segment, L

\* Taking from what is left takes from the text.
LEMMA DropAll ==
  ASSUME NEW A, NEW text \in Seq(A), NEW m \in 0 .. Len(text), NEW n \in 0 .. Len(text) - m
  PROVE  Drop(Drop(text, m), n) = Drop(text, m + n)
  <1> DEFINE rest == Drop(text, m)
             x == Drop(rest, n)
             y == Drop(text, m + n)
  <1>1. Len(text) \in Nat /\ m + n \in 0 .. Len(text)
    OBVIOUS
  <1>2. /\ rest \in Seq(A) /\ Len(rest) = Len(text) - m
        /\ \A i \in 1 .. Len(text) - m : rest[i] = text[m + i]
    BY DropIs
  <1>3. n \in 0 .. Len(rest)
    BY <1>1, <1>2
  <1> HIDE DEF rest
  <1>4. /\ x \in Seq(A) /\ Len(x) = Len(rest) - n
        /\ \A i \in 1 .. Len(rest) - n : x[i] = rest[n + i]
    BY <1>2, <1>3, DropIs
  <1>5. /\ y \in Seq(A) /\ Len(y) = Len(text) - (m + n)
        /\ \A i \in 1 .. Len(text) - (m + n) : y[i] = text[(m + n) + i]
    BY <1>1, DropIs
  <1> HIDE DEF x, y
  <1>6. Len(x) = Len(y) /\ \A i \in 1 .. Len(x) : x[i] = y[i]
    <2>1. Len(x) = Len(y)
      BY <1>1, <1>2, <1>4, <1>5
    <2>2. ASSUME NEW i \in 1 .. Len(x) PROVE x[i] = y[i]
      <3>1. n + i \in 1 .. Len(text) - m /\ m + (n + i) = (m + n) + i
        BY <1>1, <1>2, <1>4
      <3> QED
        BY <1>1, <1>2, <1>4, <1>5, <2>1, <2>2, <3>1
    <2> QED
      BY <2>1, <2>2
  <1>7. x = y
    BY <1>4, <1>5, <1>6, SeqEqual
  <1> QED
    BY <1>7 DEF x, y, rest

\* The last segment is what is left of the path.
LEMMA LastSegment ==
  ASSUME NEW A, NEW path \in Seq(A), NEW i \in 1 .. Len(path),
         i + First(Drop(path, i), {"/"}) > Len(path)
  PROVE  Drop(path, i) = Segment(path, i)
  <1> DEFINE x == Drop(path, i)
             y == Segment(path, i)
             k == First(x, {"/"})
  <1>1. Len(path) \in Nat /\ i \in 0 .. Len(path)
    OBVIOUS
  <1>2. x \in Seq(A) /\ Len(x) = Len(path) - i
    BY <1>1, DropIs
  <1>3. k \in 1 .. Len(x) + 1
    BY <1>2, FirstIs
  <1>4. /\ y \in Seq(A) /\ Len(y) = k - 1
        /\ \A j \in 1 .. k - 1 : y[j] = x[j]
    <2> HIDE DEF x
    <2> QED
      BY <1>2, UntilIs DEF Segment, x
  <1> HIDE DEF x, y
  <1>5. i + k > Len(path)
    BY DEF x
  <1> HIDE DEF k
  <1>6. Len(y) = Len(x)
    BY <1>1, <1>2, <1>3, <1>4, <1>5
  <1>7. x = y
    BY <1>2, <1>4, <1>6, SeqEqual
  <1> QED
    BY <1>7 DEF x, y

\* A segment with its slash.
LEMMA SlashSegment ==
  ASSUME NEW A, NEW path \in Seq(A), NEW i \in 1 .. Len(path), path[i] = "/"
  PROVE  SubSeq(Drop(path, i - 1), 1, First(Drop(path, i), {"/"}))
           = Cat(<<"/">>, Segment(path, i))
  <1> DEFINE data == Drop(path, i - 1)
             k == First(Drop(path, i), {"/"})
             segment == Segment(path, i)
             x == SubSeq(data, 1, k)
             y == Cat(<<"/">>, segment)
  <1>1. Len(path) \in Nat
    OBVIOUS
  <1>2. /\ data \in Seq(A) /\ Len(data) = Len(path) - i + 1
        /\ \A j \in 1 .. Len(path) - i + 1 : data[j] = path[i + j - 1]
    BY DotsAt
  <1>3. /\ segment \in Seq(A) /\ Len(segment) = k - 1 /\ k \in 1 .. Len(path) - i + 1
        /\ \A j \in 1 .. k - 1 : segment[j] = path[i + j]
    <2>1. segment \in Seq(A \ {"/"})
      BY SegmentAt
    <2>2. segment \in Seq(A)
      BY <2>1, SeqWithin
    <2> QED
      BY <2>2, SegmentAt
  <1> HIDE DEF data, k, segment
  <1>4. x \in Seq(A) /\ Len(x) = k /\ \A j \in 1 .. k : x[j] = data[j]
    BY <1>1, <1>2, <1>3
  <1> DEFINE slash == <<"/">>
  <1>5. "/" \in A /\ slash \in Seq(A) /\ Len(slash) = 1 /\ slash[1] = "/"
    OBVIOUS
  <1> HIDE DEF slash, x
  <1>6. Cat(slash, segment) \in Seq(A) /\ Consists(Cat(slash, segment), slash, segment)
    BY <1>3, <1>5, CatAt
  <1>7. y \in Seq(A) /\ Consists(y, slash, segment)
    BY <1>6 DEF slash
  <1> HIDE DEF y
  <1>8. Len(x) = Len(y)
    BY <1>3, <1>4, <1>5, <1>7 DEF Consists
  <1>9. ASSUME NEW j \in 1 .. Len(x) PROVE x[j] = y[j]
    <2>1. x[j] = path[i + j - 1]
      <3>1. j \in 1 .. k
        BY <1>3, <1>4
      <3>2. j \in 1 .. Len(path) - i + 1
        BY <1>1, <1>3, <3>1
      <3> QED
        BY <1>2, <1>4, <3>1, <3>2
    <2>2. CASE j <= 1
      <3>1. j = 1
        BY <1>3, <1>4, <2>2
      <3>2. i + j - 1 = i /\ y[j] = slash[1]
        BY <1>5, <1>7, <3>1 DEF Consists
      <3> QED
        BY <1>5, <2>1, <3>2
    <2>3. CASE j > 1
      <3>1. j - 1 \in 1 .. k - 1 /\ 1 + (j - 1) = j /\ i + (j - 1) = i + j - 1
        BY <1>3, <1>4, <2>3
      <3>2. y[1 + (j - 1)] = segment[j - 1]
        BY <1>3, <1>5, <1>7, <3>1 DEF Consists
      <3> QED
        BY <1>3, <2>1, <3>1, <3>2
    <2> QED
      BY <1>3, <1>4, <2>2, <2>3
  <1>10. x = y
    BY <1>4, <1>7, <1>8, <1>9, SeqEqual
  <1> QED
    BY <1>10 DEF x, y, k, data, segment

\* Where the loop is: at a segment, with what those before it resolve to; at the
\* slash that a dot segment at the end leaves; or at the end.
Reads(path, data, output) ==
  \/ \E i \in 1 .. Len(path) :
       path[i] = "/" /\ data = Drop(path, i - 1) /\ output = Text(Stack(path)[i - 1])
  \/ data = <<"/">> /\ EndsInDots(path) /\ output = Text(Stack(path)[Len(path)])
  \/ data = <<>> /\ output = Resolved(path) /\ output # <<>>

\* A turn puts out what the segment makes of the stack.
LEMMA TurnOutput ==
  ASSUME NEW A, "/" \in A, NEW path \in Seq(A), NEW i \in 1 .. Len(path), path[i] = "/"
  PROVE  LET data == Drop(path, i - 1)
             segment == Segment(path, i)
             k == First(Drop(path, i), {"/"})
             next == Turn([data |-> data, output |-> Text(Stack(path)[i - 1])])
         IN /\ next.output = Text(Stack(path)[i])
            /\ next.data = IF segment \in {<<".">>, Up} /\ i + k > Len(path) THEN <<"/">>
                           ELSE Drop(data, k)
  <1> DEFINE data == Drop(path, i - 1)
             segment == Segment(path, i)
             k == First(Drop(path, i), {"/"})
             old == Stack(path)[i - 1]
             next == Turn([data |-> data, output |-> Text(old)])
             To(rest, text) == [data |-> rest, output |-> text]
  <1>1. Len(path) \in Nat
    OBVIOUS
  <1>2. /\ data \in Seq(A) /\ Len(data) = Len(path) - i + 1
        /\ \A j \in 1 .. Len(path) - i + 1 : data[j] = path[i + j - 1]
    BY DotsAt
  <1>3. /\ Drop(data, 1) = Drop(path, i)
        /\ OneDotAt(data, 1) <=> segment = <<".">>
        /\ TwoDotsAt(data, 1) <=> segment = Up
    BY DotsAt
  <1>4. SubSeq(data, 1, k) = Cat(<<"/">>, segment)
    BY SlashSegment
  <1>5. segment \in Seq(A \ {"/"}) /\ Len(segment) = k - 1 /\ k \in 1 .. Len(path) - i + 1
    BY SegmentAt
  <1>6. Stack(path)[i] = Read(old, segment) /\ old \in Seq(Seq(A \ {"/"}))
    <2>1. i - 1 \in 0 .. Len(path)
      BY <1>1
    <2> QED
      BY <2>1, StackIs
  <1>7. data # <<>> /\ data[1] = "/"
    <2>1. Len(data) >= 1 /\ 1 \in 1 .. Len(path) - i + 1 /\ i + 1 - 1 = i
      BY <1>1, <1>2
    <2> QED
      BY <1>2, <2>1, NotEmpty
  <1>8. next = IF OneDotAt(data, 1)
               THEN To(IF Len(data) <= 2 THEN <<"/">> ELSE Drop(data, 2), Text(old))
               ELSE IF TwoDotsAt(data, 1)
               THEN To(IF Len(data) <= 3 THEN <<"/">> ELSE Drop(data, 3), Pop(Text(old)))
               ELSE To(Drop(data, k), Text(old) \o SubSeq(data, 1, k))
    BY <1>2, <1>3, <1>7, TurnIs
  <1> HIDE DEF data, segment, k, old, next
  <1>9. CASE segment = <<".">>
    <2>1. k = 2
      BY <1>1, <1>5, <1>9
    <2>2. next = To(IF Len(data) <= 2 THEN <<"/">> ELSE Drop(data, 2), Text(old))
      BY <1>3, <1>8, <1>9
    <2>3. Read(old, segment) = old
      BY <1>9 DEF Read
    <2>4. Len(data) <= 2 <=> i + k > Len(path)
      BY <1>1, <1>2, <2>1
    <2>5. next.output = Text(old)
      BY <2>2
    <2>6. next.data = IF i + k > Len(path) THEN <<"/">> ELSE Drop(data, k)
      BY <2>1, <2>2, <2>4
    <2> QED
      BY <1>6, <1>9, <2>3, <2>5, <2>6 DEF next, data, segment, k, old
  <1>10. CASE segment = Up
    <2>1. k = 3
      BY <1>1, <1>5, <1>10 DEF Up
    <2>2. segment # <<".">>
      BY <1>10 DEF Up
    <2>3. next = To(IF Len(data) <= 3 THEN <<"/">> ELSE Drop(data, 3), Pop(Text(old)))
      BY <1>3, <1>8, <1>10, <2>2
    <2>4. Read(old, segment) = IF old = <<>> THEN <<>> ELSE Front(old)
      BY <1>10, <2>2 DEF Read
    <2>5. Pop(Text(old)) = Text(Read(old, segment))
      BY <1>6, <2>4, PopTakesSegment
    <2>6. Len(data) <= 3 <=> i + k > Len(path)
      BY <1>1, <1>2, <2>1
    <2>7. next.output = Pop(Text(old))
      BY <2>3
    <2>8. next.data = IF i + k > Len(path) THEN <<"/">> ELSE Drop(data, k)
      BY <2>1, <2>3, <2>6
    <2> QED
      BY <1>6, <1>10, <2>5, <2>7, <2>8 DEF next, data, segment, k, old
  <1>11. CASE segment \notin {<<".">>, Up}
    <2>1. next = To(Drop(data, k), Text(old) \o SubSeq(data, 1, k))
      BY <1>3, <1>8, <1>11
    <2>2. Read(old, segment) = Append(old, segment)
      BY <1>11 DEF Read
    <2>3. Text(Append(old, segment)) = Cat(Text(old), Cat(<<"/">>, segment))
      <3>1. old \in Seq(Seq(A)) /\ segment \in Seq(A)
        BY <1>5, <1>6, SegmentsIn, SeqWithin
      <3> QED
        BY <3>1, TextAppend
    <2>4. next.output = Cat(Text(old), Cat(<<"/">>, segment))
      BY <1>4, <2>1 DEF Cat
    <2>5. next.data = Drop(data, k)
      BY <2>1
    <2> QED
      BY <1>6, <1>11, <2>2, <2>3, <2>4, <2>5 DEF next, data, segment, k, old
  <1> QED
    BY <1>9, <1>10, <1>11

\* What a path resolves to whose last segment is known.
LEMMA ResolvedIs ==
  ASSUME NEW A, "/" \in A, NEW path \in Seq(A), NEW i \in 1 .. Len(path), path[i] = "/",
         i + First(Drop(path, i), {"/"}) > Len(path)
  PROVE  /\ Stack(path)[Len(path)] = Stack(path)[i]
         /\ EndsInDots(path) <=> Segment(path, i) \in {<<".">>, Up}
         /\ EndsInDots(path) =>
              Resolved(path) = Cat(Text(Stack(path)[Len(path)]), Cat(<<"/">>, <<>>))
         /\ ~EndsInDots(path) => Resolved(path) = Text(Stack(path)[Len(path)])
  <1> DEFINE segment == Segment(path, i)
             k == First(Drop(path, i), {"/"})
             L == Len(path)
             kept == Stack(path)[L]
  <1>1. L \in Nat /\ DOMAIN path = 1 .. L
    OBVIOUS
  <1>2. /\ Len(segment) = k - 1 /\ k \in 1 .. L - i + 1
        /\ \A j \in 1 .. k - 1 : path[i + j] # "/"
    BY SegmentAt
  <1>3. Drop(path, i) = segment
    BY LastSegment
  <1> HIDE DEF segment, k
  <1>4. \A n \in i + 1 .. L : path[n] # "/"
    <2> TAKE n \in i + 1 .. L
    <2>1. i + k > L
      BY DEF k
    <2>2. n - i \in 1 .. k - 1 /\ i + (n - i) = n
      BY <1>1, <1>2, <2>1
    <2> QED
      BY <1>2, <2>2
  <1>5. kept = Stack(path)[i]
    <2>1. i \in 0 .. L /\ L \in i .. L
      BY <1>1
    <2> QED
      BY <1>4, <2>1, StackKeeps
  <1>6. EndsInDots(path) <=> segment \in {<<".">>, Up}
    <2>1. segment \in {<<".">>, Up} => EndsInDots(path)
      BY <1>1, <1>3 DEF EndsInDots
    <2>2. ASSUME NEW j \in 1 .. L, path[j] = "/", Drop(path, j) \in {<<".">>, Up}
          PROVE  j = i
      <3>1. j <= i
        BY <1>1, <1>4, <2>2
      <3>2. CASE j < i
        <4> DEFINE rest == Drop(path, j)
        <4>1. /\ rest \in Seq(A) /\ Len(rest) = L - j
              /\ \A n \in 1 .. L - j : rest[n] = path[j + n]
          <5>1. j \in 0 .. L
            BY <1>1
          <5> QED
            BY <5>1, DropIs
        <4> HIDE DEF rest
        <4>2. i - j \in 1 .. L - j /\ j + (i - j) = i
          BY <1>1, <3>2
        <4>3. i - j \in 1 .. Len(rest) /\ rest[i - j] = "/"
          BY <4>1, <4>2
        <4>4. rest = <<".">> \/ rest = <<".", ".">>
          BY <2>2 DEF rest, Up
        <4>5. \A n \in 1 .. Len(rest) : rest[n] = "."
          <5>1. CASE rest = <<".">>
            BY <5>1
          <5>2. CASE rest = <<".", ".">>
            BY <5>2
          <5> QED
            BY <4>4, <5>1, <5>2
        <4>6. rest[i - j] = "."
          BY <4>3, <4>5
        <4> QED
          BY <4>3, <4>6
      <3> QED
        BY <1>1, <3>1, <3>2
    <2> QED
      BY <1>1, <1>3, <2>1, <2>2 DEF EndsInDots
  <1>7. EndsInDots(path) => Resolved(path) = Cat(Text(kept), Cat(<<"/">>, <<>>))
    <2>1. kept \in Seq(Seq(A \ {"/"}))
      BY <1>1, StackIs
    <2> HIDE DEF kept
    <2>2. kept \in Seq(Seq(A)) /\ <<>> \in Seq(A)
      BY <2>1, SegmentsIn
    <2>3. Text(Append(kept, <<>>)) = Cat(Text(kept), Cat(<<"/">>, <<>>))
      BY <2>2, TextAppend
    <2> QED
      BY <2>3 DEF Resolved, kept
  <1>8. ~EndsInDots(path) => Resolved(path) = Text(kept)
    BY DEF Resolved
  <1> QED
    BY <1>5, <1>6, <1>7, <1>8 DEF segment

\* A path has a last segment.
LEMMA LastSlash ==
  ASSUME NEW A, NEW path \in Seq(A), path # <<>>, Rooted(path)
  PROVE  \E i \in 1 .. Len(path) :
           path[i] = "/" /\ i + First(Drop(path, i), {"/"}) > Len(path)
  <1> DEFINE at == {i \in 1 .. Len(path) : path[i] = "/"}
             L == Len(path)
  <1>1. L \in Nat /\ 1 \in at
    BY NotEmpty DEF Rooted
  <1>2. at \subseteq Nat /\ at # {} /\ \A i \in at : i <= L
    BY <1>1
  <1> HIDE DEF at
  <1>3. PICK i \in at : \A j \in at : i >= j
    BY <1>1, <1>2, GreatestNumber
  <1>4. i \in 1 .. L /\ path[i] = "/"
    BY <1>3 DEF at
  <1> DEFINE k == First(Drop(path, i), {"/"})
  <1>5. k \in 1 .. L - i + 1 /\ (i + k <= L => path[i + k] = "/")
    BY <1>4, SegmentAt
  <1> HIDE DEF k
  <1>6. i + k > L
    <2> SUFFICES ASSUME i + k <= L PROVE FALSE
      BY <1>1, <1>4, <1>5
    <2>1. i + k \in at
      BY <1>1, <1>4, <1>5 DEF at
    <2> QED
      BY <1>1, <1>3, <1>4, <1>5, <2>1
  <1> QED
    BY <1>4, <1>6 DEF k

\* A turn reads on.
LEMMA TurnReads ==
  ASSUME NEW A, "/" \in A, NEW path \in Seq(A), NEW data, NEW output,
         Reads(path, data, output), path # <<>>, Rooted(path)
  PROVE  LET next == Turn([data |-> data, output |-> output])
         IN Reads(path, next.data, next.output)
  <1> DEFINE L == Len(path)
             next == Turn([data |-> data, output |-> output])
  <1>1. L \in Nat
    OBVIOUS
  <1>2. ASSUME NEW i \in 1 .. L, path[i] = "/", data = Drop(path, i - 1),
               output = Text(Stack(path)[i - 1])
        PROVE  Reads(path, next.data, next.output)
    <2> DEFINE segment == Segment(path, i)
               k == First(Drop(path, i), {"/"})
    <2>1. /\ next.output = Text(Stack(path)[i])
          /\ next.data = IF segment \in {<<".">>, Up} /\ i + k > L THEN <<"/">>
                         ELSE Drop(data, k)
      BY <1>2, TurnOutput
    <2>2. /\ k \in 1 .. L - i + 1
          /\ \A j \in 1 .. k - 1 : path[i + j] # "/"
          /\ i + k <= L => path[i + k] = "/"
      BY SegmentAt
    <2>3. Drop(data, k) = Drop(path, i + k - 1)
      <3> HIDE DEF k
      <3>1. i - 1 \in 0 .. L /\ k \in 0 .. L - (i - 1) /\ (i - 1) + k = i + k - 1
        BY <1>1, <2>2
      <3>2. Drop(Drop(path, i - 1), k) = Drop(path, (i - 1) + k)
        BY <3>1, DropAll
      <3> QED
        BY <1>2, <3>1, <3>2
    <2>4. CASE i + k <= L
      <3> HIDE DEF k, next, segment
      <3> DEFINE j == i + k
      <3>1. j \in 1 .. L /\ path[j] = "/" /\ i \in 0 .. L /\ j - 1 \in i .. L
        BY <1>1, <2>2, <2>4
      <3>2. \A n \in i + 1 .. j - 1 : path[n] # "/"
        <4> TAKE n \in i + 1 .. j - 1
        <4>1. n - i \in 1 .. k - 1 /\ i + (n - i) = n
          BY <1>1, <2>2
        <4> QED
          BY <2>2, <4>1
      <3>3. Stack(path)[j - 1] = Stack(path)[i]
        BY <3>1, <3>2, StackKeeps
      <3>4. ~ (i + k > L)
        BY <1>1, <2>2, <2>4
      <3>5. next.data = Drop(path, i + k - 1)
        BY <2>1, <2>3, <3>4
      <3>6. next.output = Text(Stack(path)[j - 1])
        BY <2>1, <3>3
      <3>7. next.data = Drop(path, j - 1)
        <4>1. j - 1 = i + k - 1
          BY <1>1, <2>2
        <4> HIDE DEF j
        <4> QED
          BY <3>5, <4>1
      <3> HIDE DEF j
      <3> QED
        BY <3>1, <3>6, <3>7 DEF Reads
    <2>5. CASE i + k > L
      <3>1. /\ Stack(path)[L] = Stack(path)[i]
            /\ EndsInDots(path) <=> segment \in {<<".">>, Up}
            /\ ~EndsInDots(path) => Resolved(path) = Text(Stack(path)[L])
        BY <1>2, <2>5, ResolvedIs
      <3>2. CASE segment \in {<<".">>, Up}
        <4>1. next.data = <<"/">> /\ next.output = Text(Stack(path)[L]) /\ EndsInDots(path)
          BY <2>1, <2>5, <3>1, <3>2
        <4> HIDE DEF next
        <4> QED
          BY <4>1 DEF Reads
      <3>3. CASE segment \notin {<<".">>, Up}
        <4>1. next.data = <<>>
          <5> HIDE DEF k
          <5>1. i + k - 1 = L
            BY <1>1, <2>2, <2>5
          <5>2. L \in 0 .. L
            BY <1>1
          <5>3. Drop(path, L) = <<>>
            BY <1>1 DEF Drop
          <5> HIDE DEF L
          <5> QED
            BY <2>1, <2>3, <3>3, <5>1, <5>3
        <4>2. next.output = Resolved(path)
          BY <2>1, <3>1, <3>3
        <4>3. next.output # <<>>
          <5>1. Stack(path)[i] = Append(Stack(path)[i - 1], segment)
            <6>1. Stack(path)[i] = Read(Stack(path)[i - 1], segment)
              BY <1>2, StackIs
            <6> QED
              BY <3>3, <6>1 DEF Read
          <5>2. Stack(path)[i - 1] \in Seq(Seq(A)) /\ segment \in Seq(A)
            <6>1. i - 1 \in 0 .. L
              BY <1>1
            <6>2. Stack(path)[i - 1] \in Seq(Seq(A \ {"/"})) /\ segment \in Seq(A \ {"/"})
              BY <6>1, StackIs, SegmentAt
            <6> QED
              BY <6>2, SegmentsIn, SeqWithin
          <5> DEFINE left == Text(Stack(path)[i - 1])
                     right == Cat(<<"/">>, segment)
          <5>3. next.output = Cat(left, right) /\ left \in Seq(A)
            BY <2>1, <5>1, <5>2, TextAppend
          <5> HIDE DEF left, segment, next
          <5>4. right \in Seq(A) /\ Len(right) >= 1
            BY <5>2 DEF Cat
          <5> HIDE DEF right
          <5>5. next.output \in Seq(A) /\ Consists(next.output, left, right)
            BY <5>3, <5>4, CatAt
          <5> QED
            BY <5>4, <5>5, NotEmpty DEF Consists
        <4> HIDE DEF next
        <4> QED
          BY <4>1, <4>2, <4>3 DEF Reads
      <3> QED
        BY <3>2, <3>3
    <2> QED
      BY <1>1, <2>2, <2>4, <2>5
  <1>3. ASSUME data = <<"/">>, EndsInDots(path), output = Text(Stack(path)[L])
        PROVE  Reads(path, next.data, next.output)
    <2> DEFINE text == <<"/">>
               empty == <<>>
    <2>1. PICK i \in 1 .. L : path[i] = "/" /\ i + First(Drop(path, i), {"/"}) > L
      BY LastSlash
    <2>2. Resolved(path) = Cat(output, Cat(text, empty))
      BY <1>3, <2>1, ResolvedIs
    <2>3. output \in Seq(A)
      <3>1. L \in 0 .. L
        BY <1>1
      <3>2. Stack(path)[L] \in Seq(Seq(A \ {"/"}))
        BY <3>1, StackIs
      <3> HIDE DEF L
      <3>3. Stack(path)[L] \in Seq(Seq(A))
        BY <3>2, SegmentsIn
      <3>4. <<>> \in Seq(A)
        OBVIOUS
      <3> QED
        BY <1>3, <3>3, <3>4, TextAppend
    <2>4. /\ text \in Seq(A) /\ text # <<>> /\ text[1] = "/" /\ Len(text) <= 1
          /\ Drop(text, 1) = empty /\ SubSeq(text, 1, 1) = text /\ Cat(text, empty) = text
      <3>1. text \in Seq(A) /\ text # <<>> /\ text[1] = "/" /\ Len(text) <= 1
        OBVIOUS
      <3>2. Drop(text, 1) = empty
        BY DEF Drop
      <3>3. SubSeq(text, 1, 1) = text
        <4>1. text \in Seq({"/"}) /\ Len(text) = 1
          OBVIOUS
        <4> HIDE DEF text
        <4>2. SubSeq(text, 1, Len(text)) = text
          BY <4>1, SubSeqFull
        <4> QED
          BY <4>1, <4>2
      <3> HIDE DEF text
      <3>4. Cat(text, empty) = text
        BY <3>1, ConcatEmptySeq DEF Cat
      <3> QED
        BY <3>1, <3>2, <3>3, <3>4
    <2>5. First(empty, {"/"}) = 1
      <3>1. empty \in Seq(A) /\ Len(empty) = 0
        OBVIOUS
      <3> HIDE DEF empty
      <3>2. First(empty, {"/"}) \in 1 .. Len(empty) + 1
        BY <3>1, FirstIs
      <3> QED
        BY <3>1, <3>2
    <2> HIDE DEF text, empty
    <2>6. ~OneDotAt(text, 1) /\ ~TwoDotsAt(text, 1)
      <3>1. Len(text) \in Nat
        BY <2>4
      <3> QED
        BY <2>4, <3>1 DEF OneDotAt, TwoDotsAt
    <2>7. Turn([data |-> text, output |-> output]) =
            [data |-> Drop(text, 1), output |-> output \o SubSeq(text, 1, 1)]
      BY <2>4, <2>5, <2>6, TurnIs
    <2>8. next = [data |-> empty, output |-> Cat(output, text)]
      BY <1>3, <2>4, <2>7 DEF text, Cat
    <2> HIDE DEF next
    <2>9. next.data = empty /\ next.output = Cat(output, text)
      BY <2>8
    <2>10. next.output # <<>>
      <3>1. next.output \in Seq(A) /\ Consists(next.output, output, text)
        BY <2>3, <2>4, <2>9, CatAt
      <3>2. Len(text) >= 1
        BY <2>4, NotEmpty
      <3> QED
        BY <3>1, <3>2, NotEmpty DEF Consists
    <2> QED
      BY <2>2, <2>4, <2>9, <2>10 DEF Reads, empty
  <1>4. ASSUME data = <<>>, output = Resolved(path), output # <<>>
        PROVE  Reads(path, next.data, next.output)
    <2>1. next.data = data /\ next.output = output
      BY <1>4, TurnEnds
    <2> HIDE DEF next
    <2> QED
      BY <1>4, <2>1 DEF Reads
  <1> QED
    BY <1>2, <1>3, <1>4 DEF Reads

\* The loop resolves a path as its segments tell.
LEMMA LoopResolves ==
  ASSUME NEW A, "/" \in A, NEW path \in Seq(A), path # <<>>, Rooted(path)
  PROVE  RemoveDotSegments(path) = Resolved(path) /\ Resolved(path) # <<>>
  <1>1. PICK f \in [Nat -> Walks(A)] :
          /\ f[0] = Begin(path) /\ \A n \in Nat : f[n + 1] = Turn(f[n])
          /\ RemoveDotSegments(path) = f[Len(path)].output
    BY LoopIs
  <1> DEFINE T == {n \in Nat : Reads(path, f[n].data, f[n].output)}
  <1>2. 0 \in T
    <2>1. 1 \in 1 .. Len(path) /\ path[1] = "/" /\ 1 - 1 = 0
      BY NotEmpty DEF Rooted
    <2>2. Drop(path, 0) = path
      BY SubSeqFull DEF Drop
    <2>3. Text(Stack(path)[0]) = <<>>
      BY StackIs, TextEmpty
    <2>4. f[0].data = path /\ f[0].output = <<>>
      BY <1>1 DEF Begin
    <2> QED
      BY <2>1, <2>2, <2>3, <2>4 DEF Reads
  <1>3. ASSUME NEW n \in T PROVE n + 1 \in T
    <2>1. n \in Nat /\ n + 1 \in Nat /\ Reads(path, f[n].data, f[n].output)
      OBVIOUS
    <2>2. f[n] = [data |-> f[n].data, output |-> f[n].output]
      BY <2>1 DEF Walks
    <2> DEFINE data == f[n].data
               output == f[n].output
    <2> HIDE DEF data, output
    <2>3. LET next == Turn([data |-> data, output |-> output])
          IN Reads(path, next.data, next.output)
      BY <2>1, TurnReads DEF data, output
    <2>4. f[n + 1] = Turn([data |-> data, output |-> output])
      BY <1>1, <2>1, <2>2 DEF data, output
    <2>5. Reads(path, f[n + 1].data, f[n + 1].output)
      BY <2>3, <2>4
    <2> QED
      BY <2>1, <2>5
  <1>4. T = Nat
    <2> HIDE DEF T
    <2>1. T \in SUBSET Nat
      BY DEF T
    <2> QED
      BY <1>2, <1>3, <2>1, SetInduction
  <1>5. Len(path) \in Nat
    OBVIOUS
  <1>6. Reads(path, f[Len(path)].data, f[Len(path)].output)
    BY <1>4, <1>5
  <1>7. f[Len(path)].data = <<>>
    BY <1>1, LoopEnds
  <1>8. \A i \in 1 .. Len(path) : Drop(path, i - 1) # <<>>
    <2> TAKE i \in 1 .. Len(path)
    <2> DEFINE data == Drop(path, i - 1)
    <2>1. data \in Seq(A) /\ Len(data) = Len(path) - i + 1
      BY DotsAt
    <2> HIDE DEF data
    <2>2. Len(data) >= 1
      BY <1>5, <2>1
    <2>3. data # <<>>
      BY <2>1, <2>2, NotEmpty
    <2> QED
      BY <2>3 DEF data
  <1>9. <<"/">> # <<>>
    OBVIOUS
  <1> QED
    BY <1>1, <1>6, <1>7, <1>8, <1>9 DEF Reads

\* The path of a canonical URL is what its segments resolve to.
LEMMA ResolvesWritten == Written => ResolvesSegments
  <1> DEFINE path == Path(url)
             decoded == NormalizePercent(path)
  <1> SUFFICES ASSUME Written, CanonicalizeUrl(url) # Malformed, path # <<>>
               PROVE  Path(CanonicalizeUrl(url)) = Resolved(decoded)
    BY DEF ResolvesSegments
  <1>1. url \in Seq(Symbols)
    BY DEF Written
  <1>2. path \in Seq(Symbols) /\ Rooted(path)
    BY <1>1, PartsIn, PathIs
  <1>3. Path(CanonicalizeUrl(url)) = CanonicalPath(path)
    BY <1>1, CanonicalUrlIs, CanonicalParts
  <1> HIDE DEF path
  <1>4. decoded \in Seq(Symbols) /\ decoded # <<>> /\ Rooted(decoded)
    <2>1. /\ decoded \in Seq(Decoded) /\ Len(decoded) = Len(path)
          /\ \A i \in 1 .. Len(path) : decoded[i] = Decode(path[i])
      BY <1>2, EachIs
    <2>2. Len(path) \in Nat /\ Len(path) >= 1 /\ path[1] = "/"
      BY <1>2, NotEmpty DEF Rooted
    <2>3. Decode("/") = "/" /\ Decoded \subseteq Symbols
      BY DEF Decode, Decoded
    <2>4. decoded \in Seq(Symbols)
      BY <2>1, <2>3, SeqWithin
    <2> HIDE DEF decoded
    <2>5. decoded[1] = "/" /\ Len(decoded) >= 1
      BY <2>1, <2>2, <2>3
    <2> QED
      BY <2>4, <2>5, NotEmpty DEF Rooted
  <1>5. "/" \in Symbols
    BY DEF Symbols
  <1> HIDE DEF decoded
  <1>6. RemoveDotSegments(decoded) = Resolved(decoded) /\ Resolved(decoded) # <<>>
    BY <1>4, <1>5, LoopResolves
  <1>7. CanonicalPath(path) = Resolved(decoded)
    BY <1>6 DEF CanonicalPath, decoded
  <1> QED
    BY <1>3, <1>7

\* The loop over the text of a path resolves it as its segments tell, however
\* long it is and whatever slashes and encoded dots it has (_remove_dot_segments).
THEOREM ResolvesSegmentsAlways == Spec => []ResolvesSegments
  BY WrittenAlways, ResolvesWritten, PTL

=============================================================================
