---------------------------- MODULE RequestProofs ----------------------------
(***************************************************************************)
(* Proofs about what happens to a request before it is served: HttpParser, *)
(* which reads it, for any messages, tokens and parts that end behind      *)
(* lines; and Config, which finds its location, for every file,            *)
(* configuration, request and set of paths.                                *)
(*                                                                         *)
(* The parser is where it is in the message if the place in the part is    *)
(* the start of a line, or behind the head and what the body has; what a   *)
(* part brings is then the next line, or the next bytes of the body.       *)
(*                                                                         *)
(* get_location() does not compare lengths: it keeps the last match of an  *)
(* iteration over a std::map.  That this is the longest one rests on two   *)
(* facts about strings: prefixes of one string are prefixes of each other, *)
(* and the order of the map puts a string behind its prefixes.             *)
(*                                                                         *)
(* Which files are accepted is said of a repaired text, without words that *)
(* parse() ignores and with the "}" it does without.  So the proof goes by *)
(* Fit(), which says it of the text as it is: of each token, what has to   *)
(* be before it.  That is what the frames of parse() tell, all the way;    *)
(* and repairing a text moves tokens but keeps what is before them.        *)
(***************************************************************************)
EXTENDS HttpParser, Config, WellFoundedInduction, SequenceTheorems, FiniteSetTheorems, TLAPS

\* A nonempty set of naturals has a least element.
LEMMA LeastOf ==
    ASSUME NEW S, S \subseteq Nat, S # {}
    PROVE  \E x \in S : \A y \in S : x <= y
  <1>1. PICK x \in S : \A y \in S : ~ (<<y, x>> \in OpToRel(<, Nat))
    BY NatLessThanWellFounded, WFMin
  <1>2. \A y \in S : ~ (y < x)
    BY <1>1 DEF OpToRel
  <1> QED
    BY <1>2

\* Sequences that are joined one by one have intermediate results.
LEMMA JoinsExist ==
    ASSUME NEW S, NEW seqs \in Seq(Seq(S))
    PROVE  \E g \in [0..Len(seqs) -> Seq(S)] :
              g[0] = <<>> /\ \A i \in 1..Len(seqs) : g[i] = g[i - 1] \o seqs[i]
  <1> DEFINE N == Len(seqs)
             Joins(g, k) == /\ g \in [0..k -> Seq(S)] /\ g[0] = <<>>
                            /\ \A i \in 1..k : g[i] = g[i - 1] \o seqs[i]
             Bad == {k \in 0..N : ~ \E g : Joins(g, k)}
  <1>1. N \in Nat /\ \A i \in 1..N : seqs[i] \in Seq(S)
    OBVIOUS
  <1> HIDE DEF N
  <1>2. ASSUME Bad # {}
        PROVE  FALSE
    <2>0. Bad \subseteq Nat
      <3> HIDE DEF Joins
      <3> QED
        BY <1>1
    <2>1. PICK k \in Bad : \A j \in Bad : k <= j
      <3> HIDE DEF Bad
      <3>1. \E k \in Bad : \A j \in Bad : k <= j
        BY <1>2, <2>0, LeastOf, Zenon
      <3> QED
        BY <3>1
    <2>2. CASE k = 0
      <3>1. Joins([i \in 0..0 |-> <<>>], 0)
        OBVIOUS
      <3> QED
        BY <2>1, <2>2, <3>1
    <2>3. CASE k # 0
      <3>1. k \in 1..N /\ k - 1 \in 0..N /\ ~ (k <= k - 1)
        BY <1>1, <2>1, <2>3
      <3>2. PICK g : Joins(g, k - 1)
        BY <2>1, <3>1
      <3> DEFINE h == [i \in 0..k |-> IF i = k THEN g[k - 1] \o seqs[k] ELSE g[i]]
      <3>3. g[k - 1] \in Seq(S) /\ \A i \in 0..(k - 1) : g[i] \in Seq(S)
        BY <3>1, <3>2
      <3>4. g[k - 1] \o seqs[k] \in Seq(S)
        BY <1>1, <3>1, <3>3, ConcatProperties
      <3>5. h \in [0..k -> Seq(S)]
        BY <3>1, <3>3, <3>4
      <3>6. h[0] = <<>>
        BY <3>1, <3>2
      <3>7. ASSUME NEW i \in 1..k
            PROVE  h[i] = h[i - 1] \o seqs[i]
        <4>1. i - 1 \in 0..k /\ i - 1 # k /\ i \in 0..k
          BY <3>1
        <4>2. h[i - 1] = g[i - 1]
          BY <4>1
        <4>3. CASE i = k
          BY <4>1, <4>2, <4>3
        <4>4. CASE i # k
          <5>1. i \in 1..(k - 1)
            BY <3>1, <4>4
          <5>2. g[i] = g[i - 1] \o seqs[i]
            BY <3>2, <5>1
          <5> QED
            BY <4>1, <4>2, <4>4, <5>2
        <4> QED
          BY <4>3, <4>4
      <3> HIDE DEF h
      <3>8. Joins(h, k)
        BY <3>5, <3>6, <3>7
      <3> QED
        BY <2>1, <3>8
    <2> QED
      BY <2>2, <2>3
  <1>3. \E g : Joins(g, N)
    <2> HIDE DEF Joins
    <2>1. N \in 0..N
      BY <1>1
    <2> QED
      BY <1>2, <2>1
  <1> QED
    BY <1>3 DEF N

\* FlattenSeq() is the last of them.
LEMMA FlattenIsJoin ==
    ASSUME NEW S, NEW seqs \in Seq(Seq(S)), NEW g \in [0..Len(seqs) -> Seq(S)],
           g[0] = <<>>, \A i \in 1..Len(seqs) : g[i] = g[i - 1] \o seqs[i]
    PROVE  FlattenSeq(seqs) = g[Len(seqs)]
  <1> DEFINE N == Len(seqs)
             along(f) == [i \in 1..N |-> IF i = 1 THEN seqs[i] ELSE f[i - 1] \o seqs[i]]
             w == [i \in 1..N |-> g[i]]
             at == CHOOSE f : f = along(f)
  <1>1. N \in Nat /\ \A i \in 1..N : seqs[i] \in Seq(S)
    OBVIOUS
  <1>2. CASE N = 0
    <2>1. seqs = <<>>
      BY <1>2
    <2>2. FlattenSeq(seqs) = seqs
      BY <1>2 DEF FlattenSeq
    <2> QED
      BY <1>2, <2>1, <2>2
  <1>3. CASE N # 0
    <2>1. FlattenSeq(seqs) = at[N]
      BY <1>3 DEF FlattenSeq
    <2>0. \A i \in 1..N : g[i] = g[i - 1] \o seqs[i]
      OBVIOUS
    <2> HIDE DEF N
    <2>2. w = along(w)
      <3>1. ASSUME NEW i \in 1..N
            PROVE  w[i] = along(w)[i]
        <4>1. CASE i = 1
          <5>1. g[1] = g[0] \o seqs[1]
            BY <2>0, <4>1, 1 - 1 = 0
          <5>2. g[1] = seqs[1]
            BY <1>1, <4>1, <5>1, ConcatEmptySeq
          <5> QED
            BY <4>1, <5>2
        <4>2. CASE i # 1
          <5>1. i - 1 \in 1..N
            BY <1>1, <4>2
          <5>2. g[i] = g[i - 1] \o seqs[i]
            BY <2>0
          <5>3. w[i - 1] = g[i - 1]
            BY <5>1
          <5> QED
            BY <4>2, <5>2, <5>3
        <4> QED
          BY <4>1, <4>2
      <3> HIDE DEF w
      <3>2. w = [i \in 1..N |-> w[i]]
        BY DEF w
      <3> QED
        BY <3>1, <3>2
    <2>3. at = along(at)
      <3> HIDE DEF w
      <3> DEFINE P(f) == f = along(f)
      <3>1. P(w)
        BY <2>2
      <3> HIDE DEF P
      <3>2. P(CHOOSE f : P(f))
        BY <3>1
      <3> QED
        BY <3>2 DEF P
    <2> HIDE DEF at, w
    <2>4. ASSUME NEW k \in 1..N, at[k] # w[k]
          PROVE  FALSE
      <3> DEFINE Bad == {i \in 1..N : at[i] # w[i]}
      <3>1. Bad \subseteq Nat /\ Bad # {}
        BY <2>4
      <3>2. PICK x \in Bad : \A y \in Bad : x <= y
        BY <3>1, LeastOf
      <3>3. at[x] = along(at)[x] /\ w[x] = along(w)[x] /\ x \in 1..N
        BY <2>2, <2>3, <3>2
      <3>4. x # 1
        BY <3>2, <3>3
      <3>5. x - 1 \in 1..N /\ ~ (x <= x - 1)
        BY <1>1, <3>3, <3>4
      <3>6. at[x - 1] = w[x - 1]
        BY <3>2, <3>5
      <3> QED
        BY <3>2, <3>3, <3>4, <3>6
    <2>5. N \in 1..N
      BY <1>1, <1>3
    <2>6. at[N] = w[N] /\ w[N] = g[N]
      BY <2>4, <2>5 DEF w
    <2> QED
      BY <2>1, <2>6 DEF N
  <1> QED
    BY <1>2, <1>3

\* What the assumption says of the parts of a message.
LEMMA PartsOf ==
    ASSUME NEW m \in Messages
    PROVE  /\ m.first \in Seq(Tokens) /\ Len(m.first) \in Nat \ {0}
           /\ \A i \in 1..Len(m.first) : m.first[i] \in LinePieces
           /\ Len(m.headers) \in Nat /\ DOMAIN m.headers = 1..Len(m.headers)
           /\ \A k \in 1..Len(m.headers) :
                 /\ m.headers[k] \in Seq(Tokens) /\ Len(m.headers[k]) \in Nat \ {0}
                 /\ \A i \in 1..Len(m.headers[k]) : m.headers[k][i] \in LinePieces
           /\ m.body \in Seq(Tokens) /\ m.extra \in Seq(Tokens)
           /\ Len(m.body) \in Nat /\ Len(m.extra) \in Nat
  <1>1. LinePieces \subseteq Tokens
    BY DEF LinePieces
  <1>2. ASSUME NEW line \in Seq(LinePieces) \ {<<>>}
        PROVE  /\ line \in Seq(Tokens) /\ Len(line) \in Nat \ {0}
               /\ \A i \in 1..Len(line) : line[i] \in LinePieces
    <2>1. line \in Seq(Tokens)
      BY <1>1, SeqMonotonic
    <2>2. Len(line) \in Nat \ {0}
      BY EmptySeq
    <2> QED
      BY <2>1, <2>2, ElementOfSeq
  <1>3. m.first \in Seq(LinePieces) \ {<<>>} /\ m.headers \in Seq(Seq(LinePieces) \ {<<>>})
        /\ m.body \in Seq(Tokens) /\ m.extra \in Seq(Tokens)
    BY MessagesAssumption
  <1>4. Len(m.headers) \in Nat /\ DOMAIN m.headers = 1..Len(m.headers)
    BY <1>3
  <1>5. \A k \in 1..Len(m.headers) : m.headers[k] \in Seq(LinePieces) \ {<<>>}
    BY <1>3, ElementOfSeq
  <1>6. Len(m.body) \in Nat /\ Len(m.extra) \in Nat
    BY <1>3
  <1> QED
    BY <1>2, <1>3, <1>4, <1>5, <1>6

LEMMA CRLFIs == CRLF \in Seq(Tokens) /\ Len(CRLF) = 2 /\ CRLF[1] = "\r" /\ CRLF[2] = "\n"
  <1>1. "\r" \in Tokens
    BY ParserAssumption
  <1>2. "\n" \in Tokens
    BY ParserAssumption
  <1>3. ASSUME NEW S, NEW a \in S, NEW b \in S
        PROVE  <<a, b>> \in Seq(S)
    OBVIOUS
  <1>4. <<"\r", "\n">> \in Seq(Tokens)
    BY <1>1, <1>2, <1>3, Zenon
  <1>5. Len(<<"\r", "\n">>) = 2 /\ <<"\r", "\n">>[1] = "\r" /\ <<"\r", "\n">>[2] = "\n"
    OBVIOUS
  <1> QED
    BY <1>4, <1>5 DEF CRLF

\* Two sequences joined: first the one, then the other.
LEMMA JoinAtIn ==
    ASSUME NEW S, NEW s \in Seq(S), NEW t \in Seq(S)
    PROVE  /\ s \o t \in Seq(S)
           /\ Len(s) \in Nat /\ Len(t) \in Nat /\ Len(s \o t) = Len(s) + Len(t)
           /\ \A i \in 1..Len(s) : (s \o t)[i] = s[i]
           /\ \A i \in 1..Len(t) : (s \o t)[Len(s) + i] = t[i]
  <1>1. s \o t \in Seq(S) /\ Len(s \o t) = Len(s) + Len(t)
    BY ConcatProperties
  <1>2. \A i \in 1..Len(s) : (s \o t)[i] = s[i]
    OBVIOUS
  <1>3. \A i \in 1..Len(t) : (s \o t)[Len(s) + i] = t[i]
    OBVIOUS
  <1> QED
    BY <1>1, <1>2, <1>3

LEMMA JoinAt ==
    ASSUME NEW s \in Seq(Tokens), NEW t \in Seq(Tokens)
    PROVE  /\ s \o t \in Seq(Tokens)
           /\ Len(s) \in Nat /\ Len(t) \in Nat /\ Len(s \o t) = Len(s) + Len(t)
           /\ \A i \in 1..Len(s) : (s \o t)[i] = s[i]
           /\ \A i \in 1..Len(t) : (s \o t)[Len(s) + i] = t[i]
  BY JoinAtIn

\* What is at which place of the wire, when the header lines make up lines.
LEMMA PlacesOnWire ==
    ASSUME NEW m \in Messages, NEW lines \in Seq(Tokens),
           FlattenSeq([i \in DOMAIN m.headers |-> m.headers[i] \o CRLF]) = lines
    PROVE  LET F == Len(m.first) L == Len(lines) H == Len(HeadOf(m))
           IN  /\ H = F + L + 4
               /\ HeadOf(m) \in Seq(Tokens) /\ Wire(m) \in Seq(Tokens)
               /\ Len(Message(m)) = H + Len(m.body)
               /\ Len(Wire(m)) = H + Len(m.body) + Len(m.extra)
               /\ \A i \in 1..F : Wire(m)[i] = m.first[i]
               /\ Wire(m)[F + 1] = "\r" /\ Wire(m)[F + 2] = "\n"
               /\ \A i \in 1..L : Wire(m)[F + 2 + i] = lines[i]
               /\ Wire(m)[F + L + 3] = "\r" /\ Wire(m)[F + L + 4] = "\n"
               /\ \A i \in 1..Len(m.body) : Wire(m)[H + i] = m.body[i]
  <1> DEFINE F == Len(m.first)
             L == Len(lines)
             B == Len(m.body)
             E == Len(m.extra)
             a == m.first \o CRLF
             b == a \o lines
             h == b \o CRLF
             w == h \o m.body
             x == w \o m.extra
  <1>1. F \in Nat /\ L \in Nat /\ B \in Nat /\ E \in Nat
    BY PartsOf
  <1>2. HeadOf(m) = h /\ Message(m) = w /\ Wire(m) = x
    BY DEF HeadOf, Message, Wire
  <1>3. /\ a \in Seq(Tokens) /\ Len(a) = F + 2
        /\ \A i \in 1..F : a[i] = m.first[i]
        /\ a[F + 1] = "\r" /\ a[F + 2] = "\n"
    <2>1. m.first \in Seq(Tokens) /\ CRLF \in Seq(Tokens)
      BY PartsOf, CRLFIs
    <2>2. /\ a \in Seq(Tokens) /\ Len(a) = F + Len(CRLF)
          /\ \A i \in 1..F : a[i] = m.first[i]
          /\ \A i \in 1..Len(CRLF) : a[F + i] = CRLF[i]
      BY <2>1, JoinAt
    <2> HIDE DEF a, F
    <2> QED
      BY <2>2, CRLFIs
  <1> HIDE DEF a
  <1>4. /\ b \in Seq(Tokens) /\ Len(b) = F + 2 + L
        /\ \A i \in 1..(F + 2) : b[i] = a[i]
        /\ \A i \in 1..L : b[F + 2 + i] = lines[i]
    <2>1. /\ b \in Seq(Tokens) /\ Len(b) = Len(a) + L
          /\ \A i \in 1..Len(a) : b[i] = a[i]
          /\ \A i \in 1..L : b[Len(a) + i] = lines[i]
      BY <1>3, JoinAt
    <2> HIDE DEF b, F, L
    <2> QED
      BY <1>3, <2>1
  <1> HIDE DEF b
  <1>5. /\ h \in Seq(Tokens) /\ Len(h) = F + 2 + L + 2
        /\ \A i \in 1..(F + 2 + L) : h[i] = b[i]
        /\ h[F + 2 + L + 1] = "\r" /\ h[F + 2 + L + 2] = "\n"
    <2>1. /\ h \in Seq(Tokens) /\ Len(h) = Len(b) + Len(CRLF)
          /\ \A i \in 1..Len(b) : h[i] = b[i]
          /\ \A i \in 1..Len(CRLF) : h[Len(b) + i] = CRLF[i]
      <3>1. b \in Seq(Tokens) /\ CRLF \in Seq(Tokens)
        BY <1>4, CRLFIs
      <3> QED
        BY <3>1, JoinAt
    <2> HIDE DEF h, F, L
    <2> QED
      BY <1>4, <2>1, CRLFIs
  <1> HIDE DEF h
  <1>6. /\ w \in Seq(Tokens) /\ Len(w) = Len(h) + B
        /\ \A i \in 1..Len(h) : w[i] = h[i]
        /\ \A i \in 1..B : w[Len(h) + i] = m.body[i]
    <2>1. h \in Seq(Tokens) /\ m.body \in Seq(Tokens)
      BY <1>5, PartsOf
    <2> QED
      BY <2>1, JoinAt
  <1> HIDE DEF w
  <1>7. /\ x \in Seq(Tokens) /\ Len(x) = Len(w) + E
        /\ \A i \in 1..Len(w) : x[i] = w[i]
    <2>1. w \in Seq(Tokens) /\ m.extra \in Seq(Tokens)
      BY <1>6, PartsOf
    <2> QED
      BY <2>1, JoinAt
  <1> HIDE DEF x, F, L, B, E
  <1>8. /\ Len(h) = F + L + 4 /\ Len(w) = Len(h) + B /\ Len(x) = Len(h) + B + E
        /\ F + 2 + L + 1 = F + L + 3 /\ F + 2 + L + 2 = F + L + 4
    BY <1>1, <1>5, <1>6, <1>7
  <1>9. \A i \in 1..(F + L + 4) : x[i] = h[i]
    BY <1>1, <1>6, <1>7, <1>8
  <1>10. \A i \in 1..B : x[Len(h) + i] = m.body[i]
    BY <1>1, <1>6, <1>7, <1>8
  <1>11. \A i \in 1..(F + 2) : x[i] = a[i]
    BY <1>1, <1>4, <1>5, <1>9
  <1>12. /\ \A i \in 1..F : x[i] = m.first[i]
         /\ x[F + 1] = "\r" /\ x[F + 2] = "\n"
    BY <1>1, <1>3, <1>11
  <1>13. \A i \in 1..L : x[F + 2 + i] = lines[i]
    <2>1. ASSUME NEW i \in 1..L
          PROVE  x[F + 2 + i] = lines[i]
      <3>1. F + 2 + i \in 1..(F + 2 + L) /\ F + 2 + i \in 1..(F + L + 4)
        BY <1>1
      <3>2. x[F + 2 + i] = h[F + 2 + i] /\ h[F + 2 + i] = b[F + 2 + i]
        BY <1>5, <1>9, <3>1
      <3> QED
        BY <1>4, <3>2
    <2> QED
      BY <2>1
  <1>14. x[F + L + 3] = "\r" /\ x[F + L + 4] = "\n"
    BY <1>1, <1>5, <1>8, <1>9
  <1> QED
    BY <1>2, <1>5, <1>7, <1>8, <1>10, <1>12, <1>13, <1>14 DEF F, L, B, E

-----------------------------------------------------------------------------
(* Where the lines of a message are.                                        *)

\* The lines of the head: the first, the headers, and an empty one.
LineOf(m, k) ==
    IF k = 0 THEN m.first ELSE IF k <= Len(m.headers) THEN m.headers[k] ELSE <<>>

\* Line k, with its line end, is what s[k] bytes precede and s[k + 1] end.
Layout(m, s) ==
    /\ s \in [0..(Len(m.headers) + 2) -> Nat]
    /\ s[0] = 0
    /\ s[Len(m.headers) + 2] = Len(HeadOf(m))
    /\ \A k \in 0..(Len(m.headers) + 1) :
          /\ s[k + 1] = s[k] + Len(LineOf(m, k)) + 2
          /\ \A i \in 1..Len(LineOf(m, k)) : Wire(m)[s[k] + i] = LineOf(m, k)[i]
          /\ Wire(m)[s[k] + Len(LineOf(m, k)) + 1] = "\r"
          /\ Wire(m)[s[k] + Len(LineOf(m, k)) + 2] = "\n"

Starts(m) == CHOOSE s : Layout(m, s)

\* What was joined stays in its place.
Joined(S, seqs, g) ==
    /\ seqs \in Seq(Seq(S))
    /\ g \in [0..Len(seqs) -> Seq(S)]
    /\ \A i \in 1..Len(seqs) : g[i] = g[i - 1] \o seqs[i]

Stays(seqs, g, k) ==
    /\ Len(g[k]) <= Len(g[Len(seqs)])
    /\ \A i \in 1..Len(g[k]) : g[Len(seqs)][i] = g[k][i]

LEMMA JoinsNest ==
    ASSUME NEW S, NEW seqs, NEW g, Joined(S, seqs, g), NEW k \in 0..Len(seqs)
    PROVE  Stays(seqs, g, k)
  <1> DEFINE N == Len(seqs)
             Keeps(j) == Len(g[k]) <= Len(g[j]) /\ \A i \in 1..Len(g[k]) : g[j][i] = g[k][i]
             Bad == {j \in k..N : ~ Keeps(j)}
  <1>1. /\ N \in Nat
        /\ \A i \in 1..N : seqs[i] \in Seq(S)
        /\ \A i \in 1..N : g[i] = g[i - 1] \o seqs[i]
    <2>1. seqs \in Seq(Seq(S)) /\ \A i \in 1..N : g[i] = g[i - 1] \o seqs[i]
      BY DEF Joined
    <2>2. N \in Nat /\ \A i \in 1..N : seqs[i] \in Seq(S)
      BY <2>1
    <2> QED
      BY <2>1, <2>2
  <1>2. g \in [0..N -> Seq(S)] /\ k \in 0..N
    BY DEF Joined
  <1> HIDE DEF N
  <1>3. Keeps(k)
    BY <1>2
  <1>4. ASSUME Bad # {}
        PROVE  FALSE
    <2>1. Bad \subseteq Nat
      <3> HIDE DEF Keeps
      <3> QED
        BY <1>1, <1>2
    <2>2. \E j \in Bad : \A i \in Bad : j <= i
      <3> HIDE DEF Bad
      <3> QED
        BY <1>4, <2>1, LeastOf, Zenon
    <2>3. PICK j \in Bad : \A i \in Bad : j <= i
      BY <2>2
    <2>4. j \in k..N /\ ~ Keeps(j)
      BY <2>3
    <2>5. j # k
      BY <1>3, <2>4
    <2>6. j \in 1..N /\ j - 1 \in k..N /\ ~ (j <= j - 1)
      BY <1>1, <1>2, <2>4, <2>5
    <2>7. Keeps(j - 1)
      <3> HIDE DEF Keeps
      <3> QED
        BY <2>3, <2>6
    <2>8. g[j] = g[j - 1] \o seqs[j] /\ seqs[j] \in Seq(S)
      BY <1>1, <2>6
    <2>9. g[j - 1] \in Seq(S) /\ g[k] \in Seq(S)
      <3>1. j - 1 \in 0..N
        BY <1>1, <1>2, <2>6
      <3> QED
        BY <1>2, <3>1
    <2>10. /\ Len(g[j]) = Len(g[j - 1]) + Len(seqs[j])
           /\ Len(g[j - 1]) \in Nat /\ Len(seqs[j]) \in Nat /\ Len(g[k]) \in Nat
           /\ \A i \in 1..Len(g[j - 1]) : g[j][i] = g[j - 1][i]
      <3> DEFINE a == g[j - 1]
                 b == seqs[j]
      <3>1. a \in Seq(S) /\ b \in Seq(S) /\ g[j] = a \o b
        BY <2>8, <2>9
      <3> HIDE DEF a, b
      <3>2. /\ Len(a \o b) = Len(a) + Len(b)
            /\ Len(a) \in Nat /\ Len(b) \in Nat
            /\ \A i \in 1..Len(a) : (a \o b)[i] = a[i]
        BY <3>1, JoinAtIn
      <3>3. Len(g[k]) \in Nat
        BY <2>9
      <3> QED
        BY <3>1, <3>2, <3>3 DEF a, b
    <2>11. Len(g[k]) <= Len(g[j - 1]) /\ \A i \in 1..Len(g[k]) : g[j - 1][i] = g[k][i]
      BY <2>7
    <2>12. Len(g[k]) <= Len(g[j])
      <3>1. \A b, c, d \in Nat : d <= b => d <= b + c
        OBVIOUS
      <3> QED
        BY <2>10, <2>11, <3>1, Zenon
    <2>13. \A i \in 1..Len(g[k]) : i \in 1..Len(g[j - 1])
      BY <2>10, <2>11
    <2>14. Keeps(j)
      BY <2>10, <2>11, <2>12, <2>13
    <2> QED
      BY <2>4, <2>14
  <1>5. N \in k..N
    BY <1>1, <1>2
  <1>6. Keeps(N)
    <2> HIDE DEF Keeps
    <2> QED
      BY <1>4, <1>5
  <1> QED
    BY <1>6 DEF N, Stays

LEMMA StartsRight ==
    ASSUME NEW m \in Messages
    PROVE  Layout(m, Starts(m))
  <1> DEFINE n == Len(m.headers)
             F == Len(m.first)
             ended == [i \in DOMAIN m.headers |-> m.headers[i] \o CRLF]
  <1>1. n \in Nat /\ F \in Nat \ {0} /\ DOMAIN m.headers = 1..n
    BY PartsOf
  <1>2. ASSUME NEW i \in 1..n
        PROVE  /\ m.headers[i] \in Seq(Tokens) /\ Len(m.headers[i]) \in Nat
               /\ m.headers[i] \o CRLF \in Seq(Tokens)
               /\ Len(m.headers[i] \o CRLF) = Len(m.headers[i]) + 2
               /\ \A j \in 1..Len(m.headers[i]) :
                     (m.headers[i] \o CRLF)[j] = m.headers[i][j]
               /\ (m.headers[i] \o CRLF)[Len(m.headers[i]) + 1] = "\r"
               /\ (m.headers[i] \o CRLF)[Len(m.headers[i]) + 2] = "\n"
    <2> DEFINE line == m.headers[i]
               j == line \o CRLF
    <2>1. line \in Seq(Tokens)
      BY PartsOf
    <2> HIDE DEF line
    <2>2. /\ j \in Seq(Tokens) /\ Len(line) \in Nat
          /\ Len(j) = Len(line) + Len(CRLF)
          /\ \A k \in 1..Len(line) : j[k] = line[k]
          /\ \A k \in 1..Len(CRLF) : j[Len(line) + k] = CRLF[k]
      BY <2>1, CRLFIs, JoinAt
    <2> HIDE DEF j
    <2>3. Len(j) = Len(line) + 2 /\ j[Len(line) + 1] = "\r" /\ j[Len(line) + 2] = "\n"
      BY <2>2, CRLFIs
    <2> QED
      BY <2>1, <2>2, <2>3 DEF line, j
  <1>3. ended \in Seq(Seq(Tokens)) /\ Len(ended) = n
    BY <1>1, <1>2
  <1>4. \A i \in 1..n : ended[i] = m.headers[i] \o CRLF
    BY <1>1
  <1>5. PICK g \in [0..n -> Seq(Tokens)] :
           g[0] = <<>> /\ \A i \in 1..n : g[i] = g[i - 1] \o ended[i]
    <2>1. \E g \in [0..Len(ended) -> Seq(Tokens)] :
             g[0] = <<>> /\ \A i \in 1..Len(ended) : g[i] = g[i - 1] \o ended[i]
      <3> HIDE DEF ended
      <3> QED
        BY <1>3, JoinsExist
    <2> HIDE DEF ended, n
    <2> QED
      BY <1>3, <2>1
  <1> HIDE DEF ended
  <1>6. FlattenSeq(ended) = g[n]
    BY <1>3, <1>5, FlattenIsJoin
  <1> DEFINE L == Len(g[n])
  <1>7. g[n] \in Seq(Tokens) /\ L \in Nat
    BY <1>1, <1>5
  <1>8. /\ Len(HeadOf(m)) = F + L + 4
        /\ \A i \in 1..F : Wire(m)[i] = m.first[i]
        /\ Wire(m)[F + 1] = "\r" /\ Wire(m)[F + 2] = "\n"
        /\ \A i \in 1..L : Wire(m)[F + 2 + i] = g[n][i]
        /\ Wire(m)[F + L + 3] = "\r" /\ Wire(m)[F + L + 4] = "\n"
    BY <1>6, <1>7, PlacesOnWire DEF ended
  <1> DEFINE s == [k \in 0..(n + 2) |-> IF k = 0 THEN 0
                                        ELSE IF k = n + 2 THEN F + L + 4
                                        ELSE F + 2 + Len(g[k - 1])]
  <1>9. \A k \in 0..n : Len(g[k]) \in Nat
    BY <1>5
  <1>10. s \in [0..(n + 2) -> Nat]
    <2> SUFFICES ASSUME NEW k \in 0..(n + 2) PROVE s[k] \in Nat
      OBVIOUS
    <2> HIDE DEF L, F, n
    <2>1. CASE k = 0
      BY <1>1, <2>1
    <2>3. CASE k = n + 2
      BY <1>1, <1>7, <2>3
    <2>2. CASE k # 0 /\ k # n + 2
      <3>1. k - 1 \in 0..n
        BY <1>1, <2>2
      <3> QED
        BY <1>1, <1>9, <2>2, <3>1
    <2> QED
      BY <2>1, <2>2, <2>3
  <1>11. s[0] = 0 /\ s[n + 2] = Len(HeadOf(m)) /\ s[1] = F + 2 /\ s[n + 1] = F + 2 + L
    <2>1. 0 \in 0..(n + 2) /\ n + 2 \in 0..(n + 2) /\ 1 \in 0..(n + 2) /\ n + 1 \in 0..(n + 2)
          /\ n + 2 # 0 /\ 1 # n + 2 /\ n + 1 # n + 2 /\ n + 1 # 0 /\ n + 1 - 1 = n
      BY <1>1
    <2>2. Len(g[0]) = 0
      BY <1>5
    <2>3. s[0] = 0 /\ s[n + 2] = F + L + 4 /\ s[1] = F + 2 + Len(g[1 - 1])
          /\ s[n + 1] = F + 2 + Len(g[n + 1 - 1])
      BY <2>1
    <2>4. F + 2 + Len(g[1 - 1]) = F + 2
      <3>1. Len(g[1 - 1]) = 0
        <4>1. 1 - 1 = 0
          OBVIOUS
        <4> QED
          BY <2>2, <4>1
      <3>2. F \in Nat
        BY <1>1
      <3> HIDE DEF F
      <3>3. F + 2 + 0 = F + 2
        BY <3>2
      <3> QED
        BY <3>1, <3>3
    <2> QED
      BY <1>8, <2>1, <2>3, <2>4
  <1>12. \A k \in 1..(n + 1) : s[k] = F + 2 + Len(g[k - 1])
    <2> TAKE k \in 1..(n + 1)
    <2>1. k \in 0..(n + 2) /\ k # 0 /\ k # n + 2
      BY <1>1
    <2> HIDE DEF L, F, n
    <2> QED
      BY <2>1
  <1> HIDE DEF s, L, F, n
  <1>13. ASSUME NEW k \in 0..(n + 1)
         PROVE  /\ s[k + 1] = s[k] + Len(LineOf(m, k)) + 2
                /\ \A i \in 1..Len(LineOf(m, k)) : Wire(m)[s[k] + i] = LineOf(m, k)[i]
                /\ Wire(m)[s[k] + Len(LineOf(m, k)) + 1] = "\r"
                /\ Wire(m)[s[k] + Len(LineOf(m, k)) + 2] = "\n"
    <2>1. CASE k = 0
      <3>1. LineOf(m, k) = m.first
        BY <2>1 DEF LineOf
      <3>2. s[k] = 0 /\ s[k + 1] = F + 2 /\ Len(LineOf(m, k)) = F
        BY <1>11, <2>1, <3>1 DEF F
      <3>3. \A i \in 1..F : Wire(m)[0 + i] = m.first[i]
        BY <1>1, <1>8
      <3>4. 0 + F + 2 = F + 2 /\ 0 + F + 1 = F + 1
        BY <1>1
      <3> QED
        BY <1>8, <3>1, <3>2, <3>3, <3>4
    <2>2. CASE k \in 1..n
      <3> DEFINE H == Len(m.headers[k])
                 G == Len(g[k - 1])
                 j == m.headers[k] \o CRLF
      <3>1. LineOf(m, k) = m.headers[k]
        BY <1>1, <2>2 DEF LineOf, n
      <3>2. k - 1 \in 0..n /\ k \in 0..n /\ k + 1 \in 1..(n + 1) /\ k + 1 - 1 = k /\ k \in 1..(n + 1)
        BY <1>1, <2>2
      <3>3. /\ G \in Nat /\ H \in Nat /\ g[k - 1] \in Seq(Tokens) /\ j \in Seq(Tokens)
            /\ g[k] = g[k - 1] \o j /\ Len(j) = H + 2
        BY <1>2, <1>4, <1>5, <1>9, <2>2, <3>2
      <3>4. /\ Len(g[k]) = G + (H + 2)
            /\ \A i \in 1..(H + 2) : g[k][G + i] = j[i]
        <4> HIDE DEF j, G, H
        <4>1. j \in Seq(Tokens) /\ g[k - 1] \in Seq(Tokens)
          BY <3>3
        <4>2. /\ Len(g[k - 1] \o j) = Len(g[k - 1]) + Len(j)
              /\ \A i \in 1..Len(j) : (g[k - 1] \o j)[Len(g[k - 1]) + i] = j[i]
          BY <4>1, JoinAt
        <4> QED
          BY <3>3, <4>2 DEF G
      <3>5. /\ Len(g[k]) <= L
            /\ \A i \in 1..Len(g[k]) : g[n][i] = g[k][i]
        <4>1. Joined(Tokens, ended, g) /\ k \in 0..Len(ended)
          BY <1>3, <1>5, <3>2 DEF Joined
        <4>2. Stays(ended, g, k)
          BY <4>1, JoinsNest, Zenon
        <4> QED
          BY <1>3, <4>2 DEF L, Stays
      <3>6. s[k] = F + 2 + G /\ s[k + 1] = F + 2 + Len(g[k])
        BY <1>12, <3>2
      <3>7. \A i \in 1..H : j[i] = m.headers[k][i]
        BY <1>2, <2>2
      <3>8. j[H + 1] = "\r" /\ j[H + 2] = "\n"
        BY <1>2, <2>2
      <3> HIDE DEF H, G, j
      <3>9. ASSUME NEW i \in 1..(H + 2)
            PROVE  Wire(m)[s[k] + i] = j[i]
        <4>1. G + i \in 1..Len(g[k]) /\ G + i \in 1..L
          BY <1>7, <3>3, <3>4, <3>5
        <4>2. g[n][G + i] = j[i]
          BY <3>4, <3>5, <4>1
        <4>3. Wire(m)[F + 2 + (G + i)] = g[n][G + i]
          BY <1>8, <4>1
        <4>4. s[k] + i = F + 2 + (G + i)
          BY <1>1, <3>3, <3>6
        <4> QED
          BY <4>2, <4>3, <4>4
      <3>10. s[k] \in Nat
        BY <1>1, <3>3, <3>6
      <3>11. s[k + 1] = s[k] + H + 2
        BY <1>1, <3>3, <3>4, <3>6
      <3>12. Wire(m)[s[k] + (H + 1)] = "\r" /\ Wire(m)[s[k] + (H + 2)] = "\n"
        <4>1. H + 1 \in 1..(H + 2) /\ H + 2 \in 1..(H + 2)
          BY <3>3
        <4> QED
          BY <3>8, <3>9, <4>1
      <3>13. s[k] + (H + 1) = s[k] + H + 1 /\ s[k] + (H + 2) = s[k] + H + 2
        <4>1. H \in Nat
          BY <3>3
        <4> QED
          BY <3>10, <4>1
      <3>14. \A i \in 1..H : Wire(m)[s[k] + i] = m.headers[k][i]
        <4>1. \A i \in 1..H : i \in 1..(H + 2)
          BY <3>3
        <4> QED
          BY <3>7, <3>9, <4>1
      <3>15. Wire(m)[s[k] + H + 1] = "\r" /\ Wire(m)[s[k] + H + 2] = "\n"
        BY <3>12, <3>13
      <3> QED
        BY <3>1, <3>11, <3>14, <3>15 DEF H
    <2>3. CASE k = n + 1
      <3>1. LineOf(m, k) = <<>> /\ Len(LineOf(m, k)) = 0
        <4>1. k # 0 /\ ~ (k <= n)
          BY <1>1, <2>3
        <4> QED
          BY <4>1 DEF LineOf, n
      <3>2. s[k] = F + 2 + L /\ s[k + 1] = F + L + 4
        <4>1. k + 1 = n + 2
          BY <1>1, <2>3
        <4> QED
          BY <1>8, <1>11, <2>3, <4>1
      <3>3. s[k] + 0 + 1 = F + L + 3 /\ s[k] + 0 + 2 = F + L + 4
        BY <1>1, <1>7, <3>2
      <3> QED
        BY <1>8, <3>1, <3>2, <3>3
    <2> QED
      BY <1>1, <2>1, <2>2, <2>3
  <1>14. Layout(m, s)
    BY <1>10, <1>11, <1>13 DEF Layout, n
  <1> QED
    BY <1>14 DEF Starts


-----------------------------------------------------------------------------
(* The inductive invariant.                                                 *)

\* What the parser holds is the end of what it was handed, and what it was
\* handed ends behind a line as long as the head is not complete.
Handed ==
    /\ message \in Messages
    /\ fed \in 0..Len(Wire(message))
    /\ part \in Seq(Tokens) /\ Len(part) <= fed
    /\ \A i \in 1..Len(part) : part[i] = Wire(message)[fed - Len(part) + i]
    /\ start \in 1..(Len(part) + 1)
    /\ fed = 0 \/ fed >= Len(HeadOf(message)) \/ Wire(message)[fed] = "\n"
    /\ kept = <<>>
    /\ mode \in {"headers", "body"}
    /\ state \in {"pending", "running", "ready", "aborted"}

\* The lines before line k are parsed, and nothing was wrong with them.
Parsed(k) ==
    /\ ~ err
    /\ first = IF k = 0 THEN None ELSE message.first
    /\ k > 0 => FirstLineParses(message.first)
    /\ DOMAIN headers = {message.headers[i][1] : i \in 1..(k - 1)}
    /\ \A i \in 1..(k - 1) :
          /\ HasColon(message.headers[i]) /\ HasValue(message.headers[i])
          /\ (\A j \in (i + 1)..(k - 1) : message.headers[j][1] # message.headers[i][1])
                => headers[message.headers[i][1]] = Value(message.headers[i])

\* The rest of the part begins with line k.
AtLine(k) ==
    /\ Parsed(k)
    /\ fed - Len(part) + start - 1 = Starts(message)[k]
    /\ length = None /\ body = <<>>
    /\ state = "pending" => start = Len(part) + 1

\* A byte of the body at least is missing.
InBody ==
    /\ Parsed(Len(message.headers) + 1)
    /\ ~ IsGet /\ WellFormedMessage
    /\ length = Len(message.body)
    /\ body \in Seq(Tokens) /\ Len(body) < Len(message.body)
    /\ \A i \in 1..Len(body) : body[i] = message.body[i]
    /\ Len(HeadOf(message)) + Len(body) =
          IF state = "pending" THEN fed ELSE fed - Len(part)

Outcome ==
    /\ CutsDoNotMatter
    /\ state = "ready" /\ ~ err => fed >= Len(Message(message))

Underway == state \in {"pending", "running"}

ParserInv ==
    /\ Handed
    /\ Underway /\ mode = "headers" => \E k \in 0..(Len(message.headers) + 1) : AtLine(k)
    /\ Underway /\ mode = "body" => InBody
    /\ Ended => Outcome

-----------------------------------------------------------------------------
(* A line and the part it is in.                                            *)

\* A nonempty set of numbers up to N has a greatest.
LEMMA GreatestOf ==
    ASSUME NEW N \in Nat, NEW S, S \subseteq 0..N, S # {}
    PROVE  \E x \in S : \A y \in S : y <= x
  <1> DEFINE D == {N - x : x \in S}
  <1>1. D \subseteq Nat /\ D # {}
    <2>1. \A x \in S : N - x \in Nat
      OBVIOUS
    <2>2. PICK x : x \in S
      OBVIOUS
    <2>3. N - x \in D
      BY <2>2
    <2> QED
      BY <2>1, <2>3
  <1>2. PICK d \in D : \A e \in D : d <= e
    BY <1>1, LeastOf
  <1>3. PICK x \in S : d = N - x
    BY <1>2
  <1>4. ASSUME NEW y \in S
        PROVE  y <= x
    <2>1. N - x <= N - y
      BY <1>2, <1>3
    <2> QED
      BY <2>1
  <1> QED
    BY <1>4

\* What the layout says of line k.
LEMMA LineAt ==
    ASSUME NEW m \in Messages, NEW k \in 0..(Len(m.headers) + 1)
    PROVE  /\ Len(m.headers) \in Nat
           /\ LineOf(m, k) \in Seq(Tokens) /\ Len(LineOf(m, k)) \in Nat
           /\ \A i \in 1..Len(LineOf(m, k)) : LineOf(m, k)[i] \in LinePieces
           /\ LineOf(m, k) = <<>> <=> k = Len(m.headers) + 1
           /\ Starts(m)[k] \in Nat /\ Starts(m)[k + 1] \in Nat
           /\ Starts(m)[k + 1] = Starts(m)[k] + Len(LineOf(m, k)) + 2
           /\ \A i \in 1..Len(LineOf(m, k)) :
                 Wire(m)[Starts(m)[k] + i] = LineOf(m, k)[i]
           /\ Wire(m)[Starts(m)[k] + Len(LineOf(m, k)) + 1] = "\r"
           /\ Wire(m)[Starts(m)[k] + Len(LineOf(m, k)) + 2] = "\n"
  <1>1. Len(m.headers) \in Nat
    BY PartsOf
  <1>2. /\ LineOf(m, k) \in Seq(Tokens) /\ Len(LineOf(m, k)) \in Nat
        /\ \A i \in 1..Len(LineOf(m, k)) : LineOf(m, k)[i] \in LinePieces
        /\ LineOf(m, k) = <<>> <=> k = Len(m.headers) + 1
    <2>1. CASE k = 0
      <3>1. LineOf(m, k) = m.first /\ k # Len(m.headers) + 1
        BY <2>1, <1>1 DEF LineOf
      <3>2. m.first # <<>>
        BY PartsOf, EmptySeq
      <3> QED
        BY <3>1, <3>2, PartsOf
    <2>2. CASE k \in 1..Len(m.headers)
      <3>1. LineOf(m, k) = m.headers[k] /\ k # Len(m.headers) + 1
        BY <2>2, <1>1 DEF LineOf
      <3>2. m.headers[k] # <<>>
        BY <2>2, PartsOf, EmptySeq
      <3> QED
        BY <2>2, <3>1, <3>2, PartsOf
    <2>3. CASE k = Len(m.headers) + 1
      <3>1. LineOf(m, k) = <<>>
        BY <2>3, <1>1 DEF LineOf
      <3>2. Len(LineOf(m, k)) = 0 /\ LineOf(m, k) \in Seq(Tokens)
        BY <3>1
      <3> QED
        BY <2>3, <3>1, <3>2
    <2> QED
      BY <1>1, <2>1, <2>2, <2>3
  <1>3. Layout(m, Starts(m))
    BY StartsRight
  <1>4. Starts(m)[k] \in Nat /\ Starts(m)[k + 1] \in Nat
    <2>1. k \in 0..(Len(m.headers) + 2) /\ k + 1 \in 0..(Len(m.headers) + 2)
      BY <1>1
    <2> QED
      BY <1>3, <2>1 DEF Layout
  <1> QED
    BY <1>1, <1>2, <1>3, <1>4 DEF Layout

\* The lines before the last end before the head does.
LEMMA StartsBelow ==
    ASSUME NEW m \in Messages, NEW k \in 0..(Len(m.headers) + 1)
    PROVE  /\ Starts(m)[k] < Len(HeadOf(m))
           /\ Starts(m)[k + 1] <= Len(HeadOf(m))
           /\ Starts(m)[Len(m.headers) + 2] = Len(HeadOf(m))
           /\ Starts(m)[0] = 0
  <1> DEFINE n == Len(m.headers)
             S(j) == Starts(m)[j]
             H == Len(HeadOf(m))
             Bad == {j \in 0..(n + 1) : ~ (S(j) < H)}
  <1>1. n \in Nat /\ S(n + 2) = H /\ S(0) = 0
    <2>1. Layout(m, Starts(m))
      BY StartsRight
    <2> QED
      BY <2>1, PartsOf DEF Layout
  <1>2. \A j \in 0..(n + 1) : S(j) \in Nat /\ S(j + 1) \in Nat /\ S(j) < S(j + 1)
    <2> TAKE j \in 0..(n + 1)
    <2>1. S(j + 1) = S(j) + Len(LineOf(m, j)) + 2 /\ S(j) \in Nat /\ Len(LineOf(m, j)) \in Nat
      BY LineAt
    <2> HIDE DEF S
    <2> QED
      BY <2>1
  <1> HIDE DEF S, H, n
  <1>3. ASSUME Bad # {}
        PROVE  FALSE
    <2>1. Bad \subseteq 0..(n + 1) /\ n + 1 \in Nat
      BY <1>1
    <2>2. PICK j \in Bad : \A i \in Bad : i <= j
      <3> HIDE DEF Bad
      <3> QED
        BY <1>3, <2>1, GreatestOf
    <2>3. CASE j = n + 1
      <3>1. S(j) < S(j + 1) /\ j + 1 = n + 2
        BY <1>1, <1>2, <2>2, <2>3
      <3> QED
        BY <1>1, <2>2, <3>1
    <2>4. CASE j # n + 1
      <3>1. j + 1 \in 0..(n + 1) /\ ~ (j + 1 <= j) /\ j \in 0..(n + 1)
        BY <1>1, <2>2, <2>4
      <3>2. j + 1 \notin Bad
        BY <2>2, <3>1
      <3>3. S(j + 1) < H
        BY <3>1, <3>2
      <3>4. S(n + 2) \in Nat
        <4>1. n + 1 \in 0..(n + 1) /\ n + 1 + 1 = n + 2
          BY <1>1
        <4> QED
          BY <1>2, <4>1
      <3> QED
        BY <1>1, <1>2, <2>2, <3>1, <3>3, <3>4
    <2> QED
      BY <2>3, <2>4
  <1>4. \A j \in 0..(n + 1) : S(j) < H
    BY <1>3
  <1>5. k \in 0..(n + 1)
    BY DEF n
  <1>6. S(k + 1) <= H
    <2>1. H \in Nat
      <3>1. n + 1 \in 0..(n + 1) /\ n + 1 + 1 = n + 2
        BY <1>1
      <3> QED
        BY <1>1, <1>2, <3>1
    <2>2. CASE k = n + 1
      <3>1. k + 1 = n + 2
        BY <1>1, <2>2
      <3> QED
        BY <1>1, <2>1, <3>1
    <2>3. CASE k # n + 1
      <3>1. k + 1 \in 0..(n + 1)
        BY <1>1, <1>5, <2>3
      <3> QED
        BY <1>2, <1>4, <2>1, <3>1
    <2> QED
      BY <2>2, <2>3
  <1> QED
    BY <1>1, <1>4, <1>5, <1>6 DEF S, H, n

\* A piece of a sequence.
LEMMA PieceOf ==
    ASSUME NEW p \in Seq(Tokens), NEW a \in 1..(Len(p) + 1), NEW z \in (a - 1)..Len(p)
    PROVE  /\ SubSeq(p, a, z) \in Seq(Tokens)
           /\ Len(SubSeq(p, a, z)) = z - a + 1
           /\ \A i \in 1..(z - a + 1) : SubSeq(p, a, z)[i] = p[a + i - 1]
  <1>1. Len(p) \in Nat
    OBVIOUS
  <1>2. a \in Int /\ z \in Int
    BY <1>1
  <1>3. \A i \in a..z : p[i] \in Tokens
    <2>1. \A i \in a..z : i \in 1..Len(p)
      BY <1>1
    <2> QED
      BY <2>1, ElementOfSeq
  <1>4. /\ SubSeq(p, a, z) \in Seq(Tokens)
        /\ Len(SubSeq(p, a, z)) = IF a <= z THEN z - a + 1 ELSE 0
        /\ \A i \in 1..(z - a + 1) : SubSeq(p, a, z)[i] = p[a + i - 1]
    BY <1>2, <1>3, SubSeqProperties
  <1>5. ~ (a <= z) => z - a + 1 = 0
    BY <1>1, <1>2
  <1> QED
    BY <1>4, <1>5

\* What is left of a part begins with a whole line, and no byte before the
\* line's end is "\n".
LEMMA LineInPart ==
    ASSUME Handed, start <= Len(part),
           NEW k \in 0..(Len(message.headers) + 1),
           fed - Len(part) + start - 1 = Starts(message)[k]
    PROVE  LET e == Starts(message)[k + 1] - (fed - Len(part))
           IN  /\ e \in (start + 1)..Len(part)
               /\ part[e - 1] = "\r" /\ part[e] = "\n"
               /\ LineEnds # {} /\ LineEnd = e
               /\ SubSeq(part, start, e - 2) = LineOf(message, k)
  <1> DEFINE P == Len(part)
             off == fed - P
             W(i) == Wire(message)[i]
             a == Starts(message)[k]
             z == Starts(message)[k + 1]
             H == Len(HeadOf(message))
             line == LineOf(message, k)
             L == Len(line)
             e == z - off
  <1>1. /\ P \in Nat /\ fed \in Nat /\ P <= fed /\ part \in Seq(Tokens)
        /\ \A i \in 1..P : part[i] = W(off + i)
        /\ start \in 1..P /\ off + start - 1 = a
        /\ fed >= H \/ W(fed) = "\n"
    <2>1. part \in Seq(Tokens) /\ message \in Messages
      BY DEF Handed
    <2>2. P \in Nat
      BY <2>1
    <2>3. fed \in Nat
      BY DEF Handed
    <2>4. start \in 1..P
      BY <2>2 DEF Handed
    <2>5. P <= fed
      BY DEF Handed
    <2>6. fed # 0
      <3> HIDE DEF P
      <3> QED
        BY <2>2, <2>3, <2>4, <2>5
    <2> QED
      BY <2>1, <2>2, <2>3, <2>4, <2>5, <2>6 DEF Handed
  <1>2. /\ line \in Seq(Tokens) /\ L \in Nat /\ a \in Nat /\ z \in Nat /\ z = a + L + 2
        /\ \A i \in 1..L : line[i] \in LinePieces
        /\ \A i \in 1..L : W(a + i) = line[i]
        /\ W(a + L + 1) = "\r" /\ W(a + L + 2) = "\n"
    <2>1. message \in Messages
      BY DEF Handed
    <2> QED
      BY <2>1, LineAt
  <1>3. z <= H
    <2>1. message \in Messages
      BY DEF Handed
    <2> QED
      BY <2>1, StartsBelow
  <1>4. H \in Nat
    <2>1. message \in Messages
      BY DEF Handed
    <2>2. Layout(message, Starts(message)) /\ Len(message.headers) \in Nat
      BY <2>1, StartsRight, PartsOf
    <2> QED
      BY <2>2 DEF Layout
  <1> HIDE DEF P, W, a, z, H, L, line
  <1>5. \A i \in 1..(L + 1) : W(a + i) # "\n"
    <2> TAKE i \in 1..(L + 1)
    <2>1. CASE i = L + 1
      <3>1. a + i = a + L + 1
        BY <1>2, <2>1
      <3> QED
        BY <1>2, <3>1
    <2>2. CASE i # L + 1
      <3>1. i \in 1..L
        BY <1>2, <2>2
      <3> QED
        BY <1>2, <3>1 DEF LinePieces
    <2> QED
      BY <2>1, <2>2
  <1>6. fed >= z
    <2> SUFFICES ASSUME fed < z PROVE FALSE
      BY <1>1, <1>2
    <2>1. ~ (fed >= H)
      BY <1>1, <1>2, <1>3, <1>4
    <2>2. W(fed) = "\n"
      BY <1>1, <2>1
    <2>3. fed - a \in 1..(L + 1) /\ a + (fed - a) = fed
      BY <1>1, <1>2
    <2> QED
      BY <1>5, <2>2, <2>3
  <1>7. /\ e \in (start + 1)..P /\ off + e = z /\ e \in Int
        /\ e - 1 \in 1..P /\ off + (e - 1) = a + L + 1 /\ e \in 1..P
        /\ e - 2 = start + L - 1 /\ off + e = a + L + 2
    BY <1>1, <1>2, <1>6
  <1>8. part[e - 1] = "\r" /\ part[e] = "\n"
    <2> HIDE DEF e, off
    <2> QED
      BY <1>1, <1>2, <1>7
  <1>9. ASSUME NEW i \in start..(e - 1)
        PROVE  part[i] # "\n"
    <2>1. i \in 1..P /\ i - start + 1 \in 1..(L + 1) /\ a + (i - start + 1) = off + i
      BY <1>1, <1>2, <1>7
    <2> HIDE DEF off, e
    <2> QED
      BY <1>1, <1>5, <2>1
  <1>10. e \in LineEnds /\ \A i \in LineEnds : e <= i
    <2>1. e \in start..P
      BY <1>1, <1>7
    <2>2. e \in LineEnds
      BY <1>8, <2>1 DEF LineEnds, P
    <2>3. ASSUME NEW i \in LineEnds
          PROVE  e <= i
      <3>1. i \in start..P /\ part[i] = "\n"
        BY DEF LineEnds, P
      <3>2. i \notin start..(e - 1)
        BY <1>9, <3>1
      <3> HIDE DEF e
      <3> QED
        BY <1>1, <1>7, <3>1, <3>2
    <2> QED
      BY <2>2, <2>3
  <1>11. LineEnd = e
    <2>1. LineEnd \in LineEnds /\ \A j \in LineEnds : LineEnd <= j
      BY <1>10 DEF LineEnd
    <2>2. LineEnd <= e /\ e <= LineEnd /\ LineEnd \in Int
      BY <1>1, <1>10, <2>1 DEF LineEnds, P
    <2> HIDE DEF e
    <2> QED
      BY <1>7, <2>2
  <1>12. SubSeq(part, start, e - 2) = line
    <2> DEFINE z1 == e - 2
               s == SubSeq(part, start, z1)
    <2>1. z1 \in (start - 1)..P /\ z1 - start + 1 = L /\ start \in 1..(P + 1)
      BY <1>1, <1>2, <1>7
    <2> HIDE DEF z1
    <2>2. part \in Seq(Tokens)
      BY <1>1
    <2>3. /\ s \in Seq(Tokens) /\ Len(s) = z1 - start + 1
          /\ \A i \in 1..(z1 - start + 1) : s[i] = part[start + i - 1]
      BY <2>1, <2>2, PieceOf DEF P
    <2> HIDE DEF s
    <2>4. Len(s) = L
      BY <2>1, <2>3
    <2>5. ASSUME NEW i \in 1..L
          PROVE  s[i] = line[i]
      <3>1. start + i - 1 \in 1..P /\ off + (start + i - 1) = a + i
        BY <1>1, <1>2, <1>7
      <3>2. s[i] = part[start + i - 1]
        BY <2>1, <2>3
      <3> HIDE DEF off, e
      <3> QED
        BY <1>1, <1>2, <3>1, <3>2
    <2> QED
      BY <1>2, <2>3, <2>4, <2>5, SeqEqual DEF L, s, z1
  <1>13. LineEnds # {}
    BY <1>10
  <1> QED
    BY <1>7, <1>8, <1>11, <1>12, <1>13 DEF P, z, line

\* Taking a line from a part takes the next line of the message.
LEMMA TakesNextLine ==
    ASSUME Handed, TakeLine,
           NEW k \in 0..(Len(message.headers) + 1),
           fed - Len(part) + start - 1 = Starts(message)[k]
    PROVE  /\ UNCHANGED <<message, fed, part>> /\ kept' = <<>>
           /\ start' \in 1..(Len(part) + 1)
           /\ fed - Len(part) + start' - 1 = Starts(message)[k + 1]
           /\ \/ FirstLine(LineOf(message, k))
              \/ HeaderLine(LineOf(message, k))
              \/ /\ LineOf(message, k) = <<>>
                 /\ mode' = "body" /\ ReadBody(start')
                 /\ UNCHANGED <<first, headers, err>>
  <1> DEFINE e == Starts(message)[k + 1] - (fed - Len(part))
  <1>1. Len(part) \in Nat /\ fed \in Nat /\ start \in 1..(Len(part) + 1) /\ kept = <<>>
        /\ part \in Seq(Tokens)
    <2>1. part \in Seq(Tokens) /\ fed \in Nat
      BY DEF Handed
    <2> QED
      BY <2>1 DEF Handed
  <1>2. start <= Len(part)
    BY <1>1 DEF TakeLine, LineEnds
  <1>3. /\ e \in (start + 1)..Len(part)
        /\ part[e - 1] = "\r" /\ part[e] = "\n"
        /\ LineEnd = e
        /\ SubSeq(part, start, e - 2) = LineOf(message, k)
    BY <1>2, LineInPart
  <1>4. Starts(message)[k + 1] \in Nat
    <2>1. message \in Messages
      BY DEF Handed
    <2> QED
      BY <2>1, LineAt
  <1>5. fed - Len(part) + e = Starts(message)[k + 1] /\ e \in Nat
    <2>1. ASSUME NEW z \in Nat, NEW f \in Nat, NEW p \in Nat
          PROVE  (f - p) + (z - (f - p)) = z
      OBVIOUS
    <2>2. fed - Len(part) + e = Starts(message)[k + 1]
      BY <1>1, <1>4, <2>1
    <2> HIDE DEF e
    <2>3. e \in Nat
      BY <1>1, <1>3
    <2> QED
      BY <2>2, <2>3
  <1> HIDE DEF e
  <1>6. LineEnd > 1 /\ LineEnd # 1 /\ part[LineEnd - 1] = "\r"
    BY <1>1, <1>3
  <1>7. Skip(e - 1) = e + 1
    <2>1. e - 1 + 1 = e /\ e - 1 + 2 = e + 1 /\ e <= Len(part)
      BY <1>1, <1>3, <1>5
    <2> QED
      BY <1>3, <2>1 DEF Skip
  <1>8. \A garbage : Line(e - 1, garbage) = LineOf(message, k)
    <2>1. e - 1 - 1 = e - 2
      BY <1>5
    <2>2. LineOf(message, k) \in Seq(Tokens)
      <3>1. message \in Messages
        BY DEF Handed
      <3> QED
        BY <3>1, LineAt
    <2>3. <<>> \o LineOf(message, k) = LineOf(message, k)
      BY <2>2, ConcatEmptySeq
    <2> QED
      BY <1>1, <1>3, <2>1, <2>3 DEF Line
  <1>9. /\ \/ EndOfHeaders(e - 1, LineOf(message, k))
           \/ FirstLine(LineOf(message, k))
           \/ HeaderLine(LineOf(message, k))
        /\ start' = e + 1 /\ kept' = <<>>
        /\ UNCHANGED <<message, fed, part>>
    <2> HIDE DEF Handed
    <2> QED
      BY <1>3, <1>6, <1>7, <1>8 DEF TakeLine
  <1>10. start' \in 1..(Len(part) + 1) /\ fed - Len(part) + start' - 1 = Starts(message)[k + 1]
    BY <1>1, <1>3, <1>5, <1>9
  <1>11. EndOfHeaders(e - 1, LineOf(message, k)) =>
            /\ LineOf(message, k) = <<>>
            /\ mode' = "body" /\ ReadBody(start')
            /\ UNCHANGED <<first, headers, err>>
    BY <1>7, <1>9 DEF EndOfHeaders
  <1> QED
    BY <1>9, <1>10, <1>11

-----------------------------------------------------------------------------
(* The body.                                                                *)

LEMMA FlattenType ==
    ASSUME NEW S, NEW seqs \in Seq(Seq(S))
    PROVE  FlattenSeq(seqs) \in Seq(S)
  <1>1. PICK g \in [0..Len(seqs) -> Seq(S)] :
           g[0] = <<>> /\ \A i \in 1..Len(seqs) : g[i] = g[i - 1] \o seqs[i]
    BY JoinsExist
  <1>2. FlattenSeq(seqs) = g[Len(seqs)]
    BY <1>1, FlattenIsJoin
  <1>3. Len(seqs) \in 0..Len(seqs)
    OBVIOUS
  <1> QED
    BY <1>2, <1>3

\* The body follows the head.
LEMMA BodyOnWire ==
    ASSUME NEW m \in Messages
    PROVE  /\ Wire(m) \in Seq(Tokens) /\ Len(HeadOf(m)) \in Nat /\ Len(Wire(m)) \in Nat
           /\ Len(Message(m)) = Len(HeadOf(m)) + Len(m.body)
           /\ Len(Wire(m)) = Len(HeadOf(m)) + Len(m.body) + Len(m.extra)
           /\ \A i \in 1..Len(m.body) : Wire(m)[Len(HeadOf(m)) + i] = m.body[i]
  <1> DEFINE ended == [i \in DOMAIN m.headers |-> m.headers[i] \o CRLF]
  <1>1. Len(m.headers) \in Nat /\ DOMAIN m.headers = 1..Len(m.headers)
    BY PartsOf
  <1>2. \A i \in 1..Len(m.headers) : m.headers[i] \o CRLF \in Seq(Tokens)
    BY PartsOf, CRLFIs, JoinAt
  <1>3. ended \in Seq(Seq(Tokens))
    BY <1>1, <1>2
  <1>4. FlattenSeq(ended) \in Seq(Tokens)
    <2> HIDE DEF ended
    <2> QED
      BY <1>3, FlattenType
  <1>5. /\ Wire(m) \in Seq(Tokens) /\ HeadOf(m) \in Seq(Tokens)
        /\ Len(Message(m)) = Len(HeadOf(m)) + Len(m.body)
        /\ Len(Wire(m)) = Len(HeadOf(m)) + Len(m.body) + Len(m.extra)
        /\ \A i \in 1..Len(m.body) : Wire(m)[Len(HeadOf(m)) + i] = m.body[i]
    BY <1>4, PlacesOnWire
  <1>6. Len(HeadOf(m)) \in Nat /\ Len(Wire(m)) \in Nat
    BY <1>5, LenProperties
  <1> QED
    BY <1>5, <1>6

\* The value of a header is what stands behind its name and the next byte.
LEMMA ValueIs ==
    ASSUME NEW line \in Seq(Tokens)
    PROVE  /\ Value(line) \in Seq(Tokens)
           /\ Len(Value(line)) = IF Len(line) > 2 THEN Len(line) - 2 ELSE 0
           /\ \A i \in 1..Len(Value(line)) : i + 2 \in 1..Len(line) /\ Value(line)[i] = line[i + 2]
           /\ Value(line) # <<>> <=> Len(line) > 2
  <1>1. Len(line) \in Nat /\ \A i \in 3..Len(line) : line[i] \in Tokens
    BY ElementOfSeq
  <1>2. /\ Value(line) \in Seq(Tokens)
        /\ Len(Value(line)) = IF Len(line) > 2 THEN Len(line) - 2 ELSE 0
    BY <1>1 DEF Value
  <1>3. \A i \in 1..Len(Value(line)) : i + 2 \in 1..Len(line) /\ Value(line)[i] = line[i + 2]
    BY <1>1, <1>2 DEF Value
  <1>4. Value(line) # <<>> <=> Len(line) > 2
    BY <1>1, <1>2, EmptySeq
  <1> QED
    BY <1>2, <1>3, <1>4

\* Parsed headers say how long the body is, or the message is malformed.
LEMMA LengthRight ==
    ASSUME message \in Messages, Parsed(Len(message.headers) + 1)
    PROVE  /\ first = message.first /\ ~ err
           /\ IsGet => WellFormedMessage /\ message.body = <<>>
           /\ ~ IsGet /\ WellFormedMessage /\ length = None => ContentLength = Len(message.body)
           /\ ~ WellFormedMessage /\ length = None => ContentLength = None
           /\ length # None => ContentLength = length
           /\ WellFormedMessage => \A i \in DOMAIN message.headers :
                   /\ message.headers[i][1] \in DOMAIN headers
                   /\ IsLast(message, i) =>
                         headers[message.headers[i][1]] = Value(message.headers[i])
  <1> DEFINE n == Len(message.headers)
             CL == "Content-Length:"
             name(i) == message.headers[i][1]
  <1>1. n \in Nat /\ DOMAIN message.headers = 1..n /\ n + 1 - 1 = n /\ n + 1 > 0 /\ n + 1 # 0
    <2>1. n \in Nat /\ DOMAIN message.headers = 1..n
      BY PartsOf
    <2> HIDE DEF n
    <2> QED
      BY <2>1
  <1>2. /\ ~ err /\ first = message.first /\ FirstLineParses(message.first)
        /\ DOMAIN headers = {name(i) : i \in 1..n}
        /\ \A i \in 1..n :
              /\ HasColon(message.headers[i]) /\ HasValue(message.headers[i])
              /\ IsLast(message, i) => headers[name(i)] = Value(message.headers[i])
    BY <1>1 DEF Parsed, IsLast
  <1>3. \A i \in 1..n : message.headers[i] \in Seq(Tokens) /\ message.headers[i] # <<>>
    BY PartsOf, EmptySeq
  <1>4. WellFormedMessage <=> IsGet \/ \E i \in 1..n : LengthAt(message, i)
    BY <1>1, <1>2 DEF WellFormedMessage, IsGet
  <1>5. IsGet => message.body = <<>>
    BY <1>2, MessagesAssumption DEF IsGet
  <1>6. ASSUME NEW i \in 1..n, name(i) = CL, IsLast(message, i)
        PROVE  /\ CL \in DOMAIN headers
               /\ LengthAt(message, i) <=> headers[CL] # <<>> /\ headers[CL][1] \in Numbers
               /\ LengthAt(message, i) => headers[CL][1] = message.headers[i][3]
    <2>1. headers[CL] = Value(message.headers[i]) /\ CL \in DOMAIN headers
      BY <1>2, <1>6
    <2>2. /\ headers[CL] # <<>> <=> Len(message.headers[i]) > 2
          /\ headers[CL] # <<>> => 1 \in 1..Len(headers[CL])
      <3>1. headers[CL] \in Seq(Tokens) /\ (headers[CL] # <<>> <=> Len(message.headers[i]) > 2)
        BY <1>3, <2>1, ValueIs
      <3> QED
        BY <3>1, EmptySeq
    <2>3. headers[CL] # <<>> => headers[CL][1] = message.headers[i][3]
      <3>1. headers[CL] # <<>> => headers[CL][1] = message.headers[i][1 + 2]
        BY <1>3, <2>1, <2>2, ValueIs
      <3> QED
        BY <3>1
    <2> QED
      BY <1>6, <2>1, <2>2, <2>3 DEF LengthAt
  <1>7. CASE \E i \in 1..n : name(i) = CL
    <2> DEFINE Named == {i \in 1..n : name(i) = CL}
    <2>1. PICK i \in Named : \A j \in Named : j <= i
      <3>1. Named # {} /\ Named \subseteq 0..n
        BY <1>7
      <3> HIDE DEF Named, n
      <3> QED
        BY <1>1, <3>1, GreatestOf
    <2>2. i \in 1..n /\ name(i) = CL
      BY <2>1
    <2>3. IsLast(message, i)
      <3>1. ASSUME NEW j \in (i + 1)..n
            PROVE  name(j) # name(i)
        <4> HIDE DEF n
        <4>1. j \in 1..n /\ ~ (j <= i)
          BY <1>1, <2>2
        <4> QED
          BY <2>1, <2>2, <4>1
      <3> QED
        BY <3>1 DEF IsLast
    <2>4. /\ CL \in DOMAIN headers
          /\ LengthAt(message, i) <=> headers[CL] # <<>> /\ headers[CL][1] \in Numbers
          /\ LengthAt(message, i) => headers[CL][1] = message.headers[i][3]
      BY <1>6, <2>2, <2>3
    <2>5. ASSUME NEW j \in 1..n, LengthAt(message, j)
          PROVE  j = i
      <3>1. IsLast(message, j) /\ name(j) = CL
        BY <2>5 DEF LengthAt
      <3>2. j <= i
        BY <2>1, <3>1
      <3>3. ~ (i \in (j + 1)..n)
        BY <2>2, <3>1 DEF IsLast
      <3> HIDE DEF n
      <3> QED
        BY <1>1, <2>2, <3>2, <3>3
    <2>6. (\E j \in 1..n : LengthAt(message, j))
             <=> headers[CL] # <<>> /\ headers[CL][1] \in Numbers
      BY <2>2, <2>4, <2>5
    <2>7. ~ IsGet /\ LengthAt(message, i) => NumberOf[headers[CL][1]] = Len(message.body)
      BY <1>1, <1>2, <2>2, <2>4, MessagesAssumption DEF IsGet
    <2> QED
      BY <1>1, <1>2, <1>4, <1>5, <2>4, <2>6, <2>7 DEF ContentLength
  <1>8. CASE ~ \E i \in 1..n : name(i) = CL
    <2>1. CL \notin DOMAIN headers
      BY <1>2, <1>8
    <2>2. ~ \E i \in 1..n : LengthAt(message, i)
      BY <1>8 DEF LengthAt
    <2> QED
      BY <1>1, <1>2, <1>4, <1>5, <2>1, <2>2 DEF ContentLength
  <1> QED
    BY <1>7, <1>8

\* A part of the body is added to the body.
LEMMA BodyGrows ==
    ASSUME Handed, NEW from \in 1..(Len(part) + 1), NEW upto \in (from - 1)..Len(part),
           body \in Seq(Tokens), \A i \in 1..Len(body) : body[i] = message.body[i],
           Len(HeadOf(message)) + Len(body) = fed - Len(part) + from - 1,
           Len(body) + (upto - from + 1) <= Len(message.body)
    PROVE  LET b == body \o SubSeq(part, from, upto)
           IN  /\ b \in Seq(Tokens) /\ Len(b) = Len(body) + (upto - from + 1)
               /\ \A i \in 1..Len(b) : b[i] = message.body[i]
  <1> DEFINE P == Len(part)
             H == Len(HeadOf(message))
             B == Len(body)
             M == Len(message.body)
             D == upto - from + 1
             t == SubSeq(part, from, upto)
             b == body \o t
             W(i) == Wire(message)[i]
  <1>1. /\ P \in Nat /\ fed \in Nat /\ part \in Seq(Tokens)
        /\ \A i \in 1..P : part[i] = W(fed - P + i)
    <2>1. part \in Seq(Tokens) /\ fed \in Nat
      BY DEF Handed
    <2>2. P \in Nat
      BY <2>1
    <2> QED
      BY <2>1, <2>2 DEF Handed
  <1>2. /\ H \in Nat /\ M \in Nat /\ B \in Nat
        /\ \A i \in 1..M : W(H + i) = message.body[i]
    <2>1. message \in Messages
      BY DEF Handed
    <2>2. H \in Nat /\ M \in Nat /\ \A i \in 1..M : W(H + i) = message.body[i]
      BY <2>1, BodyOnWire, PartsOf
    <2>3. B \in Nat
      OBVIOUS
    <2> QED
      BY <2>2, <2>3
  <1>3. /\ from \in 1..(P + 1) /\ upto \in (from - 1)..P /\ B + D <= M
        /\ H + B = fed - P + from - 1 /\ D \in Nat
    <2>1. from \in 1..(P + 1) /\ upto \in (from - 1)..P
      OBVIOUS
    <2> HIDE DEF P
    <2>2. D \in Nat
      BY <1>1, <2>1
    <2> HIDE DEF D
    <2>3. B + D <= M /\ H + B = fed - P + from - 1
      BY DEF D, P
    <2> QED
      BY <2>1, <2>2, <2>3
  <1>5. /\ t \in Seq(Tokens) /\ Len(t) = D
        /\ \A i \in 1..D : t[i] = part[from + i - 1]
    BY <1>1, <1>3, PieceOf
  <1> HIDE DEF t
  <1>6. /\ b \in Seq(Tokens) /\ Len(b) = B + D
        /\ \A i \in 1..B : b[i] = body[i]
        /\ \A i \in 1..D : b[B + i] = t[i]
    <2>1. /\ b \in Seq(Tokens) /\ Len(b) = B + Len(t)
          /\ \A i \in 1..B : b[i] = body[i]
          /\ \A i \in 1..Len(t) : b[B + i] = t[i]
      BY <1>5, JoinAt
    <2> HIDE DEF b, D
    <2> QED
      BY <1>5, <2>1
  <1>7. \A i \in 1..B : body[i] = message.body[i]
    OBVIOUS
  <1> HIDE DEF b, P, H, B, M, D, W
  <1>8. ASSUME NEW i \in 1..(B + D)
        PROVE  b[i] = message.body[i]
    <2>1. CASE i <= B
      <3>1. i \in 1..B
        BY <1>2, <2>1
      <3> QED
        BY <1>6, <1>7, <3>1
    <2>2. CASE ~ (i <= B)
      <3> DEFINE j == i - B
      <3>1. j \in 1..D /\ B + j = i /\ i \in 1..M
        BY <1>2, <1>3, <2>2
      <3>2. from + j - 1 \in 1..P /\ fed - P + (from + j - 1) = H + i
        <4>1. D = upto - from + 1
          BY DEF D
        <4> HIDE DEF j
        <4> QED
          BY <1>1, <1>2, <1>3, <3>1, <4>1
      <3> HIDE DEF j
      <3>3. b[B + j] = part[from + j - 1]
        BY <1>5, <1>6, <3>1
      <3>4. part[from + j - 1] = W(H + i)
        BY <1>1, <3>2
      <3> QED
        BY <1>2, <3>1, <3>3, <3>4
    <2> QED
      BY <2>1, <2>2
  <1>9. \A i \in 1..Len(b) : b[i] = message.body[i]
    BY <1>6, <1>8
  <1> QED
    BY <1>6, <1>9 DEF b, t, B, D

\* What reading a part of the body comes to, at the end of the headers or
\* later.
LEMMA ReadsBody ==
    ASSUME Handed, Parsed(Len(message.headers) + 1),
           NEW from \in 1..(Len(part) + 1), ReadBody(from),
           UNCHANGED <<message, fed, part, first, headers, err>>, mode' = "body",
           body \in Seq(Tokens), Len(body) <= Len(message.body),
           \A i \in 1..Len(body) : body[i] = message.body[i],
           Len(HeadOf(message)) + Len(body) = fed - Len(part) + from - 1,
           \/ length = None /\ body = <<>>
           \/ length = Len(message.body) /\ WellFormedMessage /\ ~ IsGet
    PROVE  /\ state' \in {"pending", "ready", "aborted"}
           /\ state' = "pending" => InBody'
           /\ Ended' => Outcome'
  <1> DEFINE P == Len(part)
             H == Len(HeadOf(message))
             B == Len(body)
             M == Len(message.body)
  <1>1. message \in Messages
    BY DEF Handed
  <1>2. /\ P \in Nat /\ fed \in Nat /\ H \in Nat /\ B \in Nat /\ M \in Nat /\ B <= M
        /\ from \in 1..(P + 1) /\ H + B = fed - P + from - 1
        /\ Len(Message(message)) = H + M
    <2>1. part \in Seq(Tokens) /\ fed \in Nat
      BY DEF Handed
    <2>2. P \in Nat /\ B \in Nat
      BY <2>1
    <2> QED
      BY <1>1, <2>1, <2>2, BodyOnWire, PartsOf
  <1>3. /\ first = message.first /\ ~ err
        /\ IsGet => WellFormedMessage /\ message.body = <<>>
        /\ ~ IsGet /\ WellFormedMessage /\ length = None => ContentLength = M
        /\ ~ WellFormedMessage /\ length = None => ContentLength = None
        /\ length # None => ContentLength = length
        /\ WellFormedMessage => \A i \in DOMAIN message.headers :
                /\ message.headers[i][1] \in DOMAIN headers
                /\ IsLast(message, i) =>
                      headers[message.headers[i][1]] = Value(message.headers[i])
    BY <1>1, LengthRight
  <1>4. M # None
    BY <1>2, ParserAssumption
  <1>5. /\ WellFormedMessage' <=> WellFormedMessage
        /\ IsGet' <=> IsGet
        /\ Parsed(Len(message.headers) + 1)'
    <2>1. WellFormedMessage' <=> WellFormedMessage
      BY DEF WellFormedMessage, FirstLineParses
    <2>2. IsGet' <=> IsGet
      BY DEF IsGet
    <2>3. Parsed(Len(message.headers) + 1)'
      BY DEF Parsed, FirstLineParses
    <2> QED
      BY <2>1, <2>2, <2>3
  <1>6. ASSUME state' = "ready", WellFormedMessage,
               body' = IF IsGet THEN <<>> ELSE message.body,
               fed >= H + M
        PROVE  Outcome'
    <2>1. CutsDoNotMatter'
      BY <1>3, <1>5, <1>6 DEF CutsDoNotMatter
    <2> QED
      BY <1>2, <1>6, <2>1 DEF Outcome
  <1>7. CASE IsGet
    <2>1. state' = "ready" /\ body' = body
      BY <1>7 DEF ReadBody
    <2>2. body = <<>> /\ M = 0 /\ B = 0
      BY <1>3, <1>7
    <2>3. fed >= H + M
      <3> HIDE DEF P, H, B, M
      <3> QED
        BY <1>2, <2>2
    <2>4. Outcome'
      BY <1>3, <1>6, <1>7, <2>1, <2>2, <2>3
    <2> QED
      BY <2>1, <2>4
  <1>8. CASE ~ IsGet /\ ~ WellFormedMessage
    <2>1. ContentLength = None
      BY <1>3, <1>8
    <2>2. state' = "aborted"
      BY <1>8, <2>1 DEF ReadBody
    <2>3. Outcome'
      BY <1>5, <1>8, <2>2 DEF Outcome, CutsDoNotMatter
    <2> QED
      BY <2>2, <2>3
  <1>9. CASE ~ IsGet /\ WellFormedMessage
    <2>1. ContentLength = M
      BY <1>3, <1>4, <1>9
    <2>2. /\ length' = M
          /\ IF Full(from, M)
             THEN body' = Filled(from, M) /\ state' = "ready"
             ELSE body' = body \o SubSeq(part, from, Len(part)) /\ state' = "pending"
      BY <1>4, <1>9, <2>1 DEF ReadBody
    <2>3. Full(from, M) <=> fed >= H + M
      <3>1. Full(from, M) <=> P - from + 1 + B >= M
        BY DEF Full
      <3> HIDE DEF P, H, B, M
      <3> QED
        BY <1>2, <3>1
    <2>4. CASE Full(from, M)
      <3> DEFINE upto == from + M - B - 1
      <3>1. upto \in (from - 1)..P /\ B + (upto - from + 1) = M
            /\ B + (upto - from + 1) <= M
        <4>1. fed >= H + M
          BY <2>3, <2>4
        <4> HIDE DEF P, H, B, M
        <4> QED
          BY <1>2, <4>1
      <3> HIDE DEF upto
      <3>2. LET b == body \o SubSeq(part, from, upto)
            IN  /\ b \in Seq(Tokens) /\ Len(b) = B + (upto - from + 1)
                /\ \A i \in 1..Len(b) : b[i] = message.body[i]
        BY <3>1, BodyGrows
      <3>3. body' = body \o SubSeq(part, from, upto)
        BY <2>2, <2>4 DEF Filled, upto
      <3>4. body' \in Seq(Tokens) /\ Len(body') = M /\ \A i \in 1..Len(body') : body'[i] = message.body[i]
        BY <3>1, <3>2, <3>3
      <3>5. message.body \in Seq(Tokens)
        BY <1>1, PartsOf
      <3>6. body' = message.body
        BY <3>4, <3>5, SeqEqual
      <3>7. Outcome'
        BY <1>6, <1>9, <2>2, <2>3, <2>4, <3>6
      <3> QED
        BY <2>2, <2>4, <3>7
    <2>5. CASE ~ Full(from, M)
      <3>1. P \in (from - 1)..P /\ B + (P - from + 1) <= M /\ B + (P - from + 1) < M
            /\ H + (B + (P - from + 1)) = fed
        <4>1. ~ (fed >= H + M)
          BY <2>3, <2>5
        <4> HIDE DEF P, H, B, M
        <4> QED
          BY <1>2, <4>1
      <3>2. LET b == body \o SubSeq(part, from, P)
            IN  /\ b \in Seq(Tokens) /\ Len(b) = B + (P - from + 1)
                /\ \A i \in 1..Len(b) : b[i] = message.body[i]
        BY <3>1, BodyGrows
      <3>3. body' = body \o SubSeq(part, from, P) /\ state' = "pending" /\ length' = M
        BY <2>2, <2>5
      <3> DEFINE Q == B + (P - from + 1)
      <3>4. body' \in Seq(Tokens) /\ Len(body') = Q /\ \A i \in 1..Len(body') : body'[i] = message.body[i]
        BY <3>2, <3>3
      <3>5. Len(body') < M /\ H + Len(body') = fed
        BY <3>1, <3>4
      <3>6. InBody'
        BY <1>5, <1>9, <3>3, <3>4, <3>5 DEF InBody
      <3> QED
        BY <3>3, <3>6 DEF Ended
    <2> QED
      BY <2>4, <2>5
  <1> QED
    BY <1>7, <1>8, <1>9

-----------------------------------------------------------------------------
(* The invariant holds.                                                     *)

LEMMA ParserInvInit == ParserInit => ParserInv
  <1> SUFFICES ASSUME ParserInit PROVE ParserInv
    OBVIOUS
  <1> USE DEF ParserInit
  <1>1. message \in Messages /\ Len(message.headers) \in Nat
    BY PartsOf
  <1>2. Len(Wire(message)) \in Nat
    BY <1>1, BodyOnWire
  <1>3. Handed
    <2>1. part \in Seq(Tokens) /\ Len(part) = 0
      OBVIOUS
    <2> QED
      BY <1>1, <1>2, <2>1 DEF Handed
  <1>4. AtLine(0)
    <2>1. Starts(message)[0] = 0
      <3>1. 0 \in 0..(Len(message.headers) + 1)
        BY <1>1
      <3> QED
        BY <1>1, <3>1, StartsBelow
    <2>2. Parsed(0)
      <3>1. {message.headers[i][1] : i \in 1..(0 - 1)} = {}
        OBVIOUS
      <3>2. DOMAIN headers = {}
        OBVIOUS
      <3>3. 1..(0 - 1) = {}
        OBVIOUS
      <3> QED
        BY <3>1, <3>2, <3>3 DEF Parsed
    <2>3. Len(part) = 0
      OBVIOUS
    <2>4. fed - Len(part) + start - 1 = 0
      <3>1. 0 - 0 + 1 - 1 = 0 /\ fed = 0 /\ start = 1
        OBVIOUS
      <3> QED
        BY <2>3, <3>1, Zenon
    <2> QED
      BY <2>1, <2>2, <2>3, <2>4 DEF AtLine
  <1>5. 0 \in 0..(Len(message.headers) + 1)
    BY <1>1
  <1> QED
    BY <1>3, <1>4, <1>5 DEF ParserInv, Ended

\* Another part is read, up to the end of a line or of more.
LEMMA FeedKeepsInv ==
    ASSUME ParserInv, Feed, ~ CutInLine
    PROVE  ParserInv'
  <1>1. /\ message \in Messages /\ fed \in 0..Len(Wire(message)) /\ part \in Seq(Tokens)
        /\ kept = <<>> /\ mode \in {"headers", "body"}
    BY DEF ParserInv, Handed
  <1>2. Wire(message) \in Seq(Tokens) /\ Len(Wire(message)) \in Nat
    BY <1>1, BodyOnWire
  <1>3. fed \in Nat /\ Len(part) \in Nat
    BY <1>1, <1>2
  <1>4. PICK n \in 1..(Len(Wire(message)) - fed) :
           /\ fed + n >= Len(HeadOf(message)) \/ Wire(message)[fed + n] = "\n"
           /\ part' = SubSeq(Wire(message), fed + 1, fed + n)
           /\ fed' = fed + n
    BY DEF Feed
  <1>5. /\ state = "pending" /\ start' = 1 /\ state' = "running"
        /\ UNCHANGED <<message, mode, kept, first, headers, length, body, err>>
    BY DEF Feed
  <1>6. /\ part' \in Seq(Tokens) /\ Len(part') = n
        /\ \A i \in 1..n : part'[i] = Wire(message)[fed + i]
    <2> DEFINE W == Wire(message)
    <2> HIDE DEF W
    <2> DEFINE L == Len(W)
               a == fed + 1
               z == fed + n
    <2>1. W \in Seq(Tokens) /\ L \in Nat /\ n \in 1..(L - fed)
      BY <1>2, <1>4 DEF W
    <2>2. a \in 1..(L + 1) /\ z \in (a - 1)..L /\ z - a + 1 = n
      <3> HIDE DEF L
      <3> QED
        BY <1>3, <2>1
    <2> HIDE DEF a, z
    <2>3. /\ SubSeq(W, a, z) \in Seq(Tokens)
          /\ Len(SubSeq(W, a, z)) = z - a + 1
          /\ \A i \in 1..(z - a + 1) : SubSeq(W, a, z)[i] = W[a + i - 1]
      BY <2>1, <2>2, PieceOf
    <2>4. \A i \in 1..n : a + i - 1 = fed + i
      BY <1>3 DEF a
    <2>5. part' = SubSeq(W, a, z)
      BY <1>4 DEF W, a, z
    <2> HIDE DEF L
    <2> QED
      BY <2>2, <2>3, <2>4, <2>5 DEF W
  <1>7. fed' - Len(part') = fed /\ fed' \in 0..Len(Wire(message)) /\ n \in Nat /\ n <= fed'
    <2> DEFINE L == Len(Wire(message))
    <2>1. L \in Nat /\ n \in 1..(L - fed)
      BY <1>2, <1>4
    <2> HIDE DEF L
    <2> QED
      BY <1>3, <1>4, <1>6, <2>1 DEF L
  <1>8. Handed'
    <2>1. start' \in 1..(Len(part') + 1)
      BY <1>5, <1>6, <1>7
    <2>2. \A i \in 1..Len(part') : part'[i] = Wire(message)[fed' - Len(part') + i]
      BY <1>6, <1>7
    <2>3. fed' >= Len(HeadOf(message)) \/ Wire(message)[fed'] = "\n"
      BY <1>4
    <2> QED
      BY <1>1, <1>5, <1>6, <1>7, <2>1, <2>2, <2>3 DEF Handed
  <1>9. mode = "headers" => \E k \in 0..(Len(message.headers) + 1) : AtLine(k)'
    <2> SUFFICES ASSUME mode = "headers"
                 PROVE  \E k \in 0..(Len(message.headers) + 1) : AtLine(k)'
      OBVIOUS
    <2>1. PICK k \in 0..(Len(message.headers) + 1) : AtLine(k)
      BY <1>5 DEF ParserInv, Underway
    <2>2. Parsed(k)'
      BY <1>5, <2>1 DEF AtLine, Parsed, FirstLineParses
    <2>3. fed' - Len(part') + start' - 1 = Starts(message)[k]
      <3>1. fed - Len(part) + start - 1 = Starts(message)[k] /\ start = Len(part) + 1
        BY <1>5, <2>1 DEF AtLine
      <3>2. fed = Starts(message)[k]
        BY <1>3, <3>1
      <3> QED
        BY <1>3, <1>5, <1>7, <3>2
    <2>4. AtLine(k)'
      BY <1>5, <2>1, <2>2, <2>3 DEF AtLine
    <2> QED
      BY <2>4
  <1>10. mode = "body" => InBody'
    <2> SUFFICES ASSUME mode = "body" PROVE InBody'
      OBVIOUS
    <2>1. InBody
      BY <1>5 DEF ParserInv, Underway
    <2>2. Parsed(Len(message.headers) + 1)'
      BY <1>5, <2>1 DEF InBody, Parsed, FirstLineParses
    <2>3. IsGet' <=> IsGet
      BY <1>5 DEF IsGet
    <2>4. WellFormedMessage' <=> WellFormedMessage
      BY <1>5 DEF WellFormedMessage, FirstLineParses
    <2> QED
      BY <1>5, <1>7, <2>1, <2>2, <2>3, <2>4 DEF InBody
  <1> QED
    BY <1>5, <1>8, <1>9, <1>10 DEF ParserInv, Underway, Ended

\* A part ends with its last line: nothing is ever kept.
LEMMA KeepKeepsInv ==
    ASSUME ParserInv, Keep
    PROVE  ParserInv'
  <1>1. Handed /\ state = "running" /\ mode = "headers" /\ LineEnds = {}
    BY DEF ParserInv, Keep
  <1>2. state' = "pending" /\ kept' = kept \o SubSeq(part, start, Len(part))
        /\ UNCHANGED <<message, fed, part, start, mode, first, headers, length, body, err>>
    BY DEF Keep
  <1>3. PICK k \in 0..(Len(message.headers) + 1) : AtLine(k)
    BY <1>1 DEF ParserInv, Underway
  <1>4. fed - Len(part) + start - 1 = Starts(message)[k]
    BY <1>3 DEF AtLine
  <1>5. ~ (start <= Len(part))
    BY <1>1, <1>4, LineInPart
  <1>6. Len(part) \in Nat /\ start \in 1..(Len(part) + 1)
    <2>1. part \in Seq(Tokens)
      BY <1>1 DEF Handed
    <2> QED
      BY <1>1, <2>1 DEF Handed
  <1>7. start = Len(part) + 1
    BY <1>5, <1>6
  <1>8. kept' = <<>>
    <2>1. kept = <<>>
      BY <1>1 DEF Handed
    <2>2. SubSeq(part, start, Len(part)) = <<>>
      BY <1>6, <1>7, SubSeqEmpty
    <2> QED
      BY <1>2, <2>1, <2>2
  <1>9. Handed'
    BY <1>1, <1>2, <1>8 DEF Handed
  <1>10. AtLine(k)'
    <2>1. Parsed(k)'
      BY <1>2, <1>3 DEF AtLine, Parsed, FirstLineParses
    <2> QED
      BY <1>2, <1>3, <1>7, <2>1 DEF AtLine
  <1> QED
    BY <1>1, <1>2, <1>9, <1>10 DEF ParserInv, Underway, Ended

\* A part of the body is read.
LEMMA TakeBodyKeepsInv ==
    ASSUME ParserInv, TakeBody
    PROVE  ParserInv'
  <1>1. Handed /\ state = "running" /\ mode = "body" /\ InBody
    BY DEF ParserInv, TakeBody, Underway
  <1>2. ReadBody(1) /\ UNCHANGED <<message, fed, part, start, mode, kept, first, headers, err>>
    BY DEF TakeBody
  <1>3. /\ message \in Messages /\ part \in Seq(Tokens) /\ fed \in Nat
        /\ Parsed(Len(message.headers) + 1)
        /\ body \in Seq(Tokens) /\ Len(body) < Len(message.body)
        /\ \A i \in 1..Len(body) : body[i] = message.body[i]
        /\ Len(HeadOf(message)) + Len(body) = fed - Len(part)
        /\ length = Len(message.body) /\ WellFormedMessage /\ ~ IsGet
    BY <1>1 DEF InBody, Handed
  <1>4. Len(part) \in Nat /\ Len(body) \in Nat /\ Len(message.body) \in Nat
    BY <1>3, PartsOf
  <1>5. /\ 1 \in 1..(Len(part) + 1) /\ Len(body) <= Len(message.body)
        /\ fed - Len(part) + 1 - 1 = fed - Len(part)
    BY <1>3, <1>4
  <1>6. /\ state' \in {"pending", "ready", "aborted"}
        /\ state' = "pending" => InBody'
        /\ Ended' => Outcome'
    BY <1>1, <1>2, <1>3, <1>5, ReadsBody
  <1>7. Handed'
    BY <1>1, <1>2, <1>6 DEF Handed
  <1> QED
    BY <1>1, <1>2, <1>6, <1>7 DEF ParserInv, Underway

\* The first line is taken.
LEMMA FirstLineKeepsInv ==
    ASSUME ParserInv, state = "running", mode = "headers",
           NEW k \in 0..(Len(message.headers) + 1), AtLine(k),
           FirstLine(LineOf(message, k)), UNCHANGED <<message, fed, part>>, Handed',
           fed - Len(part) + start' - 1 = Starts(message)[k + 1]
    PROVE  ParserInv'
  <1>1. message \in Messages /\ Len(message.headers) \in Nat
    BY PartsOf DEF ParserInv, Handed
  <1>2. k = 0
    <2>1. message.first # None
      BY <1>1, PartsOf, ParserAssumption
    <2> QED
      BY <2>1 DEF FirstLine, AtLine, Parsed
  <1> DEFINE line == message.first
  <1>3. /\ first' = line
        /\ err' = ~ FirstLineParses(line)
        /\ state' = IF FirstLineParses(line) THEN "running" ELSE "ready"
        /\ UNCHANGED <<mode, headers, length, body>>
    BY <1>2 DEF FirstLine, LineOf
  <1>4. FirstLineParses(line)' <=> FirstLineParses(line)
    BY DEF FirstLineParses
  <1>5. CASE FirstLineParses(line)
    <2>1. Parsed(1)'
      <3>1. {message.headers[i][1] : i \in 1..(0 - 1)} = {message.headers[i][1] : i \in 1..(1 - 1)}
            /\ 1..(1 - 1) = {}
        OBVIOUS
      <3>2. DOMAIN headers = {message.headers[i][1] : i \in 1..(0 - 1)}
        BY <1>2 DEF AtLine, Parsed
      <3>3. ~ err' /\ first' = message'.first /\ FirstLineParses(message.first)'
        BY <1>3, <1>4, <1>5
      <3>4. DOMAIN headers' = {message'.headers[i][1] : i \in 1..(1 - 1)}
        BY <1>3, <3>1, <3>2
      <3>5. 1 # 0 /\ 1 - 1 = 0
        OBVIOUS
      <3>6. first' = IF 1 = 0 THEN None ELSE message'.first
        BY <3>3, <3>5
      <3>7. \A i \in 1..(1 - 1) : FALSE
        BY <3>1
      <3> QED
        BY <3>3, <3>4, <3>6, <3>7 DEF Parsed
    <2>2. AtLine(1)'
      <3>1. k + 1 = 1
        BY <1>2
      <3>2. length = None /\ body = <<>>
        BY DEF AtLine
      <3> QED
        BY <1>3, <1>5, <2>1, <3>1, <3>2 DEF AtLine
    <2>3. 1 \in 0..(Len(message.headers) + 1)
      BY <1>1
    <2> QED
      BY <1>3, <1>5, <2>2, <2>3 DEF ParserInv, Underway, Ended
  <1>6. CASE ~ FirstLineParses(line)
    <2>1. state' = "ready" /\ err'
      BY <1>3, <1>6
    <2>2. ~ WellFormedMessage'
      BY <1>4, <1>6 DEF WellFormedMessage
    <2>3. Outcome'
      BY <2>1, <2>2 DEF Outcome, CutsDoNotMatter
    <2> QED
      BY <2>1, <2>3 DEF ParserInv, Underway
  <1> QED
    BY <1>5, <1>6

\* A header line is taken.
LEMMA HeaderLineKeepsInv ==
    ASSUME ParserInv, state = "running", mode = "headers",
           NEW k \in 0..(Len(message.headers) + 1), AtLine(k),
           HeaderLine(LineOf(message, k)), UNCHANGED <<message, fed, part>>, Handed',
           fed - Len(part) + start' - 1 = Starts(message)[k + 1]
    PROVE  ParserInv'
  <1> DEFINE n == Len(message.headers)
             name(i) == message.headers[i][1]
             line == message.headers[k]
  <1>1. message \in Messages /\ n \in Nat /\ DOMAIN message.headers = 1..n
    BY PartsOf DEF ParserInv, Handed
  <1>2. k \in 1..n /\ LineOf(message, k) = line
    <2>1. k # 0
      BY DEF HeaderLine, AtLine, Parsed
    <2>2. k # n + 1
      BY <1>1, LineAt DEF HeaderLine
    <2>3. k \in 1..n
      <3> HIDE DEF n
      <3>1. k \in 0..(n + 1)
        BY DEF n
      <3> QED
        BY <1>1, <2>1, <2>2, <3>1
    <2> QED
      BY <1>1, <2>1, <2>3 DEF LineOf
  <1>3. /\ IF ~ HasColon(line)
           THEN err' = TRUE /\ state' = "ready" /\ UNCHANGED headers
           ELSE IF ~ HasValue(line)
           THEN state' = "aborted" /\ UNCHANGED <<headers, err>>
           ELSE /\ headers' = [x \in DOMAIN headers \cup {line[1]} |->
                                 IF x = line[1] THEN Value(line) ELSE headers[x]]
                /\ UNCHANGED <<state, err>>
        /\ UNCHANGED <<mode, first, length, body>>
    BY <1>2 DEF HeaderLine
  <1>4. CASE ~ HasColon(line) \/ ~ HasValue(line)
    <2>1. \/ state' = "ready" /\ err'
          \/ state' = "aborted"
      BY <1>3, <1>4
    <2>2. ~ WellFormedMessage'
      <3>1. k \in DOMAIN message.headers
        BY <1>1, <1>2
      <3> QED
        BY <1>4, <3>1 DEF WellFormedMessage
    <2>3. Outcome'
      BY <2>1, <2>2 DEF Outcome, CutsDoNotMatter
    <2> QED
      BY <2>1, <2>3 DEF ParserInv, Underway
  <1>5. CASE HasColon(line) /\ HasValue(line)
    <2>1. /\ headers' = [x \in DOMAIN headers \cup {name(k)} |->
                           IF x = name(k) THEN Value(line) ELSE headers[x]]
          /\ UNCHANGED <<state, err, mode, first, length, body>>
      BY <1>3, <1>5
    <2>2. k + 1 - 1 = k /\ k > 0 /\ k + 1 > 0 /\ k # 0 /\ k + 1 # 0 /\ k \in Nat
      <3> HIDE DEF n
      <3> QED
        BY <1>1, <1>2
    <2>3. /\ DOMAIN headers = {name(i) : i \in 1..(k - 1)}
          /\ \A i \in 1..(k - 1) :
                /\ HasColon(message.headers[i]) /\ HasValue(message.headers[i])
                /\ (\A j \in (i + 1)..(k - 1) : name(j) # name(i))
                      => headers[name(i)] = Value(message.headers[i])
          /\ ~ err /\ first = message.first /\ FirstLineParses(message.first)
      BY <2>2 DEF AtLine, Parsed
    <2> HIDE DEF name
    <2>4. DOMAIN headers' = {name(i) : i \in 1..k}
      <3>1. DOMAIN headers' = DOMAIN headers \cup {name(k)}
        BY <2>1
      <3>2. \A i : i \in 1..k <=> i \in 1..(k - 1) \/ i = k
        BY <2>2
      <3> QED
        BY <2>3, <3>1, <3>2
    <2>5. ASSUME NEW i \in 1..k
          PROVE  /\ HasColon(message.headers[i]) /\ HasValue(message.headers[i])
                 /\ (\A j \in (i + 1)..k : name(j) # name(i))
                       => headers'[name(i)] = Value(message.headers[i])
      <3>1. CASE i = k
        BY <1>5, <2>1, <3>1
      <3>2. CASE i # k
        <4>1. i \in 1..(k - 1) /\ k \in (i + 1)..k
          BY <2>2, <3>2
        <4>2. ASSUME \A j \in (i + 1)..k : name(j) # name(i)
              PROVE  headers'[name(i)] = Value(message.headers[i])
          <5>1. name(i) # name(k)
            BY <4>1, <4>2
          <5>2. \A j \in (i + 1)..(k - 1) : j \in (i + 1)..k
            BY <2>2, <4>1
          <5>3. headers[name(i)] = Value(message.headers[i])
            BY <2>3, <4>1, <4>2, <5>2
          <5>4. name(i) \in DOMAIN headers
            BY <2>3, <4>1
          <5> QED
            BY <2>1, <5>1, <5>3, <5>4
        <4> QED
          BY <2>3, <4>1, <4>2
      <3> QED
        BY <3>1, <3>2
    <2>6. Parsed(k + 1)'
      <3>1. FirstLineParses(message.first)'
        BY <2>3 DEF FirstLineParses
      <3>2. ~ err' /\ first' = IF k + 1 = 0 THEN None ELSE message'.first
        BY <2>1, <2>2, <2>3
      <3>3. DOMAIN headers' = {message'.headers[i][1] : i \in 1..(k + 1 - 1)}
        BY <2>2, <2>4 DEF name
      <3>4. \A i \in 1..(k + 1 - 1) :
               /\ HasColon(message'.headers[i]) /\ HasValue(message'.headers[i])
               /\ (\A j \in (i + 1)..(k + 1 - 1) : message'.headers[j][1] # message'.headers[i][1])
                     => headers'[message'.headers[i][1]] = Value(message'.headers[i])
        BY <2>2, <2>5 DEF name
      <3> HIDE DEF n, line
      <3> QED
        BY <3>1, <3>2, <3>3, <3>4 DEF Parsed, HasColon, HasValue
    <2>7. AtLine(k + 1)'
      BY <2>1, <2>6 DEF AtLine
    <2>8. k + 1 \in 0..(n + 1)
      <3> HIDE DEF n
      <3> QED
        BY <1>1, <1>2
    <2> QED
      BY <2>1, <2>7, <2>8 DEF ParserInv, Underway, Ended
  <1> QED
    BY <1>4, <1>5

LEMMA TakeLineKeepsInv ==
    ASSUME ParserInv, TakeLine
    PROVE  ParserInv'
  <1>1. Handed /\ state = "running" /\ mode = "headers"
    BY DEF ParserInv, TakeLine
  <1>2. PICK k \in 0..(Len(message.headers) + 1) : AtLine(k)
    BY <1>1 DEF ParserInv, Underway
  <1>3. /\ UNCHANGED <<message, fed, part>> /\ kept' = <<>>
        /\ start' \in 1..(Len(part) + 1)
        /\ fed - Len(part) + start' - 1 = Starts(message)[k + 1]
        /\ \/ FirstLine(LineOf(message, k))
           \/ HeaderLine(LineOf(message, k))
           \/ /\ LineOf(message, k) = <<>>
              /\ mode' = "body" /\ ReadBody(start')
              /\ UNCHANGED <<first, headers, err>>
    <2>1. fed - Len(part) + start - 1 = Starts(message)[k]
      BY <1>2 DEF AtLine
    <2> QED
      BY <1>1, <2>1, TakesNextLine
  <1>4. Handed' <=> mode' \in {"headers", "body"} /\ state' \in {"pending", "running", "ready", "aborted"}
    BY <1>1, <1>3 DEF Handed
  <1>5. CASE FirstLine(LineOf(message, k))
    <2>1. Handed'
      BY <1>1, <1>4, <1>5 DEF FirstLine
    <2> QED
      BY <1>1, <1>2, <1>3, <1>5, <2>1, FirstLineKeepsInv
  <1>6. CASE HeaderLine(LineOf(message, k))
    <2>1. Handed'
      BY <1>1, <1>4, <1>6 DEF HeaderLine
    <2> QED
      BY <1>1, <1>2, <1>3, <1>6, <2>1, HeaderLineKeepsInv
  <1>7. CASE /\ LineOf(message, k) = <<>>
             /\ mode' = "body" /\ ReadBody(start')
             /\ UNCHANGED <<first, headers, err>>
    <2>1. message \in Messages
      BY <1>1 DEF Handed
    <2>2. k = Len(message.headers) + 1 /\ k + 1 = Len(message.headers) + 2
      BY <1>7, <2>1, LineAt
    <2>3. Starts(message)[k + 1] = Len(HeadOf(message))
      BY <2>1, <2>2, StartsBelow
    <2>4. /\ Parsed(Len(message.headers) + 1) /\ length = None /\ body = <<>>
      BY <1>2, <2>2 DEF AtLine
    <2>5. /\ body \in Seq(Tokens) /\ Len(body) = 0 /\ Len(body) <= Len(message.body)
          /\ \A i \in 1..Len(body) : body[i] = message.body[i]
      BY <2>1, <2>4, PartsOf
    <2>6. Len(HeadOf(message)) + Len(body) = fed - Len(part) + start' - 1
      BY <1>3, <2>1, <2>3, <2>5, BodyOnWire
    <2>7. /\ state' \in {"pending", "ready", "aborted"}
          /\ state' = "pending" => InBody'
          /\ Ended' => Outcome'
      BY <1>1, <1>3, <1>7, <2>4, <2>5, <2>6, ReadsBody
    <2>8. Handed'
      BY <1>4, <1>7, <2>7
    <2> QED
      BY <1>7, <2>7, <2>8 DEF ParserInv, Underway
  <1> QED
    BY <1>3, <1>5, <1>6, <1>7

LEMMA ParserInvStep == ~ CutInLine /\ ParserInv /\ [ParserNext]_parserVars => ParserInv'
  <1> SUFFICES ASSUME ~ CutInLine, ParserInv, [ParserNext]_parserVars PROVE ParserInv'
    OBVIOUS
  <1>1. CASE Feed
    BY <1>1, FeedKeepsInv
  <1>2. CASE Keep
    BY <1>2, KeepKeepsInv
  <1>3. CASE TakeLine
    BY <1>3, TakeLineKeepsInv
  <1>4. CASE TakeBody
    BY <1>4, TakeBodyKeepsInv
  <1>5. CASE UNCHANGED parserVars
    <2>1. UNCHANGED <<message, fed, part, start, mode, kept, first, headers, length, body, state, err>>
      BY <1>5 DEF parserVars
    <2>2. Handed' <=> Handed
      BY <2>1 DEF Handed
    <2>3. ASSUME NEW k
          PROVE  (Parsed(k)' <=> Parsed(k)) /\ (AtLine(k)' <=> AtLine(k))
      <3>1. Parsed(k)' <=> Parsed(k)
        BY <2>1 DEF Parsed, FirstLineParses
      <3> QED
        BY <2>1, <3>1 DEF AtLine
    <2>4. (IsGet' <=> IsGet) /\ (WellFormedMessage' <=> WellFormedMessage) /\ (Ended' <=> Ended)
          /\ (Underway' <=> Underway)
      BY <2>1 DEF IsGet, WellFormedMessage, FirstLineParses, Ended, Underway
    <2>5. InBody' <=> InBody
      <3>1. Parsed(Len(message.headers) + 1)' <=> Parsed(Len(message.headers) + 1)
        BY <2>1 DEF Parsed, FirstLineParses
      <3> QED
        BY <2>1, <2>4, <3>1 DEF InBody
    <2>6. Outcome' <=> Outcome
      BY <2>1, <2>4 DEF Outcome, CutsDoNotMatter
    <2> QED
      BY <2>1, <2>2, <2>3, <2>4, <2>5, <2>6 DEF ParserInv
  <1> QED
    BY <1>1, <1>2, <1>3, <1>4, <1>5 DEF ParserNext

\* Between two parts the message is not complete, and a READY one is.
LEMMA InvIsInTime == ParserInv => ReadyInTime
  <1> SUFFICES ASSUME ParserInv PROVE ReadyInTime
    OBVIOUS
  <1>1. message \in Messages /\ fed \in Nat
    <2>1. message \in Messages /\ fed \in 0..Len(Wire(message))
      BY DEF ParserInv, Handed
    <2> QED
      BY <2>1, BodyOnWire
  <1>2. /\ Len(HeadOf(message)) \in Nat /\ Len(message.body) \in Nat
        /\ Len(Message(message)) = Len(HeadOf(message)) + Len(message.body)
    BY <1>1, BodyOnWire, PartsOf
  <1>3. ASSUME state = "ready", ~ err
        PROVE  fed >= Len(Message(message))
    BY <1>3 DEF ParserInv, Ended, Outcome
  <1>4. ASSUME state = "pending", mode = "headers"
        PROVE  fed < Len(Message(message))
    <2>1. PICK k \in 0..(Len(message.headers) + 1) : AtLine(k)
      BY <1>4 DEF ParserInv, Underway
    <2>2. Len(part) \in Nat
      <3>1. part \in Seq(Tokens)
        BY DEF ParserInv, Handed
      <3> QED
        BY <3>1
    <2>3. fed = Starts(message)[k]
      <3>1. fed - Len(part) + start - 1 = Starts(message)[k] /\ start = Len(part) + 1
        BY <1>4, <2>1 DEF AtLine
      <3> QED
        BY <1>1, <2>2, <3>1
    <2>4. Starts(message)[k] < Len(HeadOf(message))
      BY <1>1, StartsBelow
    <2> QED
      BY <1>1, <1>2, <2>3, <2>4
  <1>5. ASSUME state = "pending", mode = "body"
        PROVE  fed < Len(Message(message))
    <2>1. InBody
      BY <1>5 DEF ParserInv, Underway
    <2>2. /\ Len(HeadOf(message)) + Len(body) = fed
          /\ Len(body) < Len(message.body) /\ body \in Seq(Tokens)
      BY <1>5, <2>1 DEF InBody
    <2>3. Len(body) \in Nat
      BY <2>2
    <2> QED
      BY <1>1, <1>2, <2>2, <2>3
  <1>6. mode \in {"headers", "body"}
    BY DEF ParserInv, Handed
  <1> QED
    BY <1>3, <1>4, <1>5, <1>6 DEF ReadyInTime

\* When parts end behind lines the invariant holds.
THEOREM ParserInvCorrect == ASSUME ~ CutInLine PROVE ParserSpec => []ParserInv
  <1>1. ParserInit => ParserInv
    BY ParserInvInit
  <1>2. ParserInv /\ [ParserNext]_parserVars => ParserInv'
    BY ParserInvStep
  <1> QED
    BY <1>1, <1>2, PTL DEF ParserSpec

\* When parts of a head end behind its lines, a well-formed message is taken as
\* it was sent, however its lines are dealt out to parts and wherever its body is
\* cut, and any other is refused or ends the process.
THEOREM CutsDoNotMatterCorrect == ASSUME ~ CutInLine PROVE ParserSpec => []CutsDoNotMatter
  <1>1. ParserInv => CutsDoNotMatter
    BY DEF ParserInv, Outcome, CutsDoNotMatter
  <1> QED
    BY <1>1, ParserInvCorrect, PTL

\* When parts of a head end behind its lines, the parser is READY with the last
\* byte of the message, and never waits for what will not come.
THEOREM ReadyInTimeCorrect == ASSUME ~ CutInLine PROVE ParserSpec => []ReadyInTime
  BY InvIsInTime, ParserInvCorrect, PTL

\* The lines of a message hold no "\r".
LEMMA LinesHoldNoCR ==
    ASSUME NEW m \in Messages, NEW k \in 0..(Len(m.headers) + 1)
    PROVE  /\ "\r" \notin ToSet(LineOf(m, k))
           /\ "\r" \notin ToSet(Value(LineOf(m, k)))
  <1> DEFINE line == LineOf(m, k)
  <1>1. line \in Seq(Tokens) /\ \A i \in 1..Len(line) : line[i] # "\r"
    BY LineAt DEF LinePieces
  <1> HIDE DEF line
  <1>2. "\r" \notin ToSet(line)
    BY <1>1 DEF ToSet
  <1>3. "\r" \notin ToSet(Value(line))
    <2> DEFINE t == Value(line)
    <2>1. /\ t \in Seq(Tokens)
          /\ \A i \in 1..Len(t) : i + 2 \in 1..Len(line) /\ t[i] = line[i + 2]
      BY <1>1, ValueIs
    <2> HIDE DEF t
    <2>2. \A i \in 1..Len(t) : t[i] # "\r"
      BY <1>1, <2>1
    <2> QED
      BY <2>1, <2>2 DEF ToSet, t
  <1> QED
    BY <1>2, <1>3 DEF line

LEMMA SkipsCRStep == ParserInv /\ SkipsCR /\ [ParserNext]_parserVars => SkipsCR'
  <1> SUFFICES ASSUME ParserInv, SkipsCR, [ParserNext]_parserVars PROVE SkipsCR'
    OBVIOUS
  <1>1. CASE UNCHANGED <<first, headers>>
    BY <1>1 DEF SkipsCR
  <1>2. CASE TakeLine
    <2>1. Handed /\ message \in Messages /\ state = "running" /\ mode = "headers"
      BY <1>2 DEF ParserInv, Handed, TakeLine
    <2>2. PICK k \in 0..(Len(message.headers) + 1) : AtLine(k)
      BY <2>1 DEF ParserInv, Underway
    <2> DEFINE line == LineOf(message, k)
    <2>3. FirstLine(line) \/ HeaderLine(line) \/ UNCHANGED <<first, headers>>
      <3>1. fed - Len(part) + start - 1 = Starts(message)[k]
        BY <2>2 DEF AtLine
      <3> QED
        BY <1>2, <2>1, <3>1, TakesNextLine
    <2>4. "\r" \notin ToSet(line) /\ "\r" \notin ToSet(Value(line))
      BY <2>1, LinesHoldNoCR
    <2> HIDE DEF line
    <2>5. CASE FirstLine(line)
      BY <2>4, <2>5 DEF FirstLine, SkipsCR
    <2>6. CASE HeaderLine(line)
      <3>1. UNCHANGED first /\ line # <<>>
        BY <2>6 DEF HeaderLine
      <3>2. CASE UNCHANGED headers
        BY <1>1, <3>1, <3>2
      <3>3. CASE headers' = [n \in DOMAIN headers \cup {line[1]} |->
                               IF n = line[1] THEN Value(line) ELSE headers[n]]
        BY <2>4, <3>1, <3>3 DEF SkipsCR
      <3> QED
        BY <2>6, <3>2, <3>3 DEF HeaderLine
    <2> QED
      BY <1>1, <2>3, <2>5, <2>6
  <1>3. CASE Feed \/ Keep \/ TakeBody \/ UNCHANGED parserVars
    BY <1>1, <1>3 DEF Feed, Keep, TakeBody, parserVars
  <1> QED
    BY <1>2, <1>3 DEF ParserNext

\* Only a part that ends inside a line makes the parser skip another byte than
\* the "\r" of a line end.
THEOREM SkipsCRCorrect == ASSUME ~ CutInLine PROVE ParserSpec => []SkipsCR
  <1>1. ParserInit => SkipsCR
    BY DEF ParserInit, SkipsCR
  <1> QED
    BY <1>1, SkipsCRStep, ParserInvCorrect, PTL DEF ParserSpec

-----------------------------------------------------------------------------
(* Where a request is routed to.                                             *)

\* A prefix agrees with the whole at every place.
LEMMA PrefixAt ==
    ASSUME NEW p \in Seq(Nat), NEW r \in Seq(Nat), IsPrefix(p, r)
    PROVE  Len(p) <= Len(r) /\ \A i \in 1..Len(p) : p[i] = r[i]
  BY DEF IsPrefix

\* Of two prefixes of one string the shorter is a prefix of the longer.
LEMMA PrefixesNest ==
    ASSUME NEW p \in Seq(Nat), NEW q \in Seq(Nat), NEW r \in Seq(Nat),
           IsPrefix(p, r), IsPrefix(q, r), Len(p) <= Len(q)
    PROVE  IsPrefix(p, q)
  <1>1. /\ \A i \in 1..Len(p) : p[i] = r[i]
        /\ \A i \in 1..Len(q) : q[i] = r[i]
    <2>1. \A i \in 1..Len(p) : p[i] = r[i]
      BY PrefixAt
    <2>2. \A i \in 1..Len(q) : q[i] = r[i]
      BY PrefixAt
    <2> QED
      BY <2>1, <2>2
  <1>2. \A i \in 1..Len(p) : p[i] = q[i]
    <2>1. Len(p) \in Nat /\ Len(q) \in Nat
      OBVIOUS
    <2>2. \A i \in 1..Len(p) : i \in 1..Len(q)
      BY <2>1
    <2> QED
      BY <1>1, <2>2
  <1>3. SubSeq(p, 1, Len(p)) = SubSeq(q, 1, Len(p))
    BY <1>2
  <1> QED
    BY <1>3 DEF IsPrefix

\* No string of the chain comes before a shorter one.
LEMMA LongerIsNotBefore ==
    ASSUME NEW p \in Seq(Nat), NEW q \in Seq(Nat), NEW r \in Seq(Nat),
           IsPrefix(p, r), IsPrefix(q, r), Before(q, p)
    PROVE  Len(q) <= Len(p)
  <1>1. CASE IsStrictPrefix(q, p)
    BY <1>1, PrefixAt DEF IsStrictPrefix
  <1>2. CASE \E i \in 1..Len(q) : i <= Len(p) /\ q[i] < p[i]
    <2>1. PICK i \in 1..Len(q) : i <= Len(p) /\ q[i] < p[i]
      BY <1>2
    <2>2. p[i] = r[i] /\ q[i] = r[i] /\ r[i] \in Nat
      BY <2>1, PrefixAt
    <2> QED
      BY <2>1, <2>2
  <1> QED
    BY <1>1, <1>2 DEF Before

\* The paths that match a request are prefixes of its path.
LEMMA MatchesArePrefixes ==
    ASSUME NEW r \in Requests, NEW server, NEW p \in Matches(server, r)
    PROVE  /\ p \in DOMAIN PathOf /\ PathOf[p] \in Seq(Nat)
           /\ r.path \in Seq(Nat)
           /\ IsPrefix(PathOf[p], r.path)
  BY ConfigAssumption DEF Matches

\* The last match is the longest.
LEMMA LastIsLongest ==
    ASSUME NEW r \in Requests, NEW server,
           NEW p \in LastOf(Matches(server, r)), NEW q \in Matches(server, r)
    PROVE  Len(PathOf[q]) <= Len(PathOf[p])
  <1>1. p \in Matches(server, r) /\ (q = p \/ Before(PathOf[q], PathOf[p]))
    BY DEF LastOf
  <1>2. CASE q = p
    BY <1>1, <1>2, MatchesArePrefixes
  <1>3. CASE Before(PathOf[q], PathOf[p])
    BY <1>1, <1>3, MatchesArePrefixes, LongerIsNotBefore
  <1> QED
    BY <1>1, <1>2, <1>3

\* If any path matches, one of them is last: the longest, of which there is one.
LEMMA LastExists ==
    ASSUME NEW r \in Requests, NEW server, Matches(server, r) # {}
    PROVE  LastOf(Matches(server, r)) # {}
  <1> DEFINE M == Matches(server, r)
             Rest(p) == Len(r.path) - Len(PathOf[p])
             Rests == {Rest(p) : p \in M}
  <1>1. \A p \in M : Rest(p) \in Nat
    BY MatchesArePrefixes, PrefixAt
  <1>2. Rests \subseteq Nat /\ Rests # {}
    BY <1>1
  <1>3. PICK n \in Rests : \A k \in Rests : ~ (k < n)
    <2>1. \E n \in Rests : \A k \in Rests : n <= k
      <3> HIDE DEF Rests
      <3> QED
        BY <1>2, LeastOf, Zenon
    <2>2. \A n, k \in Nat : n <= k => ~ (k < n)
      OBVIOUS
    <2> HIDE DEF Rests
    <2> QED
      BY <1>2, <2>1, <2>2
  <1>4. PICK p \in M : n = Rest(p)
    BY <1>3
  <1>5. ASSUME NEW q \in M
        PROVE  q = p \/ Before(PathOf[q], PathOf[p])
    <2>1. Len(PathOf[q]) <= Len(PathOf[p])
      <3> DEFINE R == Len(r.path)
                 P == Len(PathOf[p])
                 Q == Len(PathOf[q])
      <3>1. ~ (R - Q < R - P)
        BY <1>3, <1>4
      <3>2. R \in Nat /\ Q \in Nat /\ P \in Nat
        BY MatchesArePrefixes
      <3> HIDE DEF R, P, Q
      <3>3. Q <= P
        BY <3>1, <3>2
      <3> QED
        BY <3>3 DEF P, Q
    <2>2. IsPrefix(PathOf[q], PathOf[p])
      BY <2>1, MatchesArePrefixes, PrefixesNest
    <2>3. CASE PathOf[q] = PathOf[p]
      BY <2>3, MatchesArePrefixes, ConfigAssumption
    <2>4. CASE PathOf[q] # PathOf[p]
      BY <2>2, <2>4 DEF Before, IsStrictPrefix
    <2> QED
      BY <2>3, <2>4
  <1>6. p \in LastOf(M)
    BY <1>5 DEF LastOf
  <1> QED
    BY <1>6

-----------------------------------------------------------------------------

\* No request is answered before the configuration is in place, so changing
\* it cannot falsify what was returned for one.
RoutingInv ==
    /\ RoutesToLongestPrefix
    /\ status = "starting" => request = NoRequest

\* get_location() returns the longest location that accepts the request, and
\* nullptr only if there is none.
THEOREM RoutesToLongestPrefixCorrect == Spec => []RoutesToLongestPrefix
  <1>1. ConfigInit => RoutingInv
    BY DEF ConfigInit, RoutingInv, RoutesToLongestPrefix
  <1>2. RoutingInv /\ [Next]_vars => RoutingInv'
    <2> SUFFICES ASSUME RoutingInv, [Next]_vars
                 PROVE  RoutingInv'
      OBVIOUS
    <2>1. CASE UNCHANGED <<status, servers, request, location>>
      BY <2>1 DEF RoutingInv, RoutesToLongestPrefix, ServerFor, Matches
    <2>2. CASE Configure
      BY <2>2 DEF Configure, RoutingInv, RoutesToLongestPrefix
    <2>3. ASSUME NEW r \in Requests, GetLocation(r)
          PROVE  RoutingInv'
      <3>1. /\ request' = r /\ servers' = servers /\ status' = "serving"
            /\ location' = UNION {LastOf(Matches(server, r)) : server \in ServerFor(r)}
        BY <2>3 DEF GetLocation
      <3>2. ServerFor(request)' = ServerFor(r)
        BY <3>1 DEF ServerFor
      <3>3. ASSUME NEW server \in ServerFor(r), NEW p \in location',
                   NEW q \in Matches(server, r)
            PROVE  Len(PathOf[q]) <= Len(PathOf[p])
        <4>1. p \in LastOf(Matches(server, r))
          BY <3>1 DEF ServerFor
        <4> QED
          BY <4>1, LastIsLongest
      <3>4. ASSUME location' = {}, NEW server \in ServerFor(r)
            PROVE  Matches(server, r) = {}
        <4>1. LastOf(Matches(server, r)) \subseteq location'
          BY <3>1
        <4> QED
          BY <3>4, <4>1, LastExists
      <3>5. RoutesToLongestPrefix'
        BY <3>1, <3>2, <3>3, <3>4 DEF RoutesToLongestPrefix
      <3> QED
        BY <3>1, <3>5 DEF RoutingInv
    <2> QED
      BY <2>1, <2>2, <2>3 DEF Next, vars, ReadFile
  <1>3. RoutingInv => RoutesToLongestPrefix
    BY DEF RoutingInv
  <1> QED
    BY <1>1, <1>2, <1>3, PTL DEF Spec

-----------------------------------------------------------------------------
(* What is left of a sequence without some of its places.                   *)

LEMMA SequenceIs ==
    ASSUME NEW S, NEW s \in Seq(S)
    PROVE  IsSequence(s)
  BY DEF IsSequence

\* q[i] of the first i places are left.
Kept(s, places, q) ==
    /\ q \in [0..Len(s) -> Nat]
    /\ q[0] = 0
    /\ \A i \in 1..Len(s) : q[i] = IF i \in places THEN q[i - 1] ELSE q[i - 1] + 1
    /\ Len(Without(s, places)) = q[Len(s)]
    /\ \A i \in 1..Len(s) : i \notin places => Without(s, places)[q[i]] = s[i]

LEMMA WithoutKeeps ==
    ASSUME NEW S, NEW s \in Seq(S), NEW D
    PROVE  Without(s, D) \in Seq(S) /\ \E q : Kept(s, D, q)
  <1> DEFINE n == Len(s)
             pieces == [i \in 1..n |-> IF i \in D THEN <<>> ELSE <<s[i]>>]
  <1>1. n \in Nat /\ \A i \in 1..n : s[i] \in S
    OBVIOUS
  <1> HIDE DEF n
  <1>2. \A i \in 1..n : pieces[i] = IF i \in D THEN <<>> ELSE <<s[i]>>
    OBVIOUS
  <1>3. pieces \in Seq(Seq(S)) /\ Len(pieces) = n
    <2>1. \A x \in S : <<x>> \in Seq(S)
      OBVIOUS
    <2>2. <<>> \in Seq(S)
      OBVIOUS
    <2>3. \A i \in 1..n : pieces[i] \in Seq(S)
      BY <1>1, <1>2, <2>1, <2>2
    <2>4. pieces \in [1..n -> Seq(S)]
      BY <2>3
    <2> QED
      BY <1>1, <2>4
  <1>4. Without(s, D) = FlattenSeq(pieces)
    BY DEF Without, n
  <1> HIDE DEF pieces
  <1>5. PICK g \in [0..n -> Seq(S)] :
           g[0] = <<>> /\ \A i \in 1..n : g[i] = g[i - 1] \o pieces[i]
    <2>1. \E g \in [0..Len(pieces) -> Seq(S)] :
             g[0] = <<>> /\ \A i \in 1..Len(pieces) : g[i] = g[i - 1] \o pieces[i]
      BY <1>3, JoinsExist
    <2> QED
      BY <1>3, <2>1
  <1>6. Without(s, D) = g[n] /\ g[n] \in Seq(S)
    <2>1. FlattenSeq(pieces) = g[n]
      BY <1>3, <1>5, FlattenIsJoin
    <2> QED
      BY <1>1, <1>4, <1>5, <2>1
  <1> DEFINE q == [i \in 0..n |-> Len(g[i])]
  <1>7. q \in [0..n -> Nat]
    BY <1>5
  <1>8. q[0] = 0 /\ Len(g[n]) = q[n]
    <2>1. 0 \in 0..n /\ n \in 0..n
      BY <1>1
    <2>2. Len(<<>>) = 0
      OBVIOUS
    <2> QED
      BY <1>5, <2>1, <2>2
  <1>9. ASSUME NEW i \in 1..n
        PROVE  /\ q[i] = IF i \in D THEN q[i - 1] ELSE q[i - 1] + 1
               /\ i \notin D => g[n][q[i]] = s[i]
    <2> DEFINE a == g[i - 1]
    <2>1. i \in 0..n /\ i - 1 \in 0..n
      BY <1>1
    <2>2. a \in Seq(S) /\ q[i - 1] = Len(a) /\ q[i] = Len(g[i]) /\ g[i] = a \o pieces[i]
      BY <1>5, <2>1
    <2> HIDE DEF a
    <2>3. CASE i \in D
      <3>1. g[i] = a
        BY <1>2, <2>2, <2>3, ConcatEmptySeq
      <3> HIDE DEF q
      <3> QED
        BY <2>2, <2>3, <3>1
    <2>4. CASE i \notin D
      <3> DEFINE b == <<s[i]>>
      <3>1. b \in Seq(S) /\ Len(b) = 1 /\ b[1] = s[i]
        BY <1>1
      <3>2. g[i] = a \o b
        BY <1>2, <2>2, <2>4
      <3> HIDE DEF b, q
      <3>3. /\ Len(a) \in Nat /\ Len(g[i]) = Len(a) + 1
            /\ g[i][Len(a) + 1] = s[i]
        <4>1. /\ Len(a) \in Nat /\ Len(a \o b) = Len(a) + Len(b)
              /\ \A k \in 1..Len(b) : (a \o b)[Len(a) + k] = b[k]
          <5>1. a \in Seq(S) /\ b \in Seq(S)
            BY <2>2, <3>1
          <5> QED
            BY <5>1, JoinAtIn
        <4>2. 1 \in 1..1
          OBVIOUS
        <4> QED
          BY <3>1, <3>2, <4>1, <4>2
      <3>4. \A k \in 1..Len(g[i]) : g[n][k] = g[i][k]
        <4>1. Joined(S, pieces, g) /\ i \in 0..Len(pieces)
          BY <1>3, <1>5, <2>1 DEF Joined
        <4>2. Stays(pieces, g, i)
          BY <4>1, JoinsNest, Zenon
        <4> QED
          BY <1>3, <4>2 DEF Stays
      <3>5. Len(a) + 1 \in 1..Len(g[i])
        BY <3>3
      <3>6. q[i] = Len(a) + 1
        BY <2>2, <3>3
      <3> QED
        BY <2>2, <2>4, <3>3, <3>4, <3>5, <3>6
    <2> QED
      BY <2>3, <2>4
  <1> HIDE DEF q
  <1>10. Kept(s, D, q)
    BY <1>6, <1>7, <1>8, <1>9 DEF Kept, n
  <1> QED
    BY <1>6, <1>10

\* It counts up by at most one from place to place, and whatever is left was
\* at a place that is kept.
LEMMA KeptInOrder ==
    ASSUME NEW s, NEW D, NEW q, Kept(s, D, q), Len(s) \in Nat,
           NEW i \in 0..Len(s), NEW j \in i..Len(s)
    PROVE  /\ q[i] \in Nat /\ q[j] \in Nat
           /\ q[i] <= q[j] /\ q[j] - q[i] <= j - i
           /\ (\A k \in (i + 1)..j : k \in D) => q[j] = q[i]
  <1> DEFINE n == Len(s)
             Fact(k) == /\ q[k] \in Nat /\ q[i] <= q[k] /\ q[k] - q[i] <= k - i
                        /\ (\A x \in (i + 1)..k : x \in D) => q[k] = q[i]
             Bad == {k \in i..n : ~ Fact(k)}
  <1>1. /\ n \in Nat /\ i \in 0..n /\ j \in i..n
        /\ \A k \in 0..n : q[k] \in Nat
        /\ \A k \in 1..n : q[k] = IF k \in D THEN q[k - 1] ELSE q[k - 1] + 1
    BY DEF Kept
  <1> HIDE DEF n
  <1>2. Fact(i)
    BY <1>1
  <1>3. ASSUME Bad # {} PROVE FALSE
    <2>1. Bad \subseteq Nat
      <3> HIDE DEF Fact
      <3> QED
        BY <1>1
    <2>2. \E k \in Bad : \A x \in Bad : k <= x
      <3> HIDE DEF Bad
      <3> QED
        BY <1>3, <2>1, LeastOf, Zenon
    <2>3. PICK k \in Bad : \A x \in Bad : k <= x
      BY <2>2
    <2>4. k \in i..n /\ ~ Fact(k)
      BY <2>3
    <2>5. k # i
      BY <1>2, <2>4
    <2>6. k \in 1..n /\ k - 1 \in i..n /\ ~ (k <= k - 1) /\ k \in 0..n /\ k - 1 \in 0..n
          /\ k \in (i + 1)..k
      BY <1>1, <2>4, <2>5
    <2>7. Fact(k - 1)
      <3> HIDE DEF Fact
      <3> QED
        BY <2>3, <2>6
    <2>8. q[k] = IF k \in D THEN q[k - 1] ELSE q[k - 1] + 1
      BY <1>1, <2>6
    <2>9. q[k] \in Nat /\ q[k - 1] \in Nat /\ q[i] \in Nat
      BY <1>1, <2>6
    <2>10. q[i] <= q[k] /\ q[k] - q[i] <= k - i
      <3> DEFINE a == q[i]
                 b == q[k - 1]
                 c == q[k]
      <3>1. a <= b /\ b - a <= (k - 1) - i
        BY <2>7
      <3>2. c = b \/ c = b + 1
        BY <2>8
      <3>3. a \in Nat /\ b \in Nat /\ c \in Nat /\ k \in Nat /\ i \in Nat
        BY <1>1, <2>6, <2>9
      <3> HIDE DEF a, b, c
      <3>4. a <= c /\ c - a <= k - i
        BY <3>1, <3>2, <3>3
      <3> QED
        BY <3>4 DEF a, c
    <2>11. ASSUME \A x \in (i + 1)..k : x \in D
           PROVE  q[k] = q[i]
      <3>1. \A x \in (i + 1)..(k - 1) : x \in (i + 1)..k
        BY <1>1, <2>6
      <3>2. q[k - 1] = q[i]
        BY <2>7, <2>11, <3>1
      <3> QED
        BY <2>6, <2>8, <2>11, <3>2
    <2>12. Fact(k)
      BY <2>9, <2>10, <2>11
    <2> QED
      BY <2>4, <2>12
  <1>4. Fact(j)
    <2> HIDE DEF Fact
    <2> QED
      BY <1>1, <1>3
  <1>5. q[i] \in Nat
    BY <1>1
  <1> QED
    BY <1>4, <1>5

\* Place v of what is left was at a place up to j, if v is up to q[j]; and
\* nothing from behind it to j is left, if v is q[j].
LEMMA KeptComesFrom ==
    ASSUME NEW s, NEW D, NEW q, Kept(s, D, q), Len(s) \in Nat,
           NEW j \in 0..Len(s), NEW v \in 1..q[j]
    PROVE  \E i \in 1..j : /\ i \notin D /\ q[i] = v
                           /\ v = q[j] => \A k \in (i + 1)..j : k \in D
  <1> DEFINE n == Len(s)
             Reached == {i \in 0..j : v <= q[i]}
  <1>1. /\ n \in Nat /\ j \in 0..n
        /\ \A k \in 0..n : q[k] \in Nat
        /\ \A k \in 1..n : q[k] = IF k \in D THEN q[k - 1] ELSE q[k - 1] + 1
        /\ q[0] = 0
    BY DEF Kept
  <1>2. v \in Nat /\ 1 <= v /\ v <= q[j]
    BY <1>1
  <1> HIDE DEF n
  <1>3. Reached \subseteq Nat /\ j \in Reached
    BY <1>1, <1>2
  <1>4. \E i \in Reached : \A k \in Reached : i <= k
    <2>1. Reached # {}
      BY <1>3
    <2> HIDE DEF Reached
    <2> QED
      BY <1>3, <2>1, LeastOf, Zenon
  <1>5. PICK i \in Reached : \A k \in Reached : i <= k
    BY <1>4
  <1>6. i \in 0..j /\ v <= q[i] /\ i # 0
    BY <1>1, <1>2, <1>5
  <1>7. i \in 1..j /\ i \in 1..n /\ i - 1 \in 0..j /\ i - 1 \in 0..n /\ i \in 0..n
        /\ ~ (i <= i - 1)
    BY <1>1, <1>6
  <1>8. ~ (v <= q[i - 1])
    BY <1>5, <1>7
  <1>9. q[i] = (IF i \in D THEN q[i - 1] ELSE q[i - 1] + 1) /\ q[i - 1] \in Nat
    BY <1>1, <1>7
  <1>10. i \notin D /\ q[i] = v
    BY <1>2, <1>6, <1>8, <1>9
  <1>11. ASSUME v = q[j], NEW k \in (i + 1)..j
         PROVE  k \in D
    <2>1. k \in 1..n /\ k \in 0..n /\ k - 1 \in 0..n /\ k - 1 \in i..n /\ j \in k..n /\ i \in 0..n
      BY <1>1, <1>7
    <2>2. q[i] <= q[k - 1]
      BY <1>1, <2>1, KeptInOrder DEF n
    <2>3. q[k] <= q[j]
      BY <1>1, <2>1, KeptInOrder DEF n
    <2>4. q[k] = (IF k \in D THEN q[k - 1] ELSE q[k - 1] + 1) /\ q[k - 1] \in Nat
      BY <1>1, <2>1
    <2> QED
      BY <1>2, <1>10, <1>11, <2>2, <2>3, <2>4
  <1> QED
    BY <1>7, <1>10, <1>11

-----------------------------------------------------------------------------
(* Which files are well-formed when they are repaired.                      *)

LEMMA MarksDiffer ==
    /\ OpenBrace # CloseBrace /\ OpenBrace # Semicolon /\ CloseBrace # Semicolon
    /\ Comment # OpenBrace /\ Comment # CloseBrace /\ Comment # Semicolon
  BY Zenon DEF OpenBrace, CloseBrace, Semicolon, Comment

\* How many of the first i tokens are x.
LEMMA CountStep ==
    ASSUME NEW s, NEW x, NEW i \in Nat
    PROVE  /\ Count(s, x, i) \in Nat /\ Count(s, x, 0) = 0
           /\ Count(s, x, i + 1) = Count(s, x, i) + (IF s[i + 1] = x THEN 1 ELSE 0)
  <1> DEFINE A(k) == {j \in 1..k : s[j] = x}
  <1>1. IsFiniteSet(A(i))
    <2>1. IsFiniteSet(1..i) /\ A(i) \subseteq 1..i
      BY FS_Interval
    <2> HIDE DEF A
    <2> QED
      BY <2>1, FS_Subset
  <1>2. A(0) = {}
    OBVIOUS
  <1>3. i + 1 \notin A(i)
    OBVIOUS
  <1>4. CASE s[i + 1] = x
    <2>1. A(i + 1) = A(i) \cup {i + 1}
      <3>1. \A j \in 1..(i + 1) : j \in 1..i \/ j = i + 1
        OBVIOUS
      <3>2. \A j \in 1..i : j \in 1..(i + 1)
        OBVIOUS
      <3>3. i + 1 \in 1..(i + 1)
        OBVIOUS
      <3> QED
        BY <1>4, <3>1, <3>2, <3>3
    <2> HIDE DEF A
    <2>2. Cardinality(A(i + 1)) = Cardinality(A(i)) + 1
      BY <1>1, <1>3, <2>1, FS_AddElement
    <2>3. Cardinality(A(i)) \in Nat /\ Cardinality(A(0)) = 0
      BY <1>1, <1>2, FS_CardinalityType, FS_EmptySet
    <2> QED
      BY <1>4, <2>2, <2>3 DEF A, Count
  <1>5. CASE s[i + 1] # x
    <2>1. A(i + 1) = A(i)
      <3>1. \A j \in 1..(i + 1) : j \in 1..i \/ j = i + 1
        OBVIOUS
      <3>2. \A j \in 1..i : j \in 1..(i + 1)
        OBVIOUS
      <3> QED
        BY <1>5, <3>1, <3>2
    <2> HIDE DEF A
    <2>2. Cardinality(A(i)) \in Nat /\ Cardinality(A(0)) = 0
      BY <1>1, <1>2, FS_CardinalityType, FS_EmptySet
    <2>3. Cardinality(A(i + 1)) = Cardinality(A(i)) + 0
      BY <2>1, <2>2
    <2> QED
      BY <1>5, <2>2, <2>3 DEF A, Count
  <1> QED
    BY <1>4, <1>5

LEMMA OpenStep ==
    ASSUME NEW s, NEW i \in Nat
    PROVE  /\ Open(s, i) \in Int /\ Open(s, 0) = 0
           /\ s[i + 1] = OpenBrace => Open(s, i + 1) = Open(s, i) + 1
           /\ s[i + 1] = CloseBrace => Open(s, i + 1) = Open(s, i) - 1
           /\ s[i + 1] \notin {OpenBrace, CloseBrace} => Open(s, i + 1) = Open(s, i)
  <1>1. \A k : Open(s, k) = Count(s, OpenBrace, k) - Count(s, CloseBrace, k)
    BY DEF Open
  <1>2. \A x : /\ Count(s, x, i) \in Nat /\ Count(s, x, 0) = 0
               /\ Count(s, x, i + 1) = Count(s, x, i) + (IF s[i + 1] = x THEN 1 ELSE 0)
    BY CountStep
  <1>3. Open(s, i) \in Int /\ Open(s, 0) = 0
    BY <1>1, <1>2
  <1> QED
    BY <1>1, <1>2, <1>3, MarksDiffer

\* Words that are left out do not change how many blocks are open.
LEMMA OpenKept ==
    ASSUME NEW s, NEW D, NEW q, Kept(s, D, q), Len(s) \in Nat, NEW z,
           \A i \in 1..Len(s) : IF i \in D THEN IsWord(s[i]) ELSE z[q[i]] = s[i],
           NEW i \in 0..Len(s)
    PROVE  Open(z, q[i]) = Open(s, i)
  <1> DEFINE n == Len(s)
             Same(k) == Open(z, q[k]) = Open(s, k)
             Bad == {k \in 0..n : ~ Same(k)}
  <1>1. /\ n \in Nat /\ i \in 0..n /\ q[0] = 0
        /\ \A k \in 0..n : q[k] \in Nat
        /\ \A k \in 1..n : q[k] = IF k \in D THEN q[k - 1] ELSE q[k - 1] + 1
        /\ \A k \in 1..n : IF k \in D THEN IsWord(s[k]) ELSE z[q[k]] = s[k]
    BY DEF Kept
  <1> HIDE DEF n
  <1>2. Same(0)
    <2>1. Open(z, 0) = 0 /\ Open(s, 0) = 0
      BY OpenStep
    <2> QED
      BY <1>1, <2>1
  <1>3. ASSUME Bad # {} PROVE FALSE
    <2>1. Bad \subseteq Nat
      <3> HIDE DEF Same
      <3> QED
        BY <1>1
    <2>2. \E k \in Bad : \A x \in Bad : k <= x
      <3> HIDE DEF Bad
      <3> QED
        BY <1>3, <2>1, LeastOf, Zenon
    <2>3. PICK k \in Bad : \A x \in Bad : k <= x
      BY <2>2
    <2>4. k \in 0..n /\ ~ Same(k) /\ k # 0
      BY <1>2, <2>3
    <2>5. k \in 1..n /\ k - 1 \in 0..n /\ ~ (k <= k - 1) /\ k - 1 \in Nat /\ (k - 1) + 1 = k
      BY <1>1, <2>4
    <2>6. Same(k - 1)
      <3> HIDE DEF Same
      <3> QED
        BY <2>3, <2>5
    <2>7. /\ Open(s, k - 1) \in Int
          /\ s[k] = OpenBrace => Open(s, k) = Open(s, k - 1) + 1
          /\ s[k] = CloseBrace => Open(s, k) = Open(s, k - 1) - 1
          /\ s[k] \notin {OpenBrace, CloseBrace} => Open(s, k) = Open(s, k - 1)
      <3> DEFINE j == k - 1
      <3>1. j \in Nat /\ j + 1 = k
        BY <2>5
      <3> HIDE DEF j
      <3>2. /\ Open(s, j) \in Int
            /\ s[j + 1] = OpenBrace => Open(s, j + 1) = Open(s, j) + 1
            /\ s[j + 1] = CloseBrace => Open(s, j + 1) = Open(s, j) - 1
            /\ s[j + 1] \notin {OpenBrace, CloseBrace} => Open(s, j + 1) = Open(s, j)
        BY <3>1, OpenStep
      <3> QED
        BY <3>1, <3>2 DEF j
    <2>8. CASE k \in D
      <3>1. q[k] = q[k - 1] /\ IsWord(s[k])
        BY <1>1, <2>5, <2>8
      <3>2. s[k] \notin {OpenBrace, CloseBrace}
        BY <3>1 DEF IsWord, Marks
      <3> QED
        BY <2>4, <2>6, <2>7, <3>1, <3>2
    <2>9. CASE k \notin D
      <3> DEFINE j == q[k - 1]
      <3>1. q[k] = j + 1 /\ z[j + 1] = s[k] /\ j \in Nat
        BY <1>1, <2>5, <2>9
      <3>2. Open(z, j) = Open(s, k - 1)
        BY <2>6
      <3> HIDE DEF j
      <3>3. /\ s[k] = OpenBrace => Open(z, j + 1) = Open(z, j) + 1
            /\ s[k] = CloseBrace => Open(z, j + 1) = Open(z, j) - 1
            /\ s[k] \notin {OpenBrace, CloseBrace} => Open(z, j + 1) = Open(z, j)
        <4>1. /\ z[j + 1] = OpenBrace => Open(z, j + 1) = Open(z, j) + 1
              /\ z[j + 1] = CloseBrace => Open(z, j + 1) = Open(z, j) - 1
              /\ z[j + 1] \notin {OpenBrace, CloseBrace} => Open(z, j + 1) = Open(z, j)
          BY <3>1, OpenStep
        <4> QED
          BY <3>1, <4>1
      <3>4. Open(z, q[k]) = Open(s, k)
        BY <2>7, <3>1, <3>2, <3>3
      <3> QED
        BY <2>4, <3>4
    <2> QED
      BY <2>8, <2>9
  <1> QED
    BY <1>1, <1>3

\* The token before i is the end of an operator or a block, apart from words.
Ends(s, i) ==
    \E j \in 1..i : s[j] \in {Semicolon, CloseBrace} /\ \A k \in (j + 1)..i : IsWord(s[k])

\* parse() gets over token i, if it got to it.
Fits(s, i) ==
    /\ Open(s, i) >= 0
    /\ s[i] \in {OpenBrace, Semicolon} => i > 1 /\ IsWord(s[i - 1])
    /\ s[i] = CloseBrace => Ends(s, i - 1)

\* parse() accepts a text if every token of it fits and no words are left.
Fit(s) ==
    /\ \A i \in 1..Len(s) : Fits(s, i)
    /\ s # <<>> => s[Len(s)] \in {Semicolon, CloseBrace}

\* What is at which place of the repaired text.
Mended(s, q) ==
    LET n == Len(s) z == Repaired(s)
    IN  /\ IsSequence(z)
        /\ Kept(s, Ignored(s), q)
        /\ \A i \in 1..n : i \notin Ignored(s) => z[q[i]] = s[i]
        /\ Len(z) = q[n] + (IF Open(s, n) > 0 THEN Open(s, n) ELSE 0)
        /\ \A i \in (q[n] + 1)..Len(z) : z[i] = CloseBrace

LEMMA RepeatedIs ==
    ASSUME NEW T, NEW x \in T, NEW o \in Int
    PROVE  LET b == [i \in 1..o |-> x]
               l == IF o > 0 THEN o ELSE 0
           IN  b \in Seq(T) /\ Len(b) = l /\ \A i \in 1..l : b[i] = x
  <1>1. CASE o \in Nat
    <2>1. (IF o > 0 THEN o ELSE 0) = o
      BY <1>1
    <2>2. /\ [i \in 1..o |-> x] \in Seq(T) /\ Len([i \in 1..o |-> x]) = o
          /\ \A i \in 1..o : [j \in 1..o |-> x][i] = x
      BY <1>1
    <2> QED
      BY <2>1, <2>2
  <1>2. CASE o \notin Nat
    <2>1. (IF o > 0 THEN o ELSE 0) = 0 /\ 1..o = 1..0
      BY <1>2
    <2>2. [i \in 1..0 |-> x] \in Seq(T) /\ Len([i \in 1..0 |-> x]) = 0
      OBVIOUS
    <2>3. \A i \in 1..0 : FALSE
      OBVIOUS
    <2> QED
      BY <2>1, <2>2, <2>3
  <1> QED
    BY <1>1, <1>2

LEMMA RepairedMends ==
    ASSUME NEW S, NEW s \in Seq(S)
    PROVE  \E q : Mended(s, q)
  <1> DEFINE n == Len(s)
             D == Ignored(s)
             a == Without(s, D)
             o == Open(s, n)
             b == [i \in 1..o |-> CloseBrace]
             T == S \cup {CloseBrace}
             l == IF o > 0 THEN o ELSE 0
  <1>1. n \in Nat /\ o \in Int
    <2>1. n \in Nat
      OBVIOUS
    <2> HIDE DEF n
    <2> QED
      BY <2>1, OpenStep
  <1>2. s \in Seq(T)
    BY SeqMonotonic
  <1>3. a \in Seq(T) /\ \E q : Kept(s, D, q)
    <2> HIDE DEF D, T
    <2> QED
      BY <1>2, WithoutKeeps
  <1>4. PICK q : Kept(s, D, q)
    BY <1>3
  <1>5. Repaired(s) = a \o b
    BY DEF Repaired
  <1> HIDE DEF o, n
  <1>6. b \in Seq(T) /\ Len(b) = l /\ \A i \in 1..l : b[i] = CloseBrace
    <2>1. CloseBrace \in T
      OBVIOUS
    <2> HIDE DEF T
    <2> QED
      BY <1>1, <2>1, RepeatedIs
  <1>7. Len(a) = q[n] /\ \A i \in 1..n : i \notin D => a[q[i]] = s[i]
    BY <1>4 DEF Kept, n
  <1>8. /\ n \in Nat /\ q[n] \in Nat
        /\ \A i \in 1..n : i \notin D => q[i] \in 1..q[n]
    <2>1. q[n] \in Nat
      BY <1>1, <1>4 DEF Kept, n
    <2>2. ASSUME NEW i \in 1..n, i \notin D
          PROVE  q[i] \in 1..q[n]
      <3>1. i \in 0..n /\ n \in i..n /\ i - 1 \in 0..n
        BY <1>1
      <3>2. q[i] \in Nat /\ q[i] <= q[n]
        <4> HIDE DEF D
        <4> QED
          BY <1>1, <1>4, <3>1, KeptInOrder DEF n
      <3>3. q[i] = q[i - 1] + 1 /\ q[i - 1] \in Nat
        <4> HIDE DEF D
        <4> QED
          BY <1>4, <2>2, <3>1 DEF Kept, n
      <3> QED
        BY <2>1, <3>2, <3>3
    <2> QED
      BY <1>1, <2>1, <2>2
  <1> HIDE DEF D, a, b, T
  <1>9. /\ Len(a \o b) = Len(a) + Len(b)
        /\ \A i \in 1..Len(a) : (a \o b)[i] = a[i]
        /\ \A i \in 1..Len(b) : (a \o b)[Len(a) + i] = b[i]
    <2>1. a \in Seq(T) /\ b \in Seq(T)
      BY <1>3, <1>6
    <2> QED
      BY <2>1, JoinAtIn
  <1>10. l \in Nat /\ IsSequence(a \o b)
    <2>1. a \o b \in Seq(T)
      BY <1>3, <1>6, ConcatProperties
    <2>2. l \in Nat
      BY <1>1
    <2>3. IsSequence(a \o b)
      BY <2>1, SequenceIs
    <2> QED
      BY <2>2, <2>3
  <1> HIDE DEF l
  <1>11. \A i \in 1..n : i \notin D => (a \o b)[q[i]] = s[i]
    BY <1>7, <1>8, <1>9
  <1>12. Len(a \o b) = q[n] + l
    BY <1>6, <1>7, <1>9
  <1>13. ASSUME NEW i \in (q[n] + 1)..(q[n] + l)
         PROVE  (a \o b)[i] = CloseBrace
    <2> DEFINE k == i - q[n]
    <2>1. k \in 1..l /\ q[n] + k = i
      BY <1>8, <1>10
    <2> HIDE DEF k
    <2> QED
      BY <1>6, <1>7, <1>9, <2>1
  <1>14. /\ \A i \in 1..n : i \notin D => Repaired(s)[q[i]] = s[i]
         /\ Len(Repaired(s)) = q[n] + l
         /\ \A i \in (q[n] + 1)..Len(Repaired(s)) : Repaired(s)[i] = CloseBrace
    BY <1>5, <1>11, <1>12, <1>13
  <1>15. IsSequence(Repaired(s))
    BY <1>5, <1>10
  <1> QED
    BY <1>4, <1>14, <1>15 DEF Mended, D, n, l, o

\* What is left out are words; marks stay, and so do the words before the
\* marks of operators and blocks that begin.
LEMMA IgnoredAre ==
    ASSUME NEW s, Len(s) \in Nat, NEW i \in 1..Len(s)
    PROVE  /\ i \in Ignored(s) => IsWord(s[i])
           /\ i = Len(s) => i \notin Ignored(s)
           /\ i > 1 /\ s[i] \in {OpenBrace, Semicolon} => i - 1 \notin Ignored(s)
  <1>1. ASSUME i \in Ignored(s)
        PROVE  IsWord(s[i]) /\ i # Len(s)
    <2>1. PICK j \in (i + 1)..Len(s) : \A k \in i..(j - 1) : IsWord(s[k])
      BY <1>1 DEF Ignored
    <2>2. i \in i..(j - 1) /\ i # Len(s)
      BY <2>1
    <2> QED
      BY <2>1, <2>2
  <1>2. ASSUME i > 1, s[i] \in {OpenBrace, Semicolon}, i - 1 \in Ignored(s)
        PROVE  FALSE
    <2> DEFINE h == i - 1
    <2>1. PICK j \in (h + 1)..Len(s) : s[j] = CloseBrace /\ \A k \in h..(j - 1) : IsWord(s[k])
      <3>1. h \in Ignored(s)
        BY <1>2
      <3> HIDE DEF h
      <3> QED
        BY <3>1 DEF Ignored
    <2>2. j # i
      BY <1>2, <2>1, MarksDiffer
    <2>3. i \in h..(j - 1)
      <3>1. h + 1 = i /\ h \in Int
        OBVIOUS
      <3> HIDE DEF h
      <3>2. j \in (h + 1)..Len(s)
        OBVIOUS
      <3> QED
        BY <2>2, <3>1, <3>2
    <2>4. IsWord(s[i])
      BY <2>1, <2>3
    <2> QED
      BY <1>2, <2>4 DEF IsWord, Marks
  <1> QED
    BY <1>1, <1>2

LEMMA MendedPlaces ==
    ASSUME NEW s, Len(s) \in Nat, NEW q, Mended(s, q)
    PROVE  LET n == Len(s) z == Repaired(s)
           IN  /\ q[0] = 0 /\ \A i \in 0..n : q[i] \in Nat /\ q[i] <= i /\ q[i] <= q[n]
               /\ \A i \in 0..n : Open(z, q[i]) = Open(s, i)
               /\ \A i \in 1..n : i \notin Ignored(s) =>
                     z[q[i]] = s[i] /\ q[i] \in 1..q[n] /\ q[i] = q[i - 1] + 1
               /\ \A v \in 1..q[n] : \E i \in 1..n : i \notin Ignored(s) /\ q[i] = v
  <1> DEFINE n == Len(s)
             D == Ignored(s)
             z == Repaired(s)
  <1>1. n \in Nat /\ n \in 0..n /\ 0 \in 0..n
    OBVIOUS
  <1>2. Kept(s, D, q) /\ \A i \in 1..n : i \notin D => z[q[i]] = s[i]
    BY DEF Mended
  <1>3. \A i \in 1..n : i \in D => IsWord(s[i])
    BY <1>1, IgnoredAre
  <1> HIDE DEF D, z
  <1>4. q[0] = 0 /\ \A i \in 0..n : q[i] \in Nat
    BY <1>2 DEF Kept
  <1>5. ASSUME NEW i \in 0..n
        PROVE  q[i] <= i /\ q[i] <= q[n]
    <2>1. q[i] - q[0] <= i - 0
      BY <1>1, <1>2, KeptInOrder
    <2>2. n \in i..n
      BY <1>1
    <2>3. q[i] <= q[n]
      BY <1>1, <1>2, <2>2, KeptInOrder
    <2> QED
      BY <1>1, <1>4, <2>1, <2>3
  <1>6. \A i \in 0..n : Open(z, q[i]) = Open(s, i)
    <2> TAKE i \in 0..n
    <2>1. \A k \in 1..Len(s) : IF k \in D THEN IsWord(s[k]) ELSE z[q[k]] = s[k]
      BY <1>2, <1>3
    <2> QED
      BY <1>1, <1>2, <2>1, OpenKept
  <1>7. ASSUME NEW i \in 1..n, i \notin D
        PROVE  q[i] \in 1..q[n] /\ q[i] = q[i - 1] + 1
    <2>1. i \in 0..n /\ n \in i..n /\ i - 1 \in 0..n
      BY <1>1
    <2>2. q[i] <= q[n]
      BY <1>1, <1>2, <2>1, KeptInOrder
    <2>3. q[i] = q[i - 1] + 1
      BY <1>2, <1>7 DEF Kept
    <2> QED
      BY <1>1, <1>4, <2>1, <2>2, <2>3
  <1>8. ASSUME NEW v \in 1..q[n]
        PROVE  \E i \in 1..n : i \notin D /\ q[i] = v
    <2>1. \E i \in 1..n : /\ i \notin D /\ q[i] = v
                          /\ v = q[n] => \A k \in (i + 1)..n : k \in D
      BY <1>1, <1>2, KeptComesFrom
    <2> QED
      BY <2>1
  <1> QED
    BY <1>2, <1>4, <1>5, <1>6, <1>7, <1>8 DEF D, z

\* A "}" has the end of an operator or a block before it in the repaired text
\* if and only if only words are between the two in the text.
LEMMA MendedEnds ==
    ASSUME NEW s, Len(s) \in Nat, NEW q, Mended(s, q), NEW i \in 0..Len(s)
    PROVE  /\ q[i] >= 1 /\ Repaired(s)[q[i]] \in {Semicolon, CloseBrace} => Ends(s, i)
           /\ i < Len(s) /\ s[i + 1] = CloseBrace /\ Ends(s, i) =>
                 q[i] >= 1 /\ Repaired(s)[q[i]] \in {Semicolon, CloseBrace}
  <1> DEFINE n == Len(s)
             D == Ignored(s)
             z == Repaired(s)
  <1>1. n \in Nat /\ i \in 0..n /\ q[i] \in Nat
    BY MendedPlaces
  <1>2. Kept(s, D, q) /\ \A k \in 1..n : k \notin D => z[q[k]] = s[k]
    BY DEF Mended
  <1>3. \A k \in 1..n : k \in D => IsWord(s[k])
    BY IgnoredAre
  <1>4. ASSUME q[i] >= 1, z[q[i]] \in {Semicolon, CloseBrace}
        PROVE  Ends(s, i)
    <2> DEFINE v == q[i]
    <2>1. v \in 1..q[i]
      BY <1>1, <1>4
    <2> HIDE DEF D, z
    <2>2. \E j \in 1..i : /\ j \notin D /\ q[j] = v
                          /\ v = q[i] => \A k \in (j + 1)..i : k \in D
      <3> HIDE DEF v
      <3> QED
        BY <1>1, <1>2, <2>1, KeptComesFrom
    <2>3. PICK j \in 1..i : j \notin D /\ q[j] = q[i] /\ \A k \in (j + 1)..i : k \in D
      BY <2>2
    <2>4. j \in 1..n /\ \A k \in (j + 1)..i : k \in 1..n
      BY <1>1
    <2>5. s[j] \in {Semicolon, CloseBrace}
      BY <1>2, <1>4, <2>3, <2>4
    <2>6. \A k \in (j + 1)..i : IsWord(s[k])
      BY <1>3, <2>3, <2>4
    <2> QED
      BY <2>5, <2>6 DEF Ends
  <1>5. ASSUME i < n, s[i + 1] = CloseBrace, Ends(s, i)
        PROVE  q[i] >= 1 /\ z[q[i]] \in {Semicolon, CloseBrace}
    <2>1. PICK j \in 1..i : s[j] \in {Semicolon, CloseBrace} /\ \A k \in (j + 1)..i : IsWord(s[k])
      BY <1>5 DEF Ends
    <2>2. j \in 1..n /\ j \in 0..n /\ i \in j..n
      BY <1>1
    <2>3. j \notin D
      BY <1>3, <2>1, <2>2 DEF IsWord, Marks
    <2>4. ASSUME NEW k \in (j + 1)..i
          PROVE  k \in D
      <3>1. k \in 1..n /\ i + 1 \in (k + 1)..n
        BY <1>1, <1>5, <2>2
      <3>2. \A x \in k..((i + 1) - 1) : x \in (j + 1)..i
        BY <1>1, <2>2
      <3>3. \A x \in k..((i + 1) - 1) : IsWord(s[x])
        BY <2>1, <3>2
      <3> QED
        BY <1>5, <3>1, <3>3 DEF Ignored
    <2> HIDE DEF D
    <2>5. q[i] = q[j]
      BY <1>1, <1>2, <2>2, <2>4, KeptInOrder
    <2>6. q[j] = q[j - 1] + 1 /\ j - 1 \in 0..n
      BY <1>1, <1>2, <2>2, <2>3 DEF Kept
    <2>7. q[j - 1] \in Nat
      BY <1>2, <2>6 DEF Kept
    <2>8. z[q[i]] = s[j]
      BY <1>2, <2>2, <2>3, <2>5
    <2> HIDE DEF z
    <2> QED
      BY <2>1, <2>5, <2>6, <2>7, <2>8
  <1> QED
    BY <1>4, <1>5

\* The "}" that are supplied close the blocks that are open.
LEMMA MendedTail ==
    ASSUME NEW s, Len(s) \in Nat, NEW q, Mended(s, q), NEW k \in Nat,
           k <= Open(s, Len(s))
    PROVE  Open(Repaired(s), q[Len(s)] + k) = Open(s, Len(s)) - k
  <1> DEFINE o == Open(s, Len(s))
             m == q[Len(s)]
             z == Repaired(s)
             Closed(x) == Open(z, m + x) = o - x
             Bad == {x \in 0..k : ~ Closed(x)}
  <1>1. m \in Nat /\ o \in Int /\ Open(z, m) = o
    <2>1. Len(s) \in 0..Len(s)
      OBVIOUS
    <2>2. m \in Nat /\ Open(z, m) = o
      BY <2>1, MendedPlaces
    <2> QED
      BY <2>2, OpenStep
  <1>2. \A x \in 1..k : z[m + x] = CloseBrace
    <2>1. Len(z) = m + (IF o > 0 THEN o ELSE 0) /\ \A x \in (m + 1)..Len(z) : z[x] = CloseBrace
      BY DEF Mended
    <2> HIDE DEF m, z, o
    <2>2. \A x \in 1..k : m + x \in (m + 1)..Len(z)
      <3> TAKE x \in 1..k
      <3>1. x <= o /\ o > 0
        BY <1>1 DEF o
      <3> QED
        BY <1>1, <2>1, <3>1
    <2> QED
      BY <2>1, <2>2
  <1>3. k \in Nat
    OBVIOUS
  <1> HIDE DEF o, m, z
  <1>4. Closed(0)
    <2>1. m + 0 = m /\ o - 0 = o
      BY <1>1
    <2> QED
      BY <1>1, <2>1
  <1>5. ASSUME Bad # {} PROVE FALSE
    <2>1. Bad \subseteq Nat
      <3> HIDE DEF Closed
      <3> QED
        BY <1>3
    <2>2. \E x \in Bad : \A y \in Bad : x <= y
      <3> HIDE DEF Bad
      <3> QED
        BY <1>5, <2>1, LeastOf, Zenon
    <2>3. PICK x \in Bad : \A y \in Bad : x <= y
      BY <2>2
    <2>4. x \in 0..k /\ ~ Closed(x) /\ x # 0
      BY <1>4, <2>3
    <2>5. x \in 1..k /\ x - 1 \in 0..k /\ ~ (x <= x - 1)
      BY <1>3, <2>4
    <2>6. Closed(x - 1)
      <3> HIDE DEF Closed
      <3> QED
        BY <2>3, <2>5
    <2> DEFINE j == m + (x - 1)
    <2>7. j \in Nat /\ j + 1 = m + x /\ o - x = o - (x - 1) - 1
      BY <1>1, <2>5
    <2>8. Open(z, j) = o - (x - 1)
      BY <2>6
    <2>9. z[j + 1] = CloseBrace
      BY <1>2, <2>5, <2>7
    <2> HIDE DEF j
    <2>10. Open(z, j + 1) = Open(z, j) - 1
      BY <2>7, <2>9, OpenStep
    <2>11. Closed(x)
      BY <2>7, <2>8, <2>10
    <2> QED
      BY <2>4, <2>11
  <1>6. Closed(k)
    <2> HIDE DEF Closed
    <2> QED
      BY <1>3, <1>5
  <1> QED
    BY <1>6 DEF o, m, z

\* What an operator, a block or a "}" needs before it is before it in the
\* repaired text if and only if it is in the text.
LEMMA MendedFits ==
    ASSUME NEW s, Len(s) \in Nat, NEW q, Mended(s, q), NEW i \in 1..Len(s)
    PROVE  LET z == Repaired(s)
           IN  /\ s[i] \in {OpenBrace, Semicolon} =>
                     (q[i] > 1 /\ IsWord(z[q[i] - 1]) <=> i > 1 /\ IsWord(s[i - 1]))
               /\ s[i] = CloseBrace =>
                     (q[i] > 1 /\ z[q[i] - 1] \in {Semicolon, CloseBrace} <=> Ends(s, i - 1))
  <1> DEFINE n == Len(s)
             D == Ignored(s)
             z == Repaired(s)
             h == i - 1
  <1>1. n \in Nat /\ i \in 1..n /\ i \in 0..n /\ h \in 0..n /\ h < n /\ h + 1 = i
        /\ (i > 1 <=> h \in 1..n) /\ (i > 1 <=> h >= 1)
    OBVIOUS
  <1>2. /\ \A k \in 0..n : q[k] \in Nat /\ q[k] <= k
        /\ \A k \in 1..n : k \notin D =>
              z[q[k]] = s[k] /\ q[k] \in 1..q[n] /\ q[k] = q[k - 1] + 1
    BY MendedPlaces
  <1>3. /\ i \in D => IsWord(s[i])
        /\ i > 1 /\ s[i] \in {OpenBrace, Semicolon} => h \notin D
    BY IgnoredAre
  <1>4. /\ q[h] >= 1 /\ z[q[h]] \in {Semicolon, CloseBrace} => Ends(s, h)
        /\ s[h + 1] = CloseBrace /\ Ends(s, h) =>
              q[h] >= 1 /\ z[q[h]] \in {Semicolon, CloseBrace}
    <2> HIDE DEF h
    <2> QED
      BY <1>1, MendedEnds
  <1>5. s[i] \in Marks => i \notin D
    BY <1>3 DEF IsWord
  <1> HIDE DEF D, z
  <1>6. ASSUME i \notin D
        PROVE  q[i] = q[h] + 1 /\ q[h] \in Nat /\ q[i] - 1 = q[h] /\ (q[i] > 1 <=> q[h] >= 1)
    <2>1. q[i] = q[h] + 1
      BY <1>2, <1>6
    <2>2. q[h] \in Nat
      BY <1>1, <1>2
    <2> QED
      BY <2>1, <2>2
  <1>7. ASSUME s[i] \in {OpenBrace, Semicolon}
        PROVE  q[i] > 1 /\ IsWord(z[q[i] - 1]) <=> i > 1 /\ IsWord(s[i - 1])
    <2>1. i \notin D
      BY <1>5, <1>7 DEF Marks
    <2>2. CASE i > 1
      <3>1. h \notin D /\ h \in 1..n
        BY <1>1, <1>3, <1>7, <2>2
      <3> HIDE DEF h
      <3>2. z[q[h]] = s[h] /\ q[h] \in 1..q[n]
        BY <1>2, <3>1
      <3>3. q[h] >= 1
        BY <3>2
      <3> QED
        BY <1>6, <2>1, <2>2, <3>2, <3>3 DEF h
    <2>3. CASE ~ (i > 1)
      <3>1. h \in 0..n /\ ~ (h >= 1)
        BY <1>1, <2>3
      <3> HIDE DEF h
      <3>2. q[h] \in Nat /\ q[h] <= h /\ h \in Nat
        BY <1>2, <3>1
      <3>3. ~ (q[h] >= 1)
        BY <3>1, <3>2
      <3> QED
        BY <1>6, <2>1, <2>3, <3>3
    <2> QED
      BY <2>2, <2>3
  <1>8. ASSUME s[i] = CloseBrace
        PROVE  q[i] > 1 /\ z[q[i] - 1] \in {Semicolon, CloseBrace} <=> Ends(s, i - 1)
    <2>1. i \notin D
      BY <1>5, <1>8 DEF Marks
    <2>2. q[i] - 1 = q[h] /\ (q[i] > 1 <=> q[h] >= 1)
      BY <1>6, <2>1
    <2>3. q[h] >= 1 /\ z[q[h]] \in {Semicolon, CloseBrace} <=> Ends(s, h)
      <3> HIDE DEF h
      <3> QED
        BY <1>1, <1>4, <1>8
    <2> QED
      BY <2>2, <2>3 DEF h
  <1> QED
    BY <1>7, <1>8 DEF z

\* The last token of a text is kept.
LEMMA MendedLast ==
    ASSUME NEW s, Len(s) \in Nat, NEW q, Mended(s, q), Len(s) # 0
    PROVE  q[Len(s)] >= 1 /\ Repaired(s)[q[Len(s)]] = s[Len(s)]
  <1>1. Len(s) \in 1..Len(s)
    OBVIOUS
  <1>2. Len(s) \notin Ignored(s)
    BY <1>1, IgnoredAre
  <1>3. /\ Repaired(s)[q[Len(s)]] = s[Len(s)]
        /\ q[Len(s)] \in 1..q[Len(s)] /\ q[Len(s)] \in Nat
    <2>1. Len(s) \in 0..Len(s)
      OBVIOUS
    <2> QED
      BY <1>1, <1>2, <2>1, MendedPlaces
  <1> QED
    BY <1>3

LEMMA FitIfRepairable ==
    ASSUME NEW S, NEW s \in Seq(S), WellFormed(Repaired(s))
    PROVE  Fit(s)
  <1> DEFINE n == Len(s)
             z == Repaired(s)
             o == Open(s, n)
  <1>1. PICK q : Mended(s, q)
    BY RepairedMends
  <1> DEFINE m == q[n]
  <1>2. n \in Nat /\ (n # 0 <=> s # <<>>)
    OBVIOUS
  <1>3. /\ q[0] = 0 /\ \A i \in 0..n : q[i] \in Nat /\ q[i] <= m
        /\ \A i \in 0..n : Open(z, q[i]) = Open(s, i)
        /\ \A i \in 1..n : i \notin Ignored(s) => z[q[i]] = s[i] /\ q[i] \in 1..m
    BY <1>1, <1>2, MendedPlaces
  <1>4. /\ Len(z) = m + (IF o > 0 THEN o ELSE 0)
        /\ \A i \in (m + 1)..Len(z) : z[i] = CloseBrace
    BY <1>1 DEF Mended
  <1>5. m \in Nat /\ o \in Int
    <2>1. o \in Int
      <3> HIDE DEF n
      <3> QED
        BY <1>2, OpenStep
    <2>2. n \in 0..n
      BY <1>2
    <2> HIDE DEF n
    <2> QED
      BY <1>3, <2>1, <2>2
  <1>6. \A i \in 1..n : i \in Ignored(s) => IsWord(s[i])
    BY <1>2, IgnoredAre
  <1>7. n # 0 => m >= 1 /\ z[m] = s[n]
    BY <1>1, <1>2, MendedLast
  <1> HIDE DEF o, m
  <1>8. /\ \A i \in 1..Len(z) : Open(z, i) >= 0
        /\ \A i \in 1..Len(z) :
              /\ z[i] \in {OpenBrace, Semicolon} => i > 1 /\ IsWord(z[i - 1])
              /\ z[i] = CloseBrace => i > 1 /\ z[i - 1] \in {Semicolon, CloseBrace}
        /\ z # <<>> => z[Len(z)] \in {Semicolon, CloseBrace}
    BY DEF WellFormed
  <1>9. Len(z) \in Nat /\ m <= Len(z)
    <2> HIDE DEF z
    <2> QED
      BY <1>4, <1>5
  <1> HIDE DEF z
  <1>10. ASSUME NEW i \in 1..n
         PROVE  Fits(s, i)
    <2>1. i \in 0..n /\ q[i] \in Nat /\ q[i] <= m /\ Open(z, q[i]) = Open(s, i)
      BY <1>2, <1>3
    <2>2. Open(s, i) >= 0
      <3>1. CASE q[i] = 0
        <4>1. Open(z, 0) = 0
          BY OpenStep
        <4> QED
          BY <2>1, <3>1, <4>1
      <3>2. CASE q[i] # 0
        <4>1. q[i] \in 1..Len(z)
          BY <1>5, <1>9, <2>1, <3>2
        <4> QED
          BY <1>8, <2>1, <4>1
      <3> QED
        BY <3>1, <3>2
    <2>3. ASSUME s[i] \in Marks
          PROVE  z[q[i]] = s[i] /\ q[i] \in 1..Len(z)
      <3>1. i \notin Ignored(s)
        BY <1>6, <2>3 DEF IsWord
      <3>2. z[q[i]] = s[i] /\ q[i] \in 1..m
        BY <1>3, <3>1
      <3> QED
        BY <1>5, <1>9, <3>2
    <2>4. ASSUME s[i] \in {OpenBrace, Semicolon}
          PROVE  i > 1 /\ IsWord(s[i - 1])
      <3>1. z[q[i]] = s[i] /\ q[i] \in 1..Len(z)
        BY <2>3, <2>4 DEF Marks
      <3>2. q[i] > 1 /\ IsWord(z[q[i] - 1])
        BY <1>8, <2>4, <3>1
      <3> QED
        BY <1>1, <1>2, <2>4, <3>2, MendedFits DEF z
    <2>5. ASSUME s[i] = CloseBrace
          PROVE  Ends(s, i - 1)
      <3>1. z[q[i]] = s[i] /\ q[i] \in 1..Len(z)
        BY <2>3, <2>5 DEF Marks
      <3>2. q[i] > 1 /\ z[q[i] - 1] \in {Semicolon, CloseBrace}
        BY <1>8, <2>5, <3>1
      <3> QED
        BY <1>1, <1>2, <2>5, <3>2, MendedFits DEF z
    <2> QED
      BY <2>2, <2>4, <2>5 DEF Fits
  <1>11. ASSUME s # <<>>
         PROVE  s[n] \in {Semicolon, CloseBrace}
    <2>1. m >= 1 /\ z[m] = s[n]
      BY <1>2, <1>7, <1>11
    <2>2. CASE o > 0
      <3> DEFINE k == m + 1
      <3>1. k \in (m + 1)..Len(z) /\ k \in 1..Len(z) /\ k - 1 = m
        BY <1>4, <1>5, <2>2
      <3> HIDE DEF k
      <3>2. z[k] = CloseBrace
        BY <1>4, <3>1
      <3>3. z[k - 1] \in {Semicolon, CloseBrace}
        BY <1>8, <3>1, <3>2
      <3> QED
        BY <2>1, <3>1, <3>3
    <2>3. CASE ~ (o > 0)
      <3>1. Len(z) = m /\ Len(z) # 0
        BY <1>4, <1>5, <2>1, <2>3
      <3>2. z # <<>>
        <4>1. Len(<<>>) = 0
          OBVIOUS
        <4> QED
          BY <3>1, <4>1
      <3> QED
        BY <1>8, <2>1, <3>1, <3>2
    <2> QED
      BY <2>2, <2>3
  <1> QED
    BY <1>10, <1>11 DEF Fit

LEMMA RepairableIfFit ==
    ASSUME NEW S, NEW s \in Seq(S), Fit(s)
    PROVE  WellFormed(Repaired(s))
  <1> DEFINE n == Len(s)
             z == Repaired(s)
             o == Open(s, n)
  <1>1. PICK q : Mended(s, q)
    BY RepairedMends
  <1> DEFINE m == q[n]
  <1>2. n \in Nat /\ (n # 0 <=> s # <<>>)
    OBVIOUS
  <1>3. /\ q[0] = 0 /\ \A i \in 0..n : q[i] \in Nat
        /\ \A i \in 0..n : Open(z, q[i]) = Open(s, i)
        /\ \A i \in 1..n : i \notin Ignored(s) => z[q[i]] = s[i]
        /\ \A v \in 1..m : \E i \in 1..n : i \notin Ignored(s) /\ q[i] = v
    BY <1>1, <1>2, MendedPlaces
  <1>4. /\ Len(z) = m + (IF o > 0 THEN o ELSE 0)
        /\ \A i \in (m + 1)..Len(z) : z[i] = CloseBrace
    BY <1>1 DEF Mended
  <1>5. /\ \A i \in 1..n : Fits(s, i)
        /\ n # 0 => s[n] \in {Semicolon, CloseBrace}
    BY <1>2 DEF Fit
  <1>6. m \in Nat /\ o \in Nat /\ (n = 0 => m = 0 /\ o = 0)
    <2>1. o \in Int /\ Open(s, 0) = 0
      <3> HIDE DEF n
      <3> QED
        BY <1>2, OpenStep
    <2>2. n \in 0..n /\ (n # 0 => n \in 1..n)
      BY <1>2
    <2>3. n # 0 => o >= 0
      <3> HIDE DEF n
      <3> QED
        BY <1>5, <2>2 DEF Fits
    <2>4. n = 0 => o = 0
      BY <2>1
    <2> HIDE DEF n, o
    <2>5. m \in Nat /\ (n = 0 => m = 0)
      BY <1>3, <2>2
    <2> QED
      BY <2>1, <2>3, <2>4, <2>5
  <1>7. \A k \in 0..o : Open(z, m + k) = o - k
    <2> TAKE k \in 0..o
    <2>1. k \in Nat /\ k <= o
      BY <1>6
    <2> QED
      BY <1>1, <1>2, <2>1, MendedTail
  <1>8. n # 0 => m >= 1 /\ z[m] \in {Semicolon, CloseBrace}
    <2>1. n # 0 => m >= 1 /\ z[m] = s[n]
      BY <1>1, <1>2, MendedLast
    <2> QED
      BY <1>5, <2>1
  <1>9. ASSUME NEW i \in 1..n
        PROVE  /\ s[i] \in {OpenBrace, Semicolon} => q[i] > 1 /\ IsWord(z[q[i] - 1])
               /\ s[i] = CloseBrace => q[i] > 1 /\ z[q[i] - 1] \in {Semicolon, CloseBrace}
    <2>1. Fits(s, i)
      BY <1>5
    <2> QED
      BY <1>1, <1>2, <2>1, MendedFits DEF Fits
  <1> HIDE DEF m, o, z
  <1>10. Len(z) = m + o /\ Len(z) \in Nat
    BY <1>4, <1>6
  <1>11. ASSUME NEW v \in 1..Len(z)
         PROVE  /\ Open(z, v) >= 0
                /\ z[v] \in {OpenBrace, Semicolon} => v > 1 /\ IsWord(z[v - 1])
                /\ z[v] = CloseBrace => v > 1 /\ z[v - 1] \in {Semicolon, CloseBrace}
    <2>1. CASE v <= m
      <3>1. v \in 1..m
        BY <1>6, <1>10, <2>1
      <3>2. PICK i \in 1..n : i \notin Ignored(s) /\ q[i] = v
        BY <1>3, <3>1
      <3>3. i \in 0..n /\ z[v] = s[i]
        BY <1>2, <1>3, <3>2
      <3>4. Open(z, v) = Open(s, i) /\ Open(s, i) >= 0
        BY <1>3, <1>5, <3>2, <3>3 DEF Fits
      <3> QED
        BY <1>9, <3>2, <3>3, <3>4
    <2>2. CASE ~ (v <= m)
      <3> DEFINE k == v - m
      <3>1. v \in (m + 1)..Len(z) /\ k \in 0..o /\ k >= 1 /\ m + k = v /\ o # 0
        BY <1>6, <1>10, <2>2
      <3>2. z[v] = CloseBrace
        BY <1>4, <3>1
      <3>3. Open(z, v) >= 0
        <4> HIDE DEF k
        <4>1. Open(z, m + k) = o - k
          BY <1>7, <3>1
        <4> QED
          BY <1>6, <3>1, <4>1
      <3>4. CASE v = m + 1
        <4>1. v - 1 = m /\ n # 0
          BY <1>6, <3>1, <3>4
        <4>2. v > 1 /\ z[v - 1] \in {Semicolon, CloseBrace}
          BY <1>6, <1>8, <3>4, <4>1
        <4> QED
          BY <3>2, <3>3, <4>2, MarksDiffer
      <3>5. CASE v # m + 1
        <4>1. v > 1 /\ v - 1 \in (m + 1)..Len(z)
          BY <1>6, <1>10, <3>1, <3>5
        <4>2. z[v - 1] = CloseBrace
          BY <1>4, <4>1
        <4> QED
          BY <3>2, <3>3, <4>1, <4>2, MarksDiffer
      <3> QED
        BY <3>4, <3>5
    <2> QED
      BY <2>1, <2>2
  <1>12. Open(z, Len(z)) = 0
    <2>1. o \in 0..o /\ o - o = 0
      BY <1>6
    <2> QED
      BY <1>7, <1>10, <2>1
  <1>13. ASSUME z # <<>>
         PROVE  z[Len(z)] \in {Semicolon, CloseBrace}
    <2>1. CASE o > 0
      <3>1. Len(z) \in (m + 1)..Len(z)
        BY <1>6, <1>10, <2>1
      <3> QED
        BY <1>4, <3>1
    <2>2. CASE ~ (o > 0) /\ n # 0
      <3>1. Len(z) = m
        BY <1>6, <1>10, <2>2
      <3> QED
        BY <1>8, <2>2, <3>1
    <2>3. CASE n = 0
      <3>1. s = <<>> /\ Open(s, 0) = 0
        BY <1>2, <2>3, OpenStep
      <3>2. Repaired(s) = <<>>
        <4>1. Len(z) = 0
          BY <1>6, <1>10, <2>3
        <4>2. \E T : z \in Seq(T)
          BY <1>1 DEF Mended, IsSequence, z
        <4> QED
          BY <4>1, <4>2, EmptySeq DEF z
      <3> QED
        BY <1>13, <3>2 DEF z
    <2> QED
      BY <2>1, <2>2, <2>3
  <1> QED
    BY <1>11, <1>12, <1>13 DEF WellFormed, z

-----------------------------------------------------------------------------
(* What the frames of parse() have to do with the text it has read.         *)

\* How many of the first i tokens of the file are in the text.
PassedOf(i) == Cardinality({j \in 1..i : file[j] # Comment})

Read == Len(file) - Len(tokens)
Passed == PassedOf(Read)

\* parse() got over the tokens of the text it has read.  The current frame
\* has words if one was read last, and nodes if the end of an operator or a
\* block was, apart from words.  Frames are missing only while the activations
\* return at the end of the file.
Reading ==
    /\ \A i \in 1..Passed : Fits(Text, i)
    /\ Depth <= Open(Text, Passed)
    /\ Depth # Open(Text, Passed) => tokens = <<>> /\ Ends(Text, Passed)
    /\ Top.curr_tokens # <<>> <=> Passed > 0 /\ IsWord(Text[Passed])
    /\ DOMAIN Top.nodes # {} <=> Ends(Text, Passed)

TokensLeft ==
    /\ file \in Files
    /\ IsSequence(tokens) /\ Len(tokens) <= Len(file)
    /\ \A i \in 1..Len(tokens) : tokens[i] = file[Read + i]

FramesOk ==
    /\ IsSequence(frames) /\ Len(frames) > 0
    /\ Top = [curr_tokens |-> Top.curr_tokens, nodes |-> Top.nodes]
    /\ IsSequence(Top.curr_tokens)

ConfigInv ==
    /\ TokensLeft /\ FramesOk
    /\ result = "parsing" => Reading
    /\ result # "parsing" => (result = "ok" <=> Fit(Text))

LEMMA PassedStep ==
    ASSUME NEW i \in Nat
    PROVE  /\ PassedOf(i) \in Nat /\ PassedOf(0) = 0
           /\ PassedOf(i + 1) = PassedOf(i) + (IF file[i + 1] = Comment THEN 0 ELSE 1)
  <1> DEFINE words(k) == {j \in 1..k : file[j] # Comment}
             is == [j \in 1..(i + 1) |-> IF file[j] = Comment THEN 0 ELSE 1]
  <1>1. /\ Count(is, 1, i) \in Nat /\ Count(is, 1, 0) = 0
        /\ Count(is, 1, i + 1) = Count(is, 1, i) + (IF is[i + 1] = 1 THEN 1 ELSE 0)
    <2> HIDE DEF is
    <2> QED
      BY CountStep
  <1>2. ASSUME NEW k \in 0..(i + 1)
        PROVE  PassedOf(k) = Count(is, 1, k)
    <2>1. \A j \in 1..k : is[j] = 1 <=> file[j] # Comment
      OBVIOUS
    <2>2. {j \in 1..k : is[j] = 1} = words(k)
      <3> HIDE DEF is
      <3> QED
        BY <2>1
    <2> HIDE DEF is
    <2> QED
      BY <2>2 DEF PassedOf, Count
  <1>3. is[i + 1] = IF file[i + 1] = Comment THEN 0 ELSE 1
    OBVIOUS
  <1>4. i \in 0..(i + 1) /\ i + 1 \in 0..(i + 1) /\ 0 \in 0..(i + 1)
    OBVIOUS
  <1> HIDE DEF is
  <1>5. PassedOf(i) = Count(is, 1, i) /\ PassedOf(i + 1) = Count(is, 1, i + 1)
        /\ PassedOf(0) = Count(is, 1, 0)
    BY <1>2, <1>4
  <1> QED
    BY <1>1, <1>3, <1>5

\* Which token of the text a token of the file is.
LEMMA TextIs ==
    ASSUME file \in Files
    PROVE  /\ Len(file) \in Nat /\ IsSequence(file) /\ IsSequence(Text)
           /\ Len(Text) = PassedOf(Len(file))
           /\ \A i \in 1..Len(file) : file[i] # Comment => Text[PassedOf(i)] = file[i]
           /\ \A i \in 0..Len(file) : PassedOf(i) <= Len(Text)
           /\ \A i \in 1..Len(Text) : Text[i] # Comment
  <1> DEFINE n == Len(file)
             D == {i \in 1..Len(file) : file[i] = Comment}
             S == {file[i] : i \in 1..Len(file)}
  <1>1. file \in Seq(S) /\ n \in Nat
    BY FilesAssumption DEF IsSequence
  <1>2. IsSequence(file)
    BY FilesAssumption
  <1>3. Text = Without(file, D)
    BY DEF Text
  <1> HIDE DEF S
  <1>4. Text \in Seq(S) /\ \E q : Kept(file, D, q)
    <2> HIDE DEF D
    <2> QED
      BY <1>1, <1>3, WithoutKeeps
  <1>5. PICK q : Kept(file, D, q)
    BY <1>4
  <1>6. IsSequence(Text)
    BY <1>4, SequenceIs
  <1>7. \A i \in 1..n : i \in D <=> file[i] = Comment
    OBVIOUS
  <1> HIDE DEF D
  <1>8. /\ q[0] = 0 /\ \A i \in 0..n : q[i] \in Nat
        /\ \A i \in 1..n : q[i] = IF file[i] = Comment THEN q[i - 1] ELSE q[i - 1] + 1
        /\ Len(Text) = q[n]
        /\ \A i \in 1..n : file[i] # Comment => Text[q[i]] = file[i]
    BY <1>3, <1>5, <1>7 DEF Kept
  <1>9. ASSUME NEW x \in 0..n
        PROVE  q[x] = PassedOf(x)
    <2> DEFINE Same(i) == q[i] = PassedOf(i)
               Bad == {i \in 0..n : ~ Same(i)}
    <2> HIDE DEF n
    <2>1. Same(0)
      BY <1>8, PassedStep
    <2>2. ASSUME Bad # {} PROVE FALSE
      <3>1. Bad \subseteq Nat
        <4> HIDE DEF Same
        <4> QED
          BY <1>1
      <3>2. \E i \in Bad : \A j \in Bad : i <= j
        <4> HIDE DEF Bad
        <4> QED
          BY <2>2, <3>1, LeastOf, Zenon
      <3>3. PICK i \in Bad : \A j \in Bad : i <= j
        BY <3>2
      <3>4. i \in 0..n /\ ~ Same(i) /\ i # 0
        BY <2>1, <3>3
      <3>5. i \in 1..n /\ i - 1 \in 0..n /\ ~ (i <= i - 1) /\ i - 1 \in Nat /\ (i - 1) + 1 = i
        BY <1>1, <3>4
      <3>6. Same(i - 1)
        <4> HIDE DEF Same
        <4> QED
          BY <3>3, <3>5
      <3>7. PassedOf(i) = PassedOf(i - 1) + (IF file[i] = Comment THEN 0 ELSE 1)
            /\ PassedOf(i - 1) \in Nat
        <4> DEFINE j == i - 1
        <4>1. j \in Nat /\ j + 1 = i
          BY <3>5
        <4> HIDE DEF j
        <4>2. PassedOf(j + 1) = PassedOf(j) + (IF file[j + 1] = Comment THEN 0 ELSE 1)
              /\ PassedOf(j) \in Nat
          BY <4>1, PassedStep
        <4> QED
          BY <4>1, <4>2 DEF j
      <3>8. Same(i)
        BY <1>8, <3>5, <3>6, <3>7
      <3> QED
        BY <3>4, <3>8
    <2> QED
      BY <2>2
  <1>10. \A i \in 1..n : i \in 0..n
    BY <1>1
  <1>11. n \in 0..n
    BY <1>1
  <1>12. \A i \in 0..n : q[i] <= q[n]
    <2> TAKE i \in 0..n
    <2>1. n \in i..n
      BY <1>1
    <2> QED
      BY <1>1, <1>5, <2>1, KeptInOrder
  <1>13. ASSUME NEW v \in 1..Len(Text)
         PROVE  Text[v] # Comment
    <2>1. v \in 1..q[n]
      BY <1>8
    <2>2. \E i \in 1..n : /\ i \notin D /\ q[i] = v
                          /\ v = q[n] => \A k \in (i + 1)..n : k \in D
      BY <1>1, <1>5, <1>11, <2>1, KeptComesFrom
    <2>3. PICK i \in 1..n : i \notin D /\ q[i] = v
      BY <2>2
    <2> QED
      BY <1>7, <1>8, <2>3
  <1> HIDE DEF n
  <1>14. /\ Len(Text) = PassedOf(n)
         /\ \A i \in 1..n : file[i] # Comment => Text[PassedOf(i)] = file[i]
         /\ \A i \in 0..n : PassedOf(i) <= Len(Text)
    BY <1>8, <1>9, <1>10, <1>11, <1>12
  <1> QED
    BY <1>1, <1>2, <1>6, <1>13, <1>14 DEF n

\* A token of the file is taken: the next one of the text, or a comment.
LEMMA TakesOne ==
    ASSUME TokensLeft, NEW token, Takes(token)
    PROVE  /\ TokensLeft' /\ Text' = Text /\ Passed \in Nat
           /\ token = Comment => Passed' = Passed
           /\ token # Comment => /\ Passed' = Passed + 1 /\ Passed + 1 <= Len(Text)
                                 /\ Text[Passed + 1] = token
           /\ tokens # <<>>
  <1>1. /\ file \in Files /\ tokens # <<>> /\ Head(tokens) = token
        /\ tokens' = Tail(tokens) /\ file' = file
    BY DEF TokensLeft, Takes
  <1>2. IsSequence(tokens) /\ Len(tokens) <= Len(file) /\ Len(file) \in Nat
    BY <1>1, TextIs DEF TokensLeft
  <1>3. PICK S : tokens \in Seq(S)
    BY <1>2 DEF IsSequence
  <1>4. /\ Len(tokens) \in Nat \ {0} /\ Head(tokens) = tokens[1]
        /\ Tail(tokens) \in Seq(S) /\ Len(Tail(tokens)) = Len(tokens) - 1
        /\ \A i \in 1..Len(Tail(tokens)) : Tail(tokens)[i] = tokens[i + 1]
    <2>1. Len(tokens) \in Nat \ {0} /\ Head(tokens) = tokens[1]
      BY <1>1, <1>3, EmptySeq
    <2> QED
      BY <1>1, <1>3, <2>1, HeadTailProperties
  <1>5. IsSequence(Tail(tokens))
    BY <1>4, SequenceIs
  <1>6. Read \in Nat /\ Read' = Read + 1 /\ Read + 1 \in 1..Len(file)
    BY <1>1, <1>2, <1>4 DEF Read
  <1>7. \A i \in 1..Len(tokens) : tokens[i] = file[Read + i]
    BY DEF TokensLeft
  <1>8. token = file[Read + 1]
    BY <1>1, <1>4, <1>7
  <1>9. TokensLeft'
    <2>1. \A i \in 1..Len(tokens') : tokens'[i] = file'[Read' + i]
      <3>1. ASSUME NEW i \in 1..(Len(tokens) - 1)
            PROVE  Tail(tokens)[i] = file[(Read + 1) + i]
        <4>1. i + 1 \in 1..Len(tokens) /\ Read + (i + 1) = (Read + 1) + i
          BY <1>4, <1>6
        <4>2. Tail(tokens)[i] = tokens[i + 1]
          BY <1>4
        <4> QED
          BY <1>7, <4>1, <4>2
      <3> QED
        BY <1>1, <1>4, <1>6, <3>1
    <2>2. Len(tokens') <= Len(file')
      BY <1>1, <1>2, <1>4
    <2> QED
      BY <1>1, <1>5, <2>1, <2>2 DEF TokensLeft
  <1>10. Text' = Text
    BY <1>1 DEF Text
  <1> DEFINE r == Read
  <1>11. Passed' = PassedOf(r + 1)
    BY <1>1, <1>6 DEF Passed, PassedOf
  <1> HIDE DEF r
  <1>12. /\ PassedOf(r) \in Nat
         /\ PassedOf(r + 1) = PassedOf(r) + (IF file[r + 1] = Comment THEN 0 ELSE 1)
    BY <1>6, PassedStep DEF r
  <1>13. Passed = PassedOf(r) /\ r + 1 \in 1..Len(file) /\ r + 1 \in 0..Len(file)
    BY <1>6 DEF Passed, r
  <1>14. /\ PassedOf(r + 1) <= Len(Text)
         /\ file[r + 1] # Comment => Text[PassedOf(r + 1)] = file[r + 1]
    BY <1>1, <1>13, TextIs
  <1>15. token = file[r + 1]
    BY <1>8 DEF r
  <1>16. token = Comment => Passed' = Passed
    BY <1>11, <1>12, <1>13, <1>15
  <1>17. token # Comment => /\ Passed' = Passed + 1 /\ Passed + 1 <= Len(Text)
                            /\ Text[Passed + 1] = token
    BY <1>11, <1>12, <1>13, <1>14, <1>15
  <1> QED
    BY <1>1, <1>9, <1>10, <1>12, <1>13, <1>16, <1>17

LEMMA EndsStep ==
    ASSUME NEW s, NEW p \in Nat
    PROVE  Ends(s, p + 1) <=> \/ s[p + 1] \in {Semicolon, CloseBrace}
                              \/ IsWord(s[p + 1]) /\ Ends(s, p)
  <1>1. ASSUME Ends(s, p + 1), s[p + 1] \notin {Semicolon, CloseBrace}
        PROVE  IsWord(s[p + 1]) /\ Ends(s, p)
    <2>1. PICK j \in 1..(p + 1) :
             s[j] \in {Semicolon, CloseBrace} /\ \A k \in (j + 1)..(p + 1) : IsWord(s[k])
      BY <1>1 DEF Ends
    <2>2. j # p + 1
      BY <1>1, <2>1
    <2>3. /\ j \in 1..p /\ p + 1 \in (j + 1)..(p + 1)
          /\ \A k \in (j + 1)..p : k \in (j + 1)..(p + 1)
      BY <2>2
    <2>4. IsWord(s[p + 1]) /\ \A k \in (j + 1)..p : IsWord(s[k])
      BY <2>1, <2>3
    <2> QED
      BY <2>1, <2>3, <2>4 DEF Ends
  <1>2. ASSUME s[p + 1] \in {Semicolon, CloseBrace}
        PROVE  Ends(s, p + 1)
    <2>1. p + 1 \in 1..(p + 1) /\ \A k \in (p + 1 + 1)..(p + 1) : FALSE
      OBVIOUS
    <2> QED
      BY <1>2, <2>1 DEF Ends
  <1>3. ASSUME IsWord(s[p + 1]), Ends(s, p)
        PROVE  Ends(s, p + 1)
    <2>1. PICK j \in 1..p :
             s[j] \in {Semicolon, CloseBrace} /\ \A k \in (j + 1)..p : IsWord(s[k])
      BY <1>3 DEF Ends
    <2>2. j \in 1..(p + 1) /\ \A k \in (j + 1)..(p + 1) : k \in (j + 1)..p \/ k = p + 1
      OBVIOUS
    <2>3. \A k \in (j + 1)..(p + 1) : IsWord(s[k])
      BY <1>3, <2>1, <2>2
    <2> QED
      BY <2>1, <2>2, <2>3 DEF Ends
  <1> QED
    BY <1>1, <1>2, <1>3

\* The last frame is replaced, or one is added or removed.
LEMMA ReplacesLast ==
    ASSUME NEW f, IsSequence(f), Len(f) > 0, NEW r
    PROVE  LET g == [f EXCEPT ![Len(f)] = r]
           IN  IsSequence(g) /\ Len(g) = Len(f) /\ g[Len(g)] = r
  <1> DEFINE S == {f[i] : i \in 1..Len(f)}
             g == [f EXCEPT ![Len(f)] = r]
             n == Len(f)
  <1>1. f \in Seq(S)
    BY DEF IsSequence
  <1> HIDE DEF S
  <1>2. n \in Nat /\ f \in [1..n -> S] /\ n \in 1..n
    BY <1>1
  <1>3. g \in [1..n -> S \cup {r}] /\ g[n] = r
    BY <1>2
  <1>4. g \in Seq(S \cup {r}) /\ Len(g) = n
    <2> HIDE DEF g, n
    <2> QED
      BY <1>2, <1>3
  <1>5. IsSequence(g)
    <2> HIDE DEF g
    <2> QED
      BY <1>4, SequenceIs
  <1> QED
    BY <1>3, <1>4, <1>5

LEMMA AppendsLast ==
    ASSUME NEW f, IsSequence(f), NEW r
    PROVE  LET g == Append(f, r)
           IN  IsSequence(g) /\ Len(g) = Len(f) + 1 /\ Len(f) \in Nat /\ g[Len(g)] = r
  <1> DEFINE S == {f[i] : i \in 1..Len(f)} \cup {r}
             g == Append(f, r)
  <1>1. f \in Seq(S)
    <2>1. f \in Seq({f[i] : i \in 1..Len(f)})
      BY DEF IsSequence
    <2> QED
      BY <2>1, SeqMonotonic
  <1>2. r \in S
    OBVIOUS
  <1> HIDE DEF S
  <1>3. /\ g \in Seq(S) /\ Len(g) = Len(f) + 1 /\ g[Len(f) + 1] = r
        /\ Len(f) \in Nat
    BY <1>1, <1>2, AppendProperties
  <1> HIDE DEF g
  <1>4. IsSequence(g)
    BY <1>3, SequenceIs
  <1> QED
    BY <1>3, <1>4 DEF g

LEMMA RemovesLast ==
    ASSUME NEW f, IsSequence(f), NEW d \in Nat, Len(f) = d + 1, d > 0, NEW r
    PROVE  LET g == [SubSeq(f, 1, d) EXCEPT ![d] = r]
           IN  IsSequence(g) /\ Len(g) = d /\ g[Len(g)] = r
  <1> DEFINE S == {f[i] : i \in 1..Len(f)}
             h == SubSeq(f, 1, d)
  <1>1. f \in Seq(S)
    BY DEF IsSequence
  <1> HIDE DEF S
  <1>2. \A i \in 1..d : f[i] \in S
    <2>1. \A i \in 1..d : i \in 1..Len(f)
      OBVIOUS
    <2> QED
      BY <1>1, <2>1, ElementOfSeq
  <1>3. h \in Seq(S) /\ Len(h) = d
    BY <1>2, SubSeqProperties
  <1> HIDE DEF h
  <1>4. IsSequence(h)
    BY <1>3, SequenceIs
  <1>5. LET g == [h EXCEPT ![Len(h)] = r]
        IN  IsSequence(g) /\ Len(g) = Len(h) /\ g[Len(g)] = r
    BY <1>3, <1>4, ReplacesLast
  <1> QED
    BY <1>3, <1>5 DEF h

-----------------------------------------------------------------------------

LEMMA ReadsOn ==
    ASSUME TokensLeft, Reading, NEW token, Takes(token), token # Comment,
           Fits(Text, Passed + 1), Depth' = Open(Text, Passed + 1),
           (Top.curr_tokens # <<>>)' <=> IsWord(token),
           (DOMAIN Top.nodes # {})' <=> \/ token \in {Semicolon, CloseBrace}
                                        \/ IsWord(token) /\ DOMAIN Top.nodes # {}
    PROVE  Reading'
  <1>1. /\ Text' = Text /\ Passed \in Nat /\ Passed' = Passed + 1
        /\ Text[Passed + 1] = token
    BY TakesOne
  <1>2. /\ \A i \in 1..Passed : Fits(Text, i)
        /\ DOMAIN Top.nodes # {} <=> Ends(Text, Passed)
    BY DEF Reading
  <1>3. \A i \in 1..(Passed + 1) : Fits(Text, i)
    <2>1. \A i \in 1..(Passed + 1) : i \in 1..Passed \/ i = Passed + 1
      BY <1>1
    <2> QED
      BY <1>2, <2>1
  <1>4. Ends(Text, Passed + 1) <=> \/ token \in {Semicolon, CloseBrace}
                                   \/ IsWord(token) /\ Ends(Text, Passed)
    BY <1>1, EndsStep
  <1>5. (DOMAIN Top.nodes # {})' <=> Ends(Text, Passed + 1)
    BY <1>2, <1>4
  <1>6. Passed + 1 > 0
    BY <1>1
  <1>7. Open(Text, Passed + 1) <= Open(Text, Passed + 1)
    <2>1. Open(Text, Passed + 1) \in Int
      <3> DEFINE p == Passed + 1
      <3>1. p \in Nat
        BY <1>1
      <3> HIDE DEF p
      <3>2. Open(Text, p) \in Int
        BY <3>1, OpenStep
      <3> QED
        BY <3>2 DEF p
    <2> QED
      BY <2>1
  <1> DEFINE p == Passed + 1
  <1>8. /\ \A i \in 1..p : Fits(Text', i)
        /\ Depth' <= Open(Text', p) /\ Depth' = Open(Text', p)
        /\ (Top.curr_tokens # <<>>)' <=> p > 0 /\ IsWord(Text'[p])
        /\ (DOMAIN Top.nodes # {})' <=> Ends(Text', p)
    BY <1>1, <1>3, <1>5, <1>6, <1>7
  <1>9. Passed' = p
    BY <1>1
  <1> HIDE DEF p
  <1> QED
    BY <1>8, <1>9 DEF Reading

\* A token does not fit: then the text does not.
LEMMA DoesNotFit ==
    ASSUME TokensLeft, NEW token, Takes(token), token # Comment, ~ Fits(Text, Passed + 1)
    PROVE  ~ Fit(Text)
  <1>1. Passed \in Nat /\ Passed + 1 <= Len(Text)
    BY TakesOne
  <1>2. IsSequence(Text)
    BY TextIs DEF TokensLeft
  <1>3. Len(Text) \in Nat
    BY <1>2 DEF IsSequence
  <1>4. Passed + 1 \in 1..Len(Text)
    BY <1>1, <1>3
  <1> QED
    BY <1>4 DEF Fit

\* When a token fits, in terms of the current frame.
LEMMA FitsIf ==
    ASSUME ConfigInv, result = "parsing", NEW token, Takes(token), token # Comment
    PROVE  /\ Depth \in Nat /\ Reading /\ TokensLeft
           /\ IsWord(token) => Open(Text, Passed + 1) = Depth /\ Fits(Text, Passed + 1)
           /\ token = OpenBrace =>
                 /\ Open(Text, Passed + 1) = Depth + 1
                 /\ Fits(Text, Passed + 1) <=> Top.curr_tokens # <<>>
           /\ token = Semicolon =>
                 /\ Open(Text, Passed + 1) = Depth
                 /\ Fits(Text, Passed + 1) <=> Top.curr_tokens # <<>>
           /\ token = CloseBrace =>
                 /\ Open(Text, Passed + 1) = Depth - 1
                 /\ Fits(Text, Passed + 1) <=> Depth > 0 /\ DOMAIN Top.nodes # {}
  <1> DEFINE p == Passed
  <1>1. TokensLeft /\ Reading /\ IsSequence(frames) /\ Len(frames) > 0
    BY DEF ConfigInv, FramesOk
  <1>2. p \in Nat /\ Text[p + 1] = token /\ tokens # <<>>
    BY <1>1, TakesOne
  <1>3. Depth = Open(Text, p)
    BY <1>1, <1>2 DEF Reading
  <1>4. Depth \in Nat
    <2>1. Len(frames) \in Nat
      BY <1>1 DEF IsSequence
    <2> QED
      BY <1>1, <2>1 DEF Depth
  <1>5. /\ Top.curr_tokens # <<>> <=> p > 0 /\ IsWord(Text[p])
        /\ DOMAIN Top.nodes # {} <=> Ends(Text, p)
    BY <1>1 DEF Reading
  <1> HIDE DEF p
  <1>6. /\ token = OpenBrace => Open(Text, p + 1) = Open(Text, p) + 1
        /\ token = CloseBrace => Open(Text, p + 1) = Open(Text, p) - 1
        /\ token \notin {OpenBrace, CloseBrace} => Open(Text, p + 1) = Open(Text, p)
    BY <1>2, OpenStep
  <1>7. (p + 1 > 1 <=> p > 0) /\ (p + 1) - 1 = p
    BY <1>2
  <1>8. Fits(Text, p + 1) <=>
           /\ Open(Text, p + 1) >= 0
           /\ token \in {OpenBrace, Semicolon} => Top.curr_tokens # <<>>
           /\ token = CloseBrace => DOMAIN Top.nodes # {}
    BY <1>2, <1>5, <1>7 DEF Fits
  <1>9. IsWord(token) => token \notin {OpenBrace, CloseBrace, Semicolon}
    BY DEF IsWord, Marks
  <1>10. IsWord(token) => Open(Text, p + 1) = Depth /\ Fits(Text, p + 1)
    BY <1>3, <1>4, <1>6, <1>8, <1>9
  <1>11. token = OpenBrace =>
            /\ Open(Text, p + 1) = Depth + 1
            /\ Fits(Text, p + 1) <=> Top.curr_tokens # <<>>
    BY <1>3, <1>4, <1>6, <1>8, MarksDiffer
  <1>12. token = Semicolon =>
            /\ Open(Text, p + 1) = Depth
            /\ Fits(Text, p + 1) <=> Top.curr_tokens # <<>>
    BY <1>3, <1>4, <1>6, <1>8, MarksDiffer
  <1>13. token = CloseBrace =>
            /\ Open(Text, p + 1) = Depth - 1
            /\ Fits(Text, p + 1) <=> Depth > 0 /\ DOMAIN Top.nodes # {}
    <2>1. Depth - 1 >= 0 <=> Depth > 0
      BY <1>4
    <2> QED
      BY <1>3, <1>4, <1>6, <1>8, <2>1, MarksDiffer
  <1> QED
    BY <1>1, <1>4, <1>10, <1>11, <1>12, <1>13 DEF p

\* The frame that is current next.
LEMMA FramesNext ==
    ASSUME NEW words, NEW nodes, IsSequence(frames'), Len(frames') > 0, IsSequence(words),
           frames'[Len(frames')] = [curr_tokens |-> words, nodes |-> nodes]
    PROVE  /\ FramesOk' /\ Top'.curr_tokens = words /\ Top'.nodes = nodes
  <1>1. Top' = [curr_tokens |-> words, nodes |-> nodes]
    BY DEF Top
  <1> QED
    BY <1>1 DEF FramesOk

LEMMA EmptyIsSequence == IsSequence(<<>>) /\ DOMAIN <<>> = {}
  <1>1. IsSequence(<<>>)
    <2>1. <<>> \in Seq({})
      OBVIOUS
    <2> QED
      BY <2>1, SequenceIs, Zenon
  <1>2. DOMAIN <<>> = {}
    <2>1. DOMAIN <<>> = 1..0 /\ 1..0 = {}
      OBVIOUS
    <2> QED
      BY <2>1
  <1> QED
    BY <1>1, <1>2

\* A key gets a node: then there are nodes.
LEMMA AddedHasNodes ==
    ASSUME NEW frame, NEW node
    PROVE  /\ Added(frame, node) = [curr_tokens |-> <<>>, nodes |-> Added(frame, node).nodes]
           /\ DOMAIN Added(frame, node).nodes # {}
  <1>1. ASSUME NEW nodes, NEW key
        PROVE  DOMAIN Insert(nodes, key, node) # {}
    BY DEF Insert
  <1> DEFINE nodes == Insert(frame.nodes, Head(frame.curr_tokens), node)
  <1>2. Added(frame, node) = [curr_tokens |-> <<>>, nodes |-> nodes]
    BY DEF Added
  <1>3. DOMAIN nodes # {}
    BY <1>1
  <1> HIDE DEF nodes
  <1> QED
    BY <1>2, <1>3

LEMMA WordKeepsInv == ASSUME ConfigInv, Word PROVE ConfigInv'
  <1>1. PICK word : /\ word \notin Marks /\ Takes(word)
                    /\ frames' = [frames EXCEPT ![Len(frames)].curr_tokens = Append(@, word)]
                    /\ result' = result
    BY DEF Word
  <1>2. IsWord(word) /\ word # Comment
    BY <1>1 DEF IsWord, Marks
  <1>3. result = "parsing"
    BY <1>1 DEF Takes
  <1>4. Depth \in Nat /\ Reading /\ TokensLeft
        /\ Open(Text, Passed + 1) = Depth /\ Fits(Text, Passed + 1)
    BY <1>1, <1>2, <1>3, FitsIf
  <1>5. FramesOk
    BY DEF ConfigInv
  <1> DEFINE words == Append(Top.curr_tokens, word)
  <1>6. IsSequence(words) /\ words # <<>>
    <2>1. IsSequence(Top.curr_tokens)
      BY <1>5 DEF FramesOk
    <2>2. IsSequence(words) /\ Len(words) = Len(Top.curr_tokens) + 1
          /\ Len(Top.curr_tokens) \in Nat
      BY <2>1, AppendsLast
    <2>3. Len(<<>>) = 0
      OBVIOUS
    <2> HIDE DEF words
    <2> QED
      BY <2>2, <2>3
  <1> DEFINE r == [curr_tokens |-> words, nodes |-> Top.nodes]
  <1>7. frames' = [frames EXCEPT ![Len(frames)] = r]
    <2>1. frames' = [frames EXCEPT ![Len(frames)] =
                        [Top EXCEPT !.curr_tokens = Append(Top.curr_tokens, word)]]
      BY <1>1 DEF Top
    <2>2. [Top EXCEPT !.curr_tokens = Append(Top.curr_tokens, word)] = r
      <3>1. Top = [curr_tokens |-> Top.curr_tokens, nodes |-> Top.nodes]
        BY <1>5 DEF FramesOk
      <3> HIDE DEF words
      <3>2. [Top EXCEPT !.curr_tokens = words] = r
        BY <3>1
      <3> QED
        BY <3>2 DEF words
    <2> QED
      BY <2>1, <2>2
  <1> HIDE DEF r
  <1>8. IsSequence(frames') /\ Len(frames') = Len(frames) /\ frames'[Len(frames')] = r
        /\ Len(frames) > 0
    BY <1>5, <1>7, ReplacesLast DEF FramesOk
  <1> HIDE DEF words
  <1>9. FramesOk' /\ Top'.curr_tokens = words /\ Top'.nodes = Top.nodes
    BY <1>6, <1>8, FramesNext DEF r
  <1>10. Depth' = Depth
    BY <1>8 DEF Depth
  <1>11. word \notin {Semicolon, CloseBrace}
    BY <1>1 DEF Marks
  <1>12. Reading'
    BY <1>1, <1>2, <1>4, <1>6, <1>9, <1>10, <1>11, ReadsOn
  <1>13. TokensLeft'
    BY <1>1, <1>4, TakesOne
  <1> QED
    BY <1>1, <1>3, <1>9, <1>12, <1>13 DEF ConfigInv

LEMMA ThrowKeepsInv ==
    ASSUME ConfigInv, result = "parsing", NEW token, Takes(token), token # Comment,
           ~ Fits(Text, Passed + 1), NEW error, error \notin {"parsing", "ok"}, Throw(error)
    PROVE  ConfigInv'
  <1>1. TokensLeft /\ FramesOk
    BY DEF ConfigInv
  <1>2. TokensLeft' /\ Text' = Text /\ ~ Fit(Text)
    BY <1>1, TakesOne, DoesNotFit
  <1>3. FramesOk'
    <2>1. frames' = frames
      BY DEF Throw
    <2>2. Top' = Top
      BY <2>1 DEF Top
    <2> QED
      BY <1>1, <2>1, <2>2 DEF FramesOk
  <1>4. result' = error
    BY DEF Throw
  <1>5. ~ Fit(Text')
    BY <1>2
  <1> QED
    BY <1>2, <1>3, <1>4, <1>5 DEF ConfigInv

LEMMA OpenBlockKeepsInv == ASSUME ConfigInv, OpenBlock PROVE ConfigInv'
  <1>1. Takes(OpenBrace) /\ result = "parsing" /\ OpenBrace # Comment
    BY MarksDiffer DEF OpenBlock, Takes
  <1>2. /\ Depth \in Nat /\ Reading /\ TokensLeft
        /\ Open(Text, Passed + 1) = Depth + 1
        /\ Fits(Text, Passed + 1) <=> Top.curr_tokens # <<>>
    BY <1>1, FitsIf
  <1>3. FramesOk
    BY DEF ConfigInv
  <1>4. CASE Top.curr_tokens = <<>>
    <2>1. Throw("BLOCK_HAS_NO_KEY")
      BY <1>4 DEF OpenBlock
    <2>2. ~ Fits(Text, Passed + 1)
      BY <1>2, <1>4
    <2> QED
      BY <1>1, <2>1, <2>2, ThrowKeepsInv
  <1>5. CASE Top.curr_tokens # <<>>
    <2>1. frames' = Append(frames, NewFrame) /\ result' = result
      BY <1>5 DEF OpenBlock
    <2>2. /\ IsSequence(frames') /\ Len(frames') = Len(frames) + 1
          /\ Len(frames) \in Nat /\ frames'[Len(frames')] = NewFrame
      BY <1>3, <2>1, AppendsLast DEF FramesOk
    <2>3. NewFrame = [curr_tokens |-> <<>>, nodes |-> Empty] /\ DOMAIN Empty = {}
          /\ IsSequence(<<>>)
      BY EmptyIsSequence DEF NewFrame, Empty
    <2>4. Len(frames') > 0
      BY <2>2
    <2>5. FramesOk' /\ Top'.curr_tokens = <<>> /\ Top'.nodes = Empty
      BY <2>2, <2>3, <2>4, FramesNext
    <2>6. Depth' = Depth + 1
      BY <2>2 DEF Depth
    <2>7. ~ IsWord(OpenBrace) /\ OpenBrace \notin {Semicolon, CloseBrace}
      BY MarksDiffer DEF IsWord, Marks
    <2>8. Reading'
      BY <1>1, <1>2, <1>5, <2>3, <2>5, <2>6, <2>7, ReadsOn
    <2>9. TokensLeft'
      BY <1>1, <1>2, TakesOne
    <2> QED
      BY <1>1, <2>1, <2>5, <2>8, <2>9 DEF ConfigInv
  <1> QED
    BY <1>4, <1>5

\* The current frame has got a node.
LEMMA NodeKeepsInv ==
    ASSUME ConfigInv, result = "parsing", NEW token, Takes(token),
           token \in {Semicolon, CloseBrace}, Fits(Text, Passed + 1),
           Depth' = Open(Text, Passed + 1), FramesOk', UNCHANGED result,
           Top'.curr_tokens = <<>>, DOMAIN Top'.nodes # {}
    PROVE  ConfigInv'
  <1>1. TokensLeft /\ Reading
    BY DEF ConfigInv
  <1>2. token # Comment /\ ~ IsWord(token)
    BY MarksDiffer DEF IsWord, Marks
  <1>3. Reading'
    BY <1>1, <1>2, ReadsOn
  <1>4. TokensLeft'
    BY <1>1, TakesOne
  <1> QED
    BY <1>3, <1>4 DEF ConfigInv

LEMMA EndOperatorKeepsInv == ASSUME ConfigInv, EndOperator PROVE ConfigInv'
  <1>1. Takes(Semicolon) /\ result = "parsing" /\ Semicolon # Comment
    BY MarksDiffer DEF EndOperator, Takes
  <1>2. /\ Depth \in Nat /\ Open(Text, Passed + 1) = Depth
        /\ Fits(Text, Passed + 1) <=> Top.curr_tokens # <<>>
    BY <1>1, FitsIf
  <1>3. FramesOk
    BY DEF ConfigInv
  <1>4. CASE Top.curr_tokens = <<>>
    <2>1. Throw("OPERATOR_IS_EMPTY")
      BY <1>4 DEF EndOperator
    <2>2. ~ Fits(Text, Passed + 1)
      BY <1>2, <1>4
    <2> QED
      BY <1>1, <2>1, <2>2, ThrowKeepsInv
  <1>5. CASE Top.curr_tokens # <<>>
    <2> DEFINE r == Added(Top, Operator(Tail(Top.curr_tokens)))
    <2>1. frames' = [frames EXCEPT ![Len(frames)] = r] /\ result' = result
      BY <1>5 DEF EndOperator
    <2>2. r = [curr_tokens |-> <<>>, nodes |-> r.nodes] /\ DOMAIN r.nodes # {}
      BY AddedHasNodes
    <2> HIDE DEF r
    <2>3. /\ IsSequence(frames') /\ Len(frames') = Len(frames) /\ Len(frames) > 0
          /\ frames'[Len(frames')] = r
      BY <1>3, <2>1, ReplacesLast DEF FramesOk
    <2>4. FramesOk' /\ Top'.curr_tokens = <<>> /\ Top'.nodes = r.nodes
      BY <2>2, <2>3, FramesNext, EmptyIsSequence
    <2>5. Depth' = Depth
      BY <2>3 DEF Depth
    <2> QED
      BY <1>1, <1>2, <1>5, <2>1, <2>2, <2>4, <2>5, NodeKeepsInv
  <1> QED
    BY <1>4, <1>5

\* parse() of a block returns, if it has nodes.
LEMMA ReturnsToCaller ==
    ASSUME FramesOk, Depth \in Nat, Depth > 0, DOMAIN Top.nodes # {}, Return
    PROVE  /\ FramesOk' /\ UNCHANGED result /\ Depth' = Depth - 1
           /\ Top'.curr_tokens = <<>> /\ DOMAIN Top'.nodes # {}
  <1> DEFINE caller == frames[Depth]
             r == Added(caller, Block(Tail(caller.curr_tokens), Top.nodes))
  <1>1. frames' = [SubSeq(frames, 1, Depth) EXCEPT ![Depth] = r] /\ result' = result
    BY DEF Return, Below
  <1>2. r = [curr_tokens |-> <<>>, nodes |-> r.nodes] /\ DOMAIN r.nodes # {}
    BY AddedHasNodes
  <1> HIDE DEF r
  <1>3. IsSequence(frames) /\ Len(frames) = Depth + 1
    <2>1. Len(frames) \in Nat
      BY DEF FramesOk, IsSequence
    <2> QED
      BY <2>1 DEF FramesOk, Depth
  <1> DEFINE d == Depth
  <1>4. frames' = [SubSeq(frames, 1, d) EXCEPT ![d] = r] /\ d \in Nat /\ d > 0
        /\ Len(frames) = d + 1
    BY <1>1, <1>3
  <1> HIDE DEF d
  <1>5. IsSequence(frames') /\ Len(frames') = d /\ frames'[Len(frames')] = r
    BY <1>3, <1>4, RemovesLast
  <1>6. FramesOk' /\ Top'.curr_tokens = <<>> /\ Top'.nodes = r.nodes
    <2>1. Len(frames') > 0
      BY <1>4, <1>5
    <2> QED
      BY <1>2, <1>5, <2>1, FramesNext, EmptyIsSequence
  <1>7. Depth' = d - 1
    BY <1>5 DEF Depth
  <1> QED
    BY <1>1, <1>2, <1>6, <1>7 DEF d

LEMMA CloseBlockKeepsInv == ASSUME ConfigInv, CloseBlock PROVE ConfigInv'
  <1>1. Takes(CloseBrace) /\ result = "parsing" /\ CloseBrace # Comment
    BY MarksDiffer DEF CloseBlock, Takes
  <1>2. /\ Depth \in Nat /\ Open(Text, Passed + 1) = Depth - 1
        /\ Fits(Text, Passed + 1) <=> Depth > 0 /\ DOMAIN Top.nodes # {}
    BY <1>1, FitsIf
  <1>3. FramesOk
    BY DEF ConfigInv
  <1>4. CASE Depth = 0
    <2>1. Throw("EXTRA_BRACKET")
      BY <1>4 DEF CloseBlock
    <2>2. ~ Fits(Text, Passed + 1)
      BY <1>2, <1>4
    <2> QED
      BY <1>1, <2>1, <2>2, ThrowKeepsInv
  <1>5. CASE Depth # 0 /\ DOMAIN Top.nodes = {}
    <2>1. Throw("BLOCK_IS_EMPTY")
      BY <1>5 DEF CloseBlock, Return
    <2>2. ~ Fits(Text, Passed + 1)
      BY <1>2, <1>5
    <2> QED
      BY <1>1, <2>1, <2>2, ThrowKeepsInv
  <1>6. CASE Depth # 0 /\ DOMAIN Top.nodes # {}
    <2>1. Return /\ Depth > 0
      BY <1>2, <1>6 DEF CloseBlock
    <2>2. /\ FramesOk' /\ UNCHANGED result /\ Depth' = Depth - 1
          /\ Top'.curr_tokens = <<>> /\ DOMAIN Top'.nodes # {}
      BY <1>2, <1>3, <1>6, <2>1, ReturnsToCaller
    <2>3. Fits(Text, Passed + 1) /\ Depth' = Open(Text, Passed + 1)
      BY <1>2, <1>6, <2>1, <2>2
    <2> QED
      BY <1>1, <2>2, <2>3, NodeKeepsInv
  <1> QED
    BY <1>4, <1>5, <1>6

\* At the end of the file all of the text is read.
LEMMA AllIsRead ==
    ASSUME ConfigInv, tokens = <<>>
    PROVE  Passed = Len(Text) /\ Len(Text) \in Nat /\ (Len(Text) = 0 <=> Text = <<>>)
  <1>1. file \in Files
    BY DEF ConfigInv, TokensLeft
  <1>2. Len(file) \in Nat /\ IsSequence(Text) /\ Len(Text) = PassedOf(Len(file))
    BY <1>1, TextIs
  <1>3. Read = Len(file)
    <2>1. Len(tokens) = 0
      OBVIOUS
    <2>2. Read = Len(file) - 0
      BY <2>1 DEF Read
    <2> QED
      BY <1>2, <2>2
  <1>4. Passed = Len(Text)
    BY <1>2, <1>3 DEF Passed
  <1>5. Len(Text) \in Nat /\ (Len(Text) = 0 <=> Text = <<>>)
    <2>1. \E S : Text \in Seq(S)
      BY <1>2 DEF IsSequence
    <2> QED
      BY <2>1, EmptySeq
  <1> QED
    BY <1>4, <1>5

\* The last token of a text that is read is a word, or the frame has a node;
\* unless it opens a block.
LEMMA LastOfText ==
    ASSUME ConfigInv, result = "parsing", tokens = <<>>, Text # <<>>
    PROVE  /\ Text[Len(Text)] \in {Semicolon, CloseBrace} => DOMAIN Top.nodes # {}
           /\ IsWord(Text[Len(Text)]) <=> Top.curr_tokens # <<>>
           /\ Text[Len(Text)] = OpenBrace => Depth > 0
           /\ Text[Len(Text)] # Comment
  <1> DEFINE n == Len(Text)
             p == n - 1
  <1>1. Reading /\ TokensLeft
    BY DEF ConfigInv
  <1>2. Passed = n /\ n \in Nat /\ n # 0
    BY AllIsRead
  <1>3. p \in Nat /\ p + 1 = n /\ n \in 1..n /\ n > 0 /\ (p = 0 \/ p \in 1..n)
    BY <1>2
  <1>4. Text[n] # Comment
    <2>1. file \in Files
      BY <1>1 DEF TokensLeft
    <2> QED
      BY <1>3, <2>1, TextIs
  <1>5. /\ \A i \in 1..n : Fits(Text, i)
        /\ Depth # Open(Text, n) => Ends(Text, n)
        /\ Top.curr_tokens # <<>> <=> n > 0 /\ IsWord(Text[n])
        /\ DOMAIN Top.nodes # {} <=> Ends(Text, n)
    <2> HIDE DEF n
    <2> QED
      BY <1>1, <1>2 DEF Reading
  <1> HIDE DEF p, n
  <1>6. Ends(Text, n) <=> \/ Text[n] \in {Semicolon, CloseBrace}
                          \/ IsWord(Text[n]) /\ Ends(Text, p)
    <2>1. Ends(Text, p + 1) <=> \/ Text[p + 1] \in {Semicolon, CloseBrace}
                                \/ IsWord(Text[p + 1]) /\ Ends(Text, p)
      BY <1>3, EndsStep
    <2> QED
      BY <1>3, <2>1
  <1>7. ASSUME Text[n] = OpenBrace
        PROVE  Depth > 0
    <2>1. ~ Ends(Text, n)
      BY <1>6, <1>7, MarksDiffer DEF IsWord, Marks
    <2>2. Open(Text, n) = Open(Text, p) + 1 /\ Open(Text, p) \in Int /\ Open(Text, 0) = 0
      <3>1. Text[p + 1] = OpenBrace
        BY <1>3, <1>7
      <3>2. Open(Text, p + 1) = Open(Text, p) + 1 /\ Open(Text, p) \in Int
            /\ Open(Text, 0) = 0
        BY <1>3, <3>1, OpenStep
      <3> QED
        BY <1>3, <3>2
    <2>3. Open(Text, p) >= 0
      <3>1. CASE p = 0
        BY <2>2, <3>1
      <3>2. CASE p \in 1..n
        BY <1>5, <3>2 DEF Fits
      <3> QED
        BY <1>3, <3>1, <3>2
    <2>4. Depth = Open(Text, n)
      BY <1>5, <2>1
    <2> QED
      BY <2>2, <2>3, <2>4
  <1> QED
    BY <1>3, <1>4, <1>5, <1>6, <1>7 DEF n

LEMMA EndOfTokensKeepsInv == ASSUME ConfigInv, EndOfTokens PROVE ConfigInv'
  <1>1. result = "parsing" /\ tokens = <<>> /\ file' = file /\ tokens' = tokens
    BY DEF EndOfTokens
  <1>2. Reading /\ TokensLeft /\ FramesOk
    BY <1>1 DEF ConfigInv
  <1>3. Text' = Text /\ Passed' = Passed /\ Read' = Read
    BY <1>1 DEF Text, Passed, PassedOf, Read
  <1>4. TokensLeft'
    BY <1>1, <1>2, <1>3 DEF TokensLeft
  <1> DEFINE n == Len(Text)
  <1>5. Passed = n /\ n \in Nat /\ (n = 0 <=> Text = <<>>)
    BY <1>1, AllIsRead
  <1>6. /\ \A i \in 1..n : Fits(Text, i)
        /\ Depth <= Open(Text, n)
        /\ Depth # Open(Text, n) => Ends(Text, n)
        /\ Top.curr_tokens # <<>> <=> n > 0 /\ IsWord(Text[n])
        /\ DOMAIN Top.nodes # {} <=> Ends(Text, n)
    <2> HIDE DEF n
    <2> QED
      BY <1>2, <1>5 DEF Reading
  <1>7. Depth \in Nat
    <2>1. Len(frames) \in Nat /\ Len(frames) > 0
      BY <1>2 DEF FramesOk, IsSequence
    <2> QED
      BY <2>1 DEF Depth
  <1>8. Text # <<>> =>
           /\ Text[n] \in {Semicolon, CloseBrace} => DOMAIN Top.nodes # {}
           /\ IsWord(Text[n]) <=> Top.curr_tokens # <<>>
           /\ Text[n] = OpenBrace => Depth > 0
           /\ Text[n] # Comment
    BY <1>1, LastOfText
  <1>9. Fit(Text) <=> (Text # <<>> => Text[n] \in {Semicolon, CloseBrace})
    BY <1>6 DEF Fit
  <1>10. Open(Text, 0) = 0
    BY OpenStep
  <1> HIDE DEF n
  <1>11. ASSUME NEW error, error \notin {"parsing", "ok"}, Throw(error), ~ Fit(Text)
         PROVE  ConfigInv'
    <2>1. frames' = frames /\ result' = error
      BY <1>11 DEF Throw
    <2>2. Top' = Top
      BY <2>1 DEF Top
    <2>3. FramesOk'
      BY <1>2, <2>1, <2>2 DEF FramesOk
    <2>4. ~ Fit(Text')
      BY <1>3, <1>11
    <2> QED
      BY <1>4, <1>11, <2>1, <2>3, <2>4 DEF ConfigInv
  <1>12. CASE Top.curr_tokens # <<>>
    <2>1. Throw("OPERATOR_NOT_CLOSED")
      BY <1>12 DEF EndOfTokens
    <2>2. n > 0 /\ IsWord(Text[n])
      BY <1>6, <1>12
    <2>3. Text # <<>>
      BY <1>5, <2>2
    <2>4. ~ Fit(Text)
      BY <1>9, <2>2, <2>3 DEF IsWord, Marks
    <2> QED
      BY <1>11, <2>1, <2>4
  <1>13. CASE Top.curr_tokens = <<>> /\ Depth = 0
    <2>1. result' = "ok" /\ frames' = frames
      BY <1>13 DEF EndOfTokens
    <2>2. ASSUME Text # <<>>
          PROVE  Text[n] \in {Semicolon, CloseBrace}
      <3>1. ~ IsWord(Text[n]) /\ Text[n] # OpenBrace /\ Text[n] # Comment
        BY <1>8, <1>13, <2>2
      <3> QED
        BY <3>1 DEF IsWord, Marks
    <2>3. Fit(Text')
      BY <1>3, <1>9, <2>2
    <2>4. Top' = Top
      BY <2>1 DEF Top
    <2>5. FramesOk'
      BY <1>2, <2>1, <2>4 DEF FramesOk
    <2> QED
      BY <1>4, <2>1, <2>3, <2>5 DEF ConfigInv
  <1>14. CASE Top.curr_tokens = <<>> /\ Depth # 0 /\ DOMAIN Top.nodes = {}
    <2>1. Throw("BLOCK_IS_EMPTY")
      BY <1>14 DEF EndOfTokens, Return
    <2>2. Open(Text, n) # 0
      BY <1>6, <1>7, <1>14
    <2>3. Text # <<>>
      BY <1>5, <1>10, <2>2
    <2>4. ~ Fit(Text)
      BY <1>8, <1>9, <1>14, <2>3
    <2> QED
      BY <1>11, <2>1, <2>4
  <1>15. CASE Top.curr_tokens = <<>> /\ Depth # 0 /\ DOMAIN Top.nodes # {}
    <2>1. Return /\ Depth > 0
      BY <1>7, <1>15 DEF EndOfTokens
    <2>2. /\ FramesOk' /\ UNCHANGED result /\ Depth' = Depth - 1
          /\ Top'.curr_tokens = <<>> /\ DOMAIN Top'.nodes # {}
      BY <1>2, <1>7, <1>15, <2>1, ReturnsToCaller
    <2>3. Open(Text, n) \in Int
      BY <1>5, OpenStep
    <2>4. Depth' <= Open(Text, n)
      BY <1>6, <1>7, <2>2, <2>3
    <2>5. Ends(Text, n) /\ ~ (n > 0 /\ IsWord(Text[n]))
      BY <1>6, <1>15
    <2>6. Reading'
      <3>1. /\ \A i \in 1..n : Fits(Text', i)
            /\ Depth' <= Open(Text', n)
            /\ tokens' = <<>> /\ Ends(Text', n)
            /\ ~ (n > 0 /\ IsWord(Text'[n]))
        BY <1>1, <1>3, <1>6, <2>4, <2>5
      <3>2. Passed' = n
        BY <1>3, <1>5
      <3> QED
        BY <2>2, <3>1, <3>2 DEF Reading
    <2> QED
      BY <1>1, <1>4, <2>2, <2>6 DEF ConfigInv
  <1> QED
    BY <1>12, <1>13, <1>14, <1>15

LEMMA SkipCommentKeepsInv == ASSUME ConfigInv, SkipComment PROVE ConfigInv'
  <1>1. Takes(Comment) /\ frames' = frames /\ result' = result /\ result = "parsing"
    BY DEF SkipComment, Takes
  <1>2. Reading /\ TokensLeft /\ FramesOk
    BY <1>1 DEF ConfigInv
  <1>3. TokensLeft' /\ Text' = Text /\ Passed' = Passed /\ tokens # <<>>
    BY <1>1, <1>2, TakesOne
  <1>4. Top' = Top /\ Depth' = Depth
    BY <1>1 DEF Top, Depth
  <1>5. FramesOk'
    BY <1>1, <1>2, <1>4 DEF FramesOk
  <1>6. Reading'
    BY <1>2, <1>3, <1>4 DEF Reading
  <1> QED
    BY <1>1, <1>3, <1>5, <1>6 DEF ConfigInv

LEMMA ConfigInvInit == ConfigInit => ConfigInv
  <1> SUFFICES ASSUME ConfigInit PROVE ConfigInv
    OBVIOUS
  <1>1. file \in Files /\ tokens = file /\ frames = <<NewFrame>> /\ result = "parsing"
    BY DEF ConfigInit, Init
  <1>2. Len(file) \in Nat /\ IsSequence(file)
    BY <1>1, TextIs
  <1>3. Read = 0
    BY <1>1, <1>2 DEF Read
  <1>4. TokensLeft
    <2>1. \A i \in 1..Len(tokens) : 0 + i = i
      BY <1>1, <1>2
    <2> QED
      BY <1>1, <1>2, <1>3, <2>1 DEF TokensLeft
  <1>5. /\ IsSequence(frames) /\ Len(frames) = 1 /\ Top = NewFrame /\ Depth = 0
    <2>1. <<NewFrame>> \in Seq({NewFrame}) /\ Len(<<NewFrame>>) = 1
          /\ <<NewFrame>>[1] = NewFrame
      OBVIOUS
    <2>2. IsSequence(<<NewFrame>>)
      BY <2>1, SequenceIs
    <2> QED
      BY <1>1, <2>1, <2>2 DEF Top, Depth
  <1>6. NewFrame = [curr_tokens |-> <<>>, nodes |-> Empty] /\ DOMAIN Empty = {}
        /\ IsSequence(<<>>)
    BY EmptyIsSequence DEF NewFrame, Empty
  <1>7. Top.curr_tokens = <<>> /\ Top.nodes = Empty
    BY <1>5, <1>6
  <1>8. FramesOk
    BY <1>5, <1>6, <1>7 DEF FramesOk
  <1>9. Passed = 0
    BY <1>3, PassedStep DEF Passed
  <1>10. Open(Text, 0) = 0 /\ ~ Ends(Text, 0)
    BY OpenStep DEF Ends
  <1>11. Reading
    BY <1>5, <1>6, <1>7, <1>9, <1>10 DEF Reading
  <1> QED
    BY <1>1, <1>4, <1>8, <1>11 DEF ConfigInv

LEMMA ConfigInvStep == ConfigInv /\ [Next]_vars => ConfigInv'
  <1> SUFFICES ASSUME ConfigInv, [Next]_vars PROVE ConfigInv'
    OBVIOUS
  <1>1. CASE Parse
    BY <1>1, SkipCommentKeepsInv, WordKeepsInv, OpenBlockKeepsInv, CloseBlockKeepsInv,
       EndOperatorKeepsInv, EndOfTokensKeepsInv DEF Parse
  <1>2. CASE UNCHANGED parser
    <2>1. file' = file /\ tokens' = tokens /\ frames' = frames /\ result' = result
      BY <1>2 DEF parser
    <2>2. Text' = Text /\ Passed' = Passed /\ Read' = Read /\ Top' = Top /\ Depth' = Depth
      BY <2>1 DEF Text, Passed, PassedOf, Read, Top, Depth
    <2>3. TokensLeft' <=> TokensLeft
      BY <2>1, <2>2 DEF TokensLeft
    <2>4. FramesOk' <=> FramesOk
      BY <2>1, <2>2 DEF FramesOk
    <2>5. Reading' <=> Reading
      BY <2>1, <2>2 DEF Reading
    <2>6. Fit(Text)' <=> Fit(Text)
      BY <2>2
    <2> QED
      BY <2>1, <2>3, <2>4, <2>5, <2>6 DEF ConfigInv
  <1>3. Parse \/ UNCHANGED parser
    BY DEF Next, ReadFile, Configure, GetLocation, vars
  <1> QED
    BY <1>1, <1>2, <1>3

\* What parse() has collected agrees with the text it has read, in every file.
THEOREM ConfigInvCorrect == Spec => []ConfigInv
  BY ConfigInvInit, ConfigInvStep, PTL DEF Spec

\* Whatever the file, it is accepted if and only if it is well-formed once
\* missing "}" are supplied and words before a "}" are ignored.
THEOREM AcceptsRepairableCorrect == Spec => []AcceptsRepairable
  <1>1. ConfigInv => AcceptsRepairable
    <2> SUFFICES ASSUME ConfigInv, result # "parsing"
                 PROVE  result = "ok" <=> WellFormed(Repaired(Text))
      BY DEF AcceptsRepairable
    <2>1. result = "ok" <=> Fit(Text)
      BY DEF ConfigInv
    <2>2. PICK S : Text \in Seq(S)
      BY TextIs DEF ConfigInv, TokensLeft, IsSequence
    <2>3. WellFormed(Repaired(Text)) <=> Fit(Text)
      BY <2>2, FitIfRepairable, RepairableIfFit
    <2> QED
      BY <2>1, <2>3
  <1> QED
    BY <1>1, ConfigInvCorrect, PTL
=============================================================================
