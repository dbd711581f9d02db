----------------------------- MODULE StreamProofs -----------------------------
(***************************************************************************)
(* Proofs about the replies of a model: that what is collected as a        *)
(* complete reply is the one the server sent, for any replies and any way  *)
(* the network cuts them, and that the files of a naked reply are the ones *)
(* it was meant to write.                                                  *)
(***************************************************************************)
EXTENDS OutputProofs, NativeStream, HermesStream, AnthropicStream, WholeFileReply

-----------------------------------------------------------------------------
(* What has been selected so far grows place by place.                       *)

UpTo(I, n) == {k \in I : k <= n}

LEMMA OnePlaceMore ==
  ASSUME NEW n \in Nat, NEW I, I \subseteq Nat
  PROVE  /\ n + 1 \in I => UpTo(I, n + 1) = UpTo(I, n) \cup {n + 1}
         /\ n + 1 \notin I => UpTo(I, n + 1) = UpTo(I, n)
         /\ UpTo(I, n) \in SUBSET I
<1>1. \A k \in I : k \in Nat /\ (k <= n + 1 <=> k <= n \/ k = n + 1)
  OBVIOUS
<1> QED  BY <1>1 DEF UpTo

\* A place beyond the others is the last of them.
LEMMA PlacesGrow ==
  ASSUME NEW n \in Nat, NEW I \in SUBSET (1..n)
  PROVE  LET J == I \cup {n + 1}
             c == Cardinality(I)
         IN /\ c \in Nat /\ Cardinality(J) = c + 1
            /\ \A k \in 1..c : Nth(J, k) = Nth(I, k) /\ Nth(I, k) \in I
            /\ Nth(J, c + 1) = n + 1
<1> DEFINE m == n + 1
           J == I \cup {m}
           c == Cardinality(I)
<1>1. Enumerates(I) /\ IsFiniteSet(I) /\ c \in Nat
  BY PlacesAreEnumerated
<1>2. J \in SUBSET (1..m) /\ m \in Nat /\ m \notin I
  OBVIOUS
<1>3. Enumerates(J) /\ IsFiniteSet(J)
  BY <1>2, PlacesAreEnumerated
<1>4. Cardinality(J) = c + 1
  BY <1>1, <1>2, FS_AddElement
<1>5. Rank(J, m) = c + 1
  <2>1. \A j \in J : j <= m
    BY <1>2
  <2> HIDE DEF J, m
  <2>2. {j \in J : j <= m} = J
    BY <2>1
  <2> QED  BY <1>4, <2>2 DEF Rank
<1>6. \A i \in I : Rank(J, i) = Rank(I, i)
  <2> TAKE i \in I
  <2>1. \A j \in J : j <= i <=> j \in I /\ j <= i
    OBVIOUS
  <2>2. {j \in J : j <= i} = {j \in I : j <= i}
    BY <2>1
  <2> QED  BY <2>2 DEF Rank
<1>7. \A k \in 1..c : Nth(J, k) = Nth(I, k) /\ Nth(I, k) \in I
  <2> TAKE k \in 1..c
  <2>1. Nth(I, k) \in I /\ Rank(I, Nth(I, k)) = k
    BY <1>1 DEF Enumerates
  <2>2. Rank(J, Nth(I, k)) = k /\ Nth(I, k) \in J
    BY <1>6, <2>1
  <2> QED  BY <1>3, <2>1, <2>2 DEF Enumerates
<1>8. Nth(J, c + 1) = m
  <2>1. m \in J
    OBVIOUS
  <2> QED  BY <1>3, <1>5, <2>1 DEF Enumerates
<1> QED  BY <1>1, <1>4, <1>7, <1>8

LEMMA SelectedGrows ==
  ASSUME NEW s, NEW n \in Nat, NEW I \in SUBSET (1..n)
  PROVE  /\ Cardinality(I) \in Nat
         /\ Selected(s, I \cup {n + 1}) = Append(Selected(s, I), s[n + 1])
<1> DEFINE m == n + 1
           J == I \cup {m}
           c == Cardinality(I)
           S == {s[i] : i \in J}
           f == Selected(s, I)
           g == Selected(s, J)
<1>1. /\ c \in Nat /\ Cardinality(J) = c + 1
      /\ \A k \in 1..c : Nth(J, k) = Nth(I, k) /\ Nth(I, k) \in I
      /\ Nth(J, c + 1) = m
  BY PlacesGrow
<1>2. f = [k \in 1..c |-> s[Nth(I, k)]] /\ g = [k \in 1..(c + 1) |-> s[Nth(J, k)]]
  BY <1>1 DEF Selected
<1>3. \A k \in 1..c : s[Nth(I, k)] \in S
  BY <1>1
<1>4. s[m] \in S
  OBVIOUS
<1> HIDE DEF f, g, S, J, c, m
<1>5. f \in Seq(S) /\ Len(f) = c
  BY <1>1, <1>2, <1>3
<1>6. Append(f, s[m]) = [k \in 1..(c + 1) |-> IF k <= c THEN f[k] ELSE s[m]]
  <2>1. /\ Append(f, s[m]) \in Seq(S) /\ Len(Append(f, s[m])) = c + 1
        /\ \A k \in 1..c : Append(f, s[m])[k] = f[k]
        /\ Append(f, s[m])[c + 1] = s[m]
    BY <1>1, <1>4, <1>5, AppendProperties
  <2>2. \A k \in 1..(c + 1) : Append(f, s[m])[k] = IF k <= c THEN f[k] ELSE s[m]
    BY <1>1, <2>1
  <2> DEFINE a == Append(f, s[m])
  <2> HIDE DEF a
  <2>3. a = [k \in 1..(c + 1) |-> a[k]]
    BY <1>1, <2>1 DEF a
  <2> QED  BY <2>2, <2>3 DEF a
<1>7. \A k \in 1..(c + 1) : g[k] = IF k <= c THEN f[k] ELSE s[m]
  <2> TAKE k \in 1..(c + 1)
  <2>1. CASE k \in 1..c
    BY <1>1, <1>2, <2>1
  <2>2. CASE k = c + 1
    BY <1>1, <1>2, <2>2
  <2> QED  BY <1>1, <2>1, <2>2
<1>8. g = Append(f, s[m])
  BY <1>2, <1>6, <1>7
<1> QED  BY <1>1, <1>8 DEF f, g, J, m, c

LEMMA SelectedOfNone == \A s : Selected(s, {}) = <<>>
<1>1. Cardinality({}) = 0
  BY FS_EmptySet
<1> QED  BY <1>1 DEF Selected

\* The place with the first rank is the least.
LEMMA LeastIsFirst ==
  ASSUME NEW n \in Nat, NEW I \in SUBSET (1..n), NEW m \in I, \A i \in I : m <= i
  PROVE  Nth(I, 1) = m
<1>1. Enumerates(I)
  BY PlacesAreEnumerated
<1>2. \A i \in I : i <= m <=> i = m
  OBVIOUS
<1>3. {i \in I : i <= m} = {m}
  BY <1>2
<1>4. Rank(I, m) = 1
  BY <1>3, FS_Singleton DEF Rank
<1> QED  BY <1>1, <1>4 DEF Enumerates

\* The selection is a sequence of what is selected.
LEMMA SelectedIsSeq ==
  ASSUME NEW s, NEW n \in Nat, NEW I \in SUBSET (1..n), NEW S, \A i \in I : s[i] \in S
  PROVE  Selected(s, I) \in Seq(S) /\ Len(Selected(s, I)) = Cardinality(I)
<1> DEFINE c == Cardinality(I)
<1>1. Enumerates(I) /\ c \in Nat
  BY PlacesAreEnumerated
<1>2. \A k \in 1..c : s[Nth(I, k)] \in S
  BY <1>1 DEF Enumerates
<1>3. Selected(s, I) = [k \in 1..c |-> s[Nth(I, k)]]
  BY DEF Selected
<1> HIDE DEF c
<1>4. Selected(s, I) \in Seq(S) /\ Len(Selected(s, I)) = c
  BY <1>1, <1>2, <1>3
<1> QED  BY <1>4 DEF c

-----------------------------------------------------------------------------
(* The stream of a server with native tools.  What was gathered is what the  *)
(* events say that were taken so far, so it is the reply once nothing it     *)
(* says is left.                                                             *)

TextPlaces(es) == {k \in DOMAIN es : es[k].kind = "text"}
TextUpTo(es, n) == Selected([k \in DOMAIN es |-> es[k].text], UpTo(TextPlaces(es), n))
ArgsUpTo(es, i, n) ==
  FlattenSeq(Selected([k \in DOMAIN es |-> es[k].args], UpTo(Chunks(es, i), n)))
CallsUpTo(es, n, bufs) ==
  [k \in 1..Len(bufs) |-> [id |-> bufs[k].id, args |-> ArgsUpTo(es, bufs[k].index, n)]]

\* Every call has one buffer, from its first chunk on, under its id.
Buffers(es) == {[index |-> i, id |-> MeantId(es, i)] : i \in Indices(es)}
HasBuffers(es, n, bufs) ==
  /\ bufs \in Seq(Buffers(es))
  /\ \A j, k \in DOMAIN bufs : bufs[j].index = bufs[k].index => j = k
  /\ \A i \in Indices(es) :
       UpTo(Chunks(es, i), n) # {} <=> \E k \in DOMAIN bufs : bufs[k].index = i
IsGathered(g) ==
  g = [text |-> g.text, calls |-> g.calls, finishReason |-> g.finishReason, over |-> g.over]

\* A reply only counts as complete after a finish reason that says so.
EndsAsSaid(es, n, saw, reason) ==
  /\ saw <=> \E k \in 1..n : es[k].kind = "finish"
  /\ reason \in {"stop", "tool_use"} =>
       /\ saw
       /\ \A k \in 1..n : es[k].kind = "finish" => es[k].reason \notin {"length", "content_filter"}

Gathers(n) ==
  /\ HasBuffers(events, n, callBuffers)
  /\ gathered.text = TextUpTo(events, n)
  /\ gathered.calls = CallsUpTo(events, n, callBuffers)
  /\ EndsAsSaid(events, n, sawTerminal, gathered.finishReason)

NativeInv ==
  /\ events \in EventStreams /\ IsGathered(gathered)
  /\ decoded \in Nat /\ received \in Nat /\ decoded <= received /\ received <= 4 * Len(events)
  /\ \E n \in 0..Len(events) :
       /\ decoded = 4 * n \/ (connection = "closed" /\ decoded = received)
       /\ Gathers(n)

LEMMA EventPlaces ==
  ASSUME NEW es \in EventStreams
  PROVE  /\ Len(es) \in Nat /\ DOMAIN es = 1..Len(es)
         /\ TextPlaces(es) \in SUBSET (1..Len(es))
         /\ \A i : Chunks(es, i) \in SUBSET (1..Len(es))
         /\ \A n \in Nat, I \in SUBSET (1..Len(es)) : UpTo(I, n) \in SUBSET (1..n)
<1>1. es \in Seq(Range(es))
  BY NativeAssumption
<1>2. Len(es) \in Nat /\ DOMAIN es = 1..Len(es)
  BY <1>1
<1>3. \A n \in Nat, I \in SUBSET (1..Len(es)) : UpTo(I, n) \in SUBSET (1..n)
  <2> SUFFICES ASSUME NEW n \in Nat, NEW I \in SUBSET (1..Len(es)), NEW k \in UpTo(I, n)
               PROVE  k \in 1..n
    OBVIOUS
  <2>1. k \in 1..Len(es) /\ k <= n
    BY DEF UpTo
  <2> QED  BY <1>2, <2>1
<1> QED  BY <1>2, <1>3 DEF TextPlaces, Chunks

\* What an event adds to the text.
LEMMA TextGrows ==
  ASSUME NEW es \in EventStreams, NEW n \in Nat, n < Len(es)
  PROVE  TextUpTo(es, n + 1) = IF es[n + 1].kind = "text"
                               THEN Append(TextUpTo(es, n), es[n + 1].text) ELSE TextUpTo(es, n)
<1> DEFINE I == TextPlaces(es)
           s == [k \in DOMAIN es |-> es[k].text]
<1>1. /\ Len(es) \in Nat /\ DOMAIN es = 1..Len(es) /\ I \in SUBSET (1..Len(es))
      /\ UpTo(I, n) \in SUBSET (1..n)
  BY EventPlaces
<1>2. n + 1 \in DOMAIN es
  BY <1>1
<1>3. n + 1 \in I <=> es[n + 1].kind = "text"
  BY <1>2 DEF TextPlaces
<1>4. s[n + 1] = es[n + 1].text
  BY <1>2
<1> HIDE DEF I, s
<1>5. /\ n + 1 \in I => UpTo(I, n + 1) = UpTo(I, n) \cup {n + 1}
      /\ n + 1 \notin I => UpTo(I, n + 1) = UpTo(I, n)
  <2>1. I \subseteq Nat
    BY <1>1
  <2> QED  BY <2>1, OnePlaceMore
<1>6. Selected(s, UpTo(I, n) \cup {n + 1}) = Append(Selected(s, UpTo(I, n)), s[n + 1])
  BY <1>1, SelectedGrows
<1> QED  BY <1>3, <1>4, <1>5, <1>6 DEF TextUpTo, I, s

\* What it adds to the arguments of a call.
Lexemes(es) == UNION {Range(es[k].args) : k \in {j \in DOMAIN es : es[j].kind = "call"}}

LEMMA ArgsAreSeqs ==
  ASSUME NEW es \in EventStreams, NEW k \in DOMAIN es, es[k].kind = "call"
  PROVE  es[k].args \in Seq(Lexemes(es))
<1>1. es[k].args \in Seq(Range(es[k].args))
  BY NativeAssumption
<1>2. Range(es[k].args) \subseteq Lexemes(es)
  BY DEF Lexemes
<1> QED  BY <1>1, <1>2, SeqMonotonic

LEMMA ArgsGrow ==
  ASSUME NEW es \in EventStreams, NEW n \in Nat, n < Len(es), NEW i
  PROVE  ArgsUpTo(es, i, n + 1) =
           IF es[n + 1].kind = "call" /\ es[n + 1].index = i
           THEN ArgsUpTo(es, i, n) \o es[n + 1].args ELSE ArgsUpTo(es, i, n)
<1> DEFINE I == Chunks(es, i)
           s == [k \in DOMAIN es |-> es[k].args]
           L == Lexemes(es)
<1>1. /\ Len(es) \in Nat /\ DOMAIN es = 1..Len(es) /\ I \in SUBSET (1..Len(es))
      /\ UpTo(I, n) \in SUBSET (1..n)
  BY EventPlaces
<1>2. n + 1 \in DOMAIN es
  BY <1>1
<1>3. n + 1 \in I <=> es[n + 1].kind = "call" /\ es[n + 1].index = i
  BY <1>2 DEF Chunks
<1>4. s[n + 1] = es[n + 1].args
  BY <1>2
<1>5. \A k \in I : s[k] \in Seq(L)
  BY ArgsAreSeqs DEF Chunks
<1> HIDE DEF I, s, L
<1>6. /\ n + 1 \in I => UpTo(I, n + 1) = UpTo(I, n) \cup {n + 1}
      /\ n + 1 \notin I => UpTo(I, n + 1) = UpTo(I, n)
      /\ UpTo(I, n) \in SUBSET I
  <2>1. I \subseteq Nat
    BY <1>1
  <2> QED  BY <2>1, OnePlaceMore
<1>7. Selected(s, UpTo(I, n) \cup {n + 1}) = Append(Selected(s, UpTo(I, n)), s[n + 1])
  BY <1>1, SelectedGrows
<1>8. Selected(s, UpTo(I, n)) \in Seq(Seq(L))
  <2>1. \A k \in UpTo(I, n) : s[k] \in Seq(L)
    BY <1>5, <1>6
  <2> DEFINE Q == Seq(L)
             J == UpTo(I, n)
  <2> HIDE DEF Q, J
  <2>2. J \in SUBSET (1..n) /\ \A k \in J : s[k] \in Q
    BY <1>1, <2>1 DEF Q, J
  <2>3. Selected(s, J) \in Seq(Q)
    BY <2>2, SelectedIsSeq
  <2> QED  BY <2>3 DEF Q, J
<1>9. CASE n + 1 \in I
  <2> DEFINE ss == Selected(s, UpTo(I, n))
             x == s[n + 1]
  <2>1. x \in Seq(L) /\ ss \in Seq(Seq(L))
    BY <1>5, <1>8, <1>9
  <2> HIDE DEF ss, x
  <2>2. FlattenSeq(Append(ss, x)) = FlattenSeq(ss) \o x
    BY <2>1, FlattenAppends
  <2>3. ArgsUpTo(es, i, n + 1) = FlattenSeq(Append(ss, x)) /\ ArgsUpTo(es, i, n) = FlattenSeq(ss)
    BY <1>6, <1>7, <1>9 DEF ArgsUpTo, ss, x, I, s
  <2> QED  BY <1>3, <1>4, <1>9, <2>2, <2>3 DEF x
<1>10. CASE n + 1 \notin I
  BY <1>3, <1>6, <1>10 DEF ArgsUpTo, I, s
<1> QED  BY <1>9, <1>10

\* No argument of a call came before its first chunk.
LEMMA ArgsOfNone ==
  ASSUME NEW es, NEW i, NEW n, UpTo(Chunks(es, i), n) = {}
  PROVE  ArgsUpTo(es, i, n) = <<>>
<1>1. FlattenSeq(<<>>) = <<>>
  BY DEF FlattenSeq
<1> QED  BY <1>1, SelectedOfNone DEF ArgsUpTo

\* An event that is no chunk of a call leaves the calls as they are.
LEMMA CallsStay ==
  ASSUME NEW es \in EventStreams, NEW n \in Nat, n < Len(es), es[n + 1].kind # "call",
         NEW bufs, HasBuffers(es, n, bufs)
  PROVE  HasBuffers(es, n + 1, bufs) /\ CallsUpTo(es, n + 1, bufs) = CallsUpTo(es, n, bufs)
<1>1. \A i : UpTo(Chunks(es, i), n + 1) = UpTo(Chunks(es, i), n)
  <2> TAKE i
  <2>1. Chunks(es, i) \subseteq Nat /\ n + 1 \notin Chunks(es, i)
    BY EventPlaces DEF Chunks
  <2> QED  BY <2>1, OnePlaceMore
<1>2. \A i : ArgsUpTo(es, i, n + 1) = ArgsUpTo(es, i, n)
  BY ArgsGrow
<1> QED  BY <1>1, <1>2 DEF HasBuffers, CallsUpTo

LEMMA MoreArgs == \A x, y, z : /\ [[id |-> x, args |-> y] EXCEPT !.args = z] = [id |-> x, args |-> z]
                              /\ [id |-> x, args |-> y].id = x /\ [id |-> x, args |-> y].args = y
  OBVIOUS

\* A chunk is of its call alone.
ChangesOnly(es, n, i) ==
  \A j : /\ j = i => UpTo(Chunks(es, j), n + 1) # {}
         /\ j # i => UpTo(Chunks(es, j), n + 1) = UpTo(Chunks(es, j), n)

LEMMA ChunkOfOneCall ==
  ASSUME NEW es \in EventStreams, NEW n \in Nat, n < Len(es), es[n + 1].kind = "call"
  PROVE  /\ n + 1 \in DOMAIN es /\ es[n + 1].index \in Indices(es)
         /\ n + 1 \in Chunks(es, es[n + 1].index)
         /\ \A j : Chunks(es, j) \subseteq Nat
         /\ ChangesOnly(es, n, es[n + 1].index)
<1> DEFINE i == es[n + 1].index
<1>1. n + 1 \in DOMAIN es /\ \A j : Chunks(es, j) \subseteq Nat
  <2>1. n + 1 \in DOMAIN es
    BY EventPlaces
  <2> QED  BY <2>1, EventPlaces DEF Chunks
<1>2. i \in Indices(es) /\ \A j : n + 1 \in Chunks(es, j) <=> j = i
  BY <1>1 DEF Indices, Chunks
<1>3. ASSUME NEW j
      PROVE  /\ j = i => UpTo(Chunks(es, j), n + 1) # {}
             /\ j # i => UpTo(Chunks(es, j), n + 1) = UpTo(Chunks(es, j), n)
  <2> DEFINE C == Chunks(es, j)
  <2>1. C \subseteq Nat /\ (n + 1 \in C <=> j = i)
    BY <1>1, <1>2
  <2> HIDE DEF C, i
  <2>2. /\ n + 1 \in C => UpTo(C, n + 1) = UpTo(C, n) \cup {n + 1}
        /\ n + 1 \notin C => UpTo(C, n + 1) = UpTo(C, n)
    BY <2>1, OnePlaceMore
  <2>3. /\ j = i => UpTo(C, n + 1) # {}
        /\ j # i => UpTo(C, n + 1) = UpTo(C, n)
    BY <2>1, <2>2
  <2> QED  BY <2>3 DEF C
<1> HIDE DEF i
<1>4. ChangesOnly(es, n, i)
  BY <1>3 DEF ChangesOnly
<1> QED  BY <1>1, <1>2, <1>4 DEF i

\* The chunk of a call that has its buffer.
LEMMA CallContinues ==
  ASSUME NEW es \in EventStreams, NEW n \in Nat, n < Len(es), es[n + 1].kind = "call",
         NEW bufs, HasBuffers(es, n, bufs), NEW k \in DOMAIN bufs, bufs[k].index = es[n + 1].index
  PROVE  /\ HasBuffers(es, n + 1, bufs)
         /\ Adds(CallsUpTo(es, n, bufs), bufs[k].id, es[n + 1].args) = CallsUpTo(es, n + 1, bufs)
<1> DEFINE i == es[n + 1].index
           N == Len(bufs)
<1>1. /\ bufs \in Seq(Buffers(es)) /\ N \in Nat /\ DOMAIN bufs = 1..N
      /\ \A j \in 1..N : bufs[j] \in Buffers(es)
  BY DEF HasBuffers
<1>2. /\ n + 1 \in DOMAIN es /\ i \in Indices(es) /\ n + 1 \in Chunks(es, i)
      /\ \A j : Chunks(es, j) \subseteq Nat
  BY ChunkOfOneCall
<1>3. \A j : /\ j = i => UpTo(Chunks(es, j), n + 1) # {}
             /\ j # i => UpTo(Chunks(es, j), n + 1) = UpTo(Chunks(es, j), n)
  <2>1. ChangesOnly(es, n, i)
    BY ChunkOfOneCall
  <2> QED  BY <2>1 DEF ChangesOnly
<1>4. HasBuffers(es, n + 1, bufs)
  <2> HIDE DEF i
  <2>1. \A j \in Indices(es) :
          UpTo(Chunks(es, j), n + 1) # {} <=> \E l \in DOMAIN bufs : bufs[l].index = j
    <3> TAKE j \in Indices(es)
    <3>1. CASE j = i
      BY <1>3, <3>1 DEF i
    <3>2. CASE j # i
      BY <1>3, <3>2 DEF HasBuffers
    <3> QED  BY <3>1, <3>2
  <2> QED  BY <2>1 DEF HasBuffers
<1>5. \A j \in 1..N : bufs[j].id = bufs[k].id <=> j = k
  <2> TAKE j \in 1..N
  <2>1. /\ bufs[j].index \in Indices(es) /\ bufs[j].id = MeantId(es, bufs[j].index)
        /\ bufs[k].index \in Indices(es) /\ bufs[k].id = MeantId(es, bufs[k].index)
    BY <1>1 DEF Buffers
  <2>2. bufs[j].id = bufs[k].id => bufs[j].index = bufs[k].index
    BY <2>1, NativeAssumption
  <2> QED  BY <1>1, <2>2 DEF HasBuffers
<1>6. \A j \in 1..N : ArgsUpTo(es, bufs[j].index, n + 1) =
                        IF j = k THEN ArgsUpTo(es, bufs[j].index, n) \o es[n + 1].args
                        ELSE ArgsUpTo(es, bufs[j].index, n)
  <2> TAKE j \in 1..N
  <2>1. bufs[j].index = i <=> j = k
    BY <1>1 DEF HasBuffers
  <2> QED  BY <2>1, ArgsGrow
<1> DEFINE c == CallsUpTo(es, n, bufs)
           d == Adds(c, bufs[k].id, es[n + 1].args)
           e == CallsUpTo(es, n + 1, bufs)
<1>7. /\ DOMAIN c = 1..N
      /\ \A j \in 1..N : c[j] = [id |-> bufs[j].id, args |-> ArgsUpTo(es, bufs[j].index, n)]
  BY DEF CallsUpTo
<1>8. e = [j \in 1..N |-> [id |-> bufs[j].id, args |-> ArgsUpTo(es, bufs[j].index, n + 1)]]
  BY DEF CallsUpTo
<1>9. d = [j \in 1..N |-> IF c[j].id # bufs[k].id THEN c[j]
                          ELSE [c[j] EXCEPT !.args = c[j].args \o es[n + 1].args]]
  BY <1>7 DEF Adds
<1> HIDE DEF c, d, e, N, i
<1>10. \A j \in 1..N : d[j] = e[j]
  <2> TAKE j \in 1..N
  <2>0. PICK a : a = ArgsUpTo(es, bufs[j].index, n)
    OBVIOUS
  <2>c. /\ c[j] = [id |-> bufs[j].id, args |-> a] /\ c[j].id = bufs[j].id /\ c[j].args = a
        /\ \A z : [c[j] EXCEPT !.args = z] = [id |-> bufs[j].id, args |-> z]
    <3>1. c[j] = [id |-> bufs[j].id, args |-> a]
      BY <1>7, <2>0
    <3> QED  BY <3>1, MoreArgs
  <2>1. CASE j = k
    <3>1. d[j] = [c[j] EXCEPT !.args = c[j].args \o es[n + 1].args]
      BY <1>9, <2>1, <2>c
    <3>2. d[j] = [id |-> bufs[j].id, args |-> a \o es[n + 1].args]
      BY <2>c, <3>1
    <3> QED  BY <1>6, <1>8, <2>0, <2>1, <3>2
  <2>2. CASE j # k
    <3>1. d[j] = c[j]
      BY <1>5, <1>9, <2>2, <2>c
    <3> QED  BY <1>6, <1>7, <1>8, <2>2, <3>1
  <2> QED  BY <2>1, <2>2
<1>11. d = e
  BY <1>8, <1>9, <1>10
<1> QED  BY <1>4, <1>11 DEF d, c, e

\* The first chunk of a call.
FirstChunk(ev, bufs, id, more) ==
  /\ \A k \in DOMAIN bufs : bufs[k].index # ev.index
  /\ id = IF ev.id = NoCallId THEN <<"call", ev.index>> ELSE ev.id
  /\ more = Append(bufs, [index |-> ev.index, id |-> id])

CallBegan(es, n, bufs, id, more) ==
  /\ HasBuffers(es, n + 1, more)
  /\ Adds(StartsCall(CallsUpTo(es, n, bufs), id), id, es[n + 1].args) = CallsUpTo(es, n + 1, more)

LEMMA CallBegins ==
  ASSUME NEW es \in EventStreams, NEW n \in Nat, n < Len(es), es[n + 1].kind = "call",
         NEW bufs, HasBuffers(es, n, bufs), NEW id, NEW more, FirstChunk(es[n + 1], bufs, id, more)
  PROVE  CallBegan(es, n, bufs, id, more)
<1> DEFINE i == es[n + 1].index
           N == Len(bufs)
           b == [index |-> i, id |-> id]
<1>0. /\ \A k \in DOMAIN bufs : bufs[k].index # i
      /\ id = IF es[n + 1].id = NoCallId THEN <<"call", i>> ELSE es[n + 1].id
      /\ more = Append(bufs, b)
  BY DEF FirstChunk
<1>1. /\ bufs \in Seq(Buffers(es)) /\ N \in Nat /\ DOMAIN bufs = 1..N
      /\ \A j \in 1..N : bufs[j] \in Buffers(es)
  BY DEF HasBuffers
<1>2. /\ n + 1 \in DOMAIN es /\ i \in Indices(es) /\ n + 1 \in Chunks(es, i)
      /\ \A j : Chunks(es, j) \subseteq Nat
  BY ChunkOfOneCall
<1>3. \A j : /\ j = i => UpTo(Chunks(es, j), n + 1) # {}
             /\ j # i => UpTo(Chunks(es, j), n + 1) = UpTo(Chunks(es, j), n)
  <2>1. ChangesOnly(es, n, i)
    BY ChunkOfOneCall
  <2> QED  BY <2>1 DEF ChangesOnly
<1>4. UpTo(Chunks(es, i), n) = {}
  BY <1>0, <1>2 DEF HasBuffers
<1>5. id = MeantId(es, i)
  <2>1. \A j \in Chunks(es, i) : j \in Nat /\ ~(j <= n)
    BY <1>2, <1>4 DEF UpTo
  <2>2. \A j \in Chunks(es, i) : n + 1 <= j
    BY <2>1
  <2>3. Nth(Chunks(es, i), 1) = n + 1
    <3> DEFINE C == Chunks(es, i)
               m == n + 1
    <3>1. C \in SUBSET (1..Len(es)) /\ Len(es) \in Nat /\ m \in C /\ \A j \in C : m <= j
      BY <1>2, <2>2, EventPlaces
    <3> HIDE DEF C, m
    <3>2. Nth(C, 1) = m
      BY <3>1, LeastIsFirst
    <3> QED  BY <3>2 DEF C, m
  <2> QED  BY <1>0, <2>3 DEF MeantId
<1>6. b \in Buffers(es)
  BY <1>2, <1>5 DEF Buffers
<1>7. /\ more \in Seq(Buffers(es)) /\ Len(more) = N + 1 /\ DOMAIN more = 1..(N + 1)
      /\ (\A j \in 1..N : more[j] = bufs[j]) /\ more[N + 1] = b
  <2> DEFINE B == Buffers(es)
  <2> HIDE DEF B, b, N
  <2>1. /\ Append(bufs, b) \in Seq(B) /\ Len(Append(bufs, b)) = Len(bufs) + 1
        /\ \A j \in 1..Len(bufs) : Append(bufs, b)[j] = bufs[j]
        /\ Append(bufs, b)[Len(bufs) + 1] = b
    BY <1>1, <1>6, AppendProperties DEF B
  <2>2. more = Append(bufs, b)
    BY <1>0 DEF b
  <2> QED  BY <1>1, <2>1, <2>2 DEF B, N
<1> HIDE DEF N, i
<1>8. \A j \in 1..N : bufs[j].index # i
  BY <1>0, <1>1
<1>9. HasBuffers(es, n + 1, more)
  <2>1. \A j, k \in DOMAIN more : more[j].index = more[k].index => j = k
    <3> SUFFICES ASSUME NEW j \in 1..(N + 1), NEW k \in 1..(N + 1), more[j].index = more[k].index
                 PROVE  j = k
      BY <1>7
    <3>0. N \in Nat /\ b.index = i
      BY <1>1
    <3>1. CASE j \in 1..N /\ k \in 1..N
      <4>1. \A a, c \in DOMAIN bufs : bufs[a].index = bufs[c].index => a = c
        BY DEF HasBuffers
      <4>2. bufs[j].index = bufs[k].index
        BY <1>7, <3>1
      <4> QED  BY <1>1, <3>1, <4>1, <4>2
    <3>2. CASE j = N + 1 /\ k \in 1..N
      BY <1>7, <1>8, <3>0, <3>2
    <3>3. CASE j \in 1..N /\ k = N + 1
      BY <1>7, <1>8, <3>0, <3>3
    <3> QED  BY <3>0, <3>1, <3>2, <3>3
  <2>2. \A j \in Indices(es) :
          UpTo(Chunks(es, j), n + 1) # {} <=> \E l \in DOMAIN more : more[l].index = j
    <3> TAKE j \in Indices(es)
    <3>0. N + 1 \in DOMAIN more /\ more[N + 1].index = i /\ \A l \in 1..N : l \in DOMAIN more
      BY <1>1, <1>7
    <3>1. CASE j = i
      BY <1>3, <3>0, <3>1
    <3>2. CASE j # i
      <4>1. \A l \in DOMAIN more : l \in 1..N \/ l = N + 1
        BY <1>1, <1>7
      <4>2. (\E l \in DOMAIN more : more[l].index = j) <=> (\E l \in DOMAIN bufs : bufs[l].index = j)
        BY <1>1, <1>7, <3>0, <3>2, <4>1
      <4> QED  BY <1>3, <3>2, <4>2 DEF HasBuffers
    <3> QED  BY <3>1, <3>2
  <2> QED  BY <1>7, <2>1, <2>2 DEF HasBuffers
<1>10. \A j \in 1..N : bufs[j].id # id
  <2> TAKE j \in 1..N
  <2>1. bufs[j].index \in Indices(es) /\ bufs[j].id = MeantId(es, bufs[j].index)
    BY <1>1 DEF Buffers
  <2> QED  BY <1>2, <1>5, <1>8, <2>1, NativeAssumption
<1> DEFINE c == CallsUpTo(es, n, bufs)
           new == [id |-> id, args |-> <<>>]
           d == Append(c, new)
           e == CallsUpTo(es, n + 1, more)
           f == Adds(d, id, es[n + 1].args)
<1>11. c = [j \in 1..N |-> [id |-> bufs[j].id, args |-> ArgsUpTo(es, bufs[j].index, n)]]
  BY DEF CallsUpTo, N
<1>12. StartsCall(c, id) = d
  <2>1. \A k \in DOMAIN c : c[k].id = bufs[k].id /\ k \in 1..N
    BY <1>11, MoreArgs
  <2>2. ~ \E k \in DOMAIN c : c[k].id = id
    BY <1>10, <2>1
  <2> QED  BY <2>2 DEF StartsCall
<1>13. /\ DOMAIN d = 1..(N + 1) /\ (\A j \in 1..N : d[j] = c[j]) /\ d[N + 1] = new
  <2> DEFINE S == Range(c) \cup {new}
  <2>1. \A j \in 1..N : c[j] \in S
    BY <1>11 DEF Range
  <2> HIDE DEF S, c, new, d
  <2>2. c \in Seq(S) /\ Len(c) = N
    BY <1>1, <1>11, <2>1
  <2>3. new \in S
    BY DEF S
  <2>4. /\ Append(c, new) \in Seq(S) /\ Len(Append(c, new)) = Len(c) + 1
        /\ \A j \in 1..Len(c) : Append(c, new)[j] = c[j]
        /\ Append(c, new)[Len(c) + 1] = new
    BY <2>2, <2>3, AppendProperties
  <2> QED  BY <2>2, <2>4 DEF d
<1>14. e = [j \in 1..(N + 1) |-> [id |-> more[j].id, args |-> ArgsUpTo(es, more[j].index, n + 1)]]
  BY <1>7 DEF CallsUpTo
<1>15. f = [j \in 1..(N + 1) |-> IF d[j].id # id THEN d[j]
                                 ELSE [d[j] EXCEPT !.args = d[j].args \o es[n + 1].args]]
  BY <1>13 DEF Adds
<1>16. \A j : ArgsUpTo(es, j, n + 1) = IF j = i THEN ArgsUpTo(es, i, n) \o es[n + 1].args
                                      ELSE ArgsUpTo(es, j, n)
  BY ArgsGrow DEF i
<1>17. ArgsUpTo(es, i, n) = <<>> /\ <<>> \o es[n + 1].args = es[n + 1].args
  <2>1. es[n + 1].args \in Seq(Lexemes(es))
    BY <1>2, ArgsAreSeqs
  <2> QED  BY <1>4, <2>1, ArgsOfNone
<1> HIDE DEF c, d, e, f
<1>18. \A j \in 1..(N + 1) : f[j] = e[j]
  <2> TAKE j \in 1..(N + 1)
  <2>1. CASE j \in 1..N
    <3>1. d[j] = [id |-> bufs[j].id, args |-> ArgsUpTo(es, bufs[j].index, n)]
      BY <1>11, <1>13, <2>1
    <3>0. d[j].id = bufs[j].id
      BY <3>1, MoreArgs
    <3>2. f[j] = d[j]
      BY <1>10, <1>15, <2>1, <3>0
    <3> QED  BY <1>7, <1>8, <1>14, <1>16, <2>1, <3>1, <3>2
  <2>2. CASE j = N + 1
    <3>1. d[j] = new
      BY <1>13, <2>2
    <3>0. /\ d[j].id = id /\ d[j].args = <<>>
          /\ \A z : [d[j] EXCEPT !.args = z] = [id |-> id, args |-> z]
      BY <3>1, MoreArgs
    <3>2. f[j] = [d[j] EXCEPT !.args = d[j].args \o es[n + 1].args]
      BY <1>15, <2>2, <3>0
    <3>3. f[j] = [id |-> id, args |-> es[n + 1].args]
      BY <1>17, <3>0, <3>2
    <3>4. e[j] = [id |-> id, args |-> ArgsUpTo(es, i, n + 1)]
      <4>1. more[j] = b /\ b.index = i /\ b.id = id
        BY <1>7, <2>2
      <4> QED  BY <1>14, <2>2, <4>1
    <3> QED  BY <1>16, <1>17, <3>3, <3>4
  <2> QED  BY <1>1, <2>1, <2>2
<1>19. f = e
  <2>1. f = [j \in 1..(N + 1) |-> f[j]]
    BY <1>15
  <2>2. e = [j \in 1..(N + 1) |-> e[j]]
    BY <1>14
  <2> QED  BY <1>18, <2>1, <2>2
<1> QED  BY <1>9, <1>12, <1>19 DEF CallBegan, c, d, e, f

\* What an event says of the end of the reply.
LEMMA EndsLater ==
  ASSUME NEW es \in EventStreams, NEW n \in Nat, n < Len(es), NEW saw, NEW reason,
         EndsAsSaid(es, n, saw, reason)
  PROVE  /\ es[n + 1].kind # "finish" => EndsAsSaid(es, n + 1, saw, reason)
         /\ es[n + 1].kind = "finish" =>
              EndsAsSaid(es, n + 1, TRUE, MapsFinishReason(es[n + 1].reason))
<1>1. /\ \A k \in 1..(n + 1) : k \in 1..n \/ k = n + 1
      /\ \A k \in 1..n : k \in 1..(n + 1) /\ k < n + 1
      /\ n + 1 \in 1..(n + 1)
  OBVIOUS
<1>2. ASSUME es[n + 1].kind # "finish"
      PROVE  EndsAsSaid(es, n + 1, saw, reason)
  <2>1. \A k \in 1..(n + 1) : es[k].kind = "finish" => k \in 1..n
    BY <1>1, <1>2
  <2>2. (\E k \in 1..(n + 1) : es[k].kind = "finish") <=> (\E k \in 1..n : es[k].kind = "finish")
    BY <1>1, <2>1
  <2> QED  BY <2>1, <2>2 DEF EndsAsSaid
<1>3. ASSUME es[n + 1].kind = "finish"
      PROVE  EndsAsSaid(es, n + 1, TRUE, MapsFinishReason(es[n + 1].reason))
  <2>1. \A k \in 1..n : es[k].kind # "finish"
    <3> SUFFICES ASSUME NEW k \in 1..n, es[k].kind = "finish" PROVE FALSE
      OBVIOUS
    <3>1. k \in DOMAIN es /\ n + 1 \in DOMAIN es
      BY EventPlaces
    <3> QED  BY <1>1, <1>3, <3>1, NativeAssumption
  <2>2. MapsFinishReason(es[n + 1].reason) \in {"stop", "tool_use"} =>
          es[n + 1].reason \notin {"length", "content_filter"}
    BY DEF MapsFinishReason
  <2> QED  BY <1>1, <1>3, <2>1, <2>2 DEF EndsAsSaid
<1> QED  BY <1>2, <1>3

LEMMA EndsInAnError ==
  ASSUME NEW es, NEW n, NEW saw, NEW reason, EndsAsSaid(es, n, saw, reason)
  PROVE  /\ EndsAsSaid(es, n, saw, "error") /\ EndsAsSaid(es, n, saw, "thrown")
         /\ EndsAsSaid(es, n, saw, IF saw THEN reason ELSE "error")
BY DEF EndsAsSaid

LEMMA GatheredChanges ==
  ASSUME NEW g, IsGathered(g), NEW x, NEW y
  PROVE  /\ [g EXCEPT !.text = x]
              = [text |-> x, calls |-> g.calls, finishReason |-> g.finishReason, over |-> g.over]
         /\ [g EXCEPT !.calls = x]
              = [text |-> g.text, calls |-> x, finishReason |-> g.finishReason, over |-> g.over]
         /\ [g EXCEPT !.finishReason = x]
              = [text |-> g.text, calls |-> g.calls, finishReason |-> x, over |-> g.over]
         /\ [g EXCEPT !.finishReason = x, !.over = y]
              = [text |-> g.text, calls |-> g.calls, finishReason |-> x, over |-> y]
         /\ [g EXCEPT !.over = y, !.finishReason = x]
              = [text |-> g.text, calls |-> g.calls, finishReason |-> x, over |-> y]
<1> DEFINE R(a, b, c, d) == [text |-> a, calls |-> b, finishReason |-> c, over |-> d]
<1>1. \A a, b, c, d : /\ [R(a, b, c, d) EXCEPT !.text = x] = R(x, b, c, d)
                      /\ [R(a, b, c, d) EXCEPT !.calls = x] = R(a, x, c, d)
                      /\ [R(a, b, c, d) EXCEPT !.finishReason = x] = R(a, b, x, d)
                      /\ [R(a, b, c, d) EXCEPT !.over = y] = R(a, b, c, y)
  OBVIOUS
<1>2. /\ [g EXCEPT !.finishReason = x, !.over = y] = [[g EXCEPT !.finishReason = x] EXCEPT !.over = y]
      /\ [g EXCEPT !.over = y, !.finishReason = x] = [[g EXCEPT !.over = y] EXCEPT !.finishReason = x]
  OBVIOUS
<1>3. g = R(g.text, g.calls, g.finishReason, g.over)
  BY DEF IsGathered
<1> HIDE DEF R
<1>5. /\ [g EXCEPT !.text = x] = R(x, g.calls, g.finishReason, g.over)
      /\ [g EXCEPT !.calls = x] = R(g.text, x, g.finishReason, g.over)
      /\ [g EXCEPT !.finishReason = x] = R(g.text, g.calls, x, g.over)
      /\ [g EXCEPT !.over = y] = R(g.text, g.calls, g.finishReason, y)
  BY <1>1, <1>3
<1>6. /\ [g EXCEPT !.finishReason = x, !.over = y] = R(g.text, g.calls, x, y)
      /\ [g EXCEPT !.over = y, !.finishReason = x] = R(g.text, g.calls, x, y)
  <2>1. /\ [R(g.text, g.calls, x, g.over) EXCEPT !.over = y] = R(g.text, g.calls, x, y)
        /\ [R(g.text, g.calls, g.finishReason, y) EXCEPT !.finishReason = x] = R(g.text, g.calls, x, y)
    BY <1>1
  <2> QED  BY <1>2, <1>5, <2>1
<1> QED  BY <1>5, <1>6 DEF R

LEMMA NativeInvInit == NativeInit => NativeInv
<1> SUFFICES ASSUME NativeInit PROVE NativeInv
  OBVIOUS
<1>1. /\ events \in EventStreams /\ received = 0 /\ decoded = 0 /\ callBuffers = <<>> /\ sawTerminal = FALSE
      /\ gathered = [text |-> <<>>, calls |-> <<>>, finishReason |-> "none", over |-> FALSE]
  BY DEF NativeInit
<1>2. Len(events) \in Nat /\ TextPlaces(events) \subseteq Nat
      /\ \A i : Chunks(events, i) \subseteq Nat /\ UpTo(Chunks(events, i), 0) = {}
  <2>1. \A I \in SUBSET (1..Len(events)) : UpTo(I, 0) = {}
    BY <1>1, EventPlaces DEF UpTo
  <2> QED  BY <1>1, <2>1, EventPlaces
<1>3. UpTo(TextPlaces(events), 0) = {}
  BY <1>1, EventPlaces DEF UpTo
<1>4. gathered.text = TextUpTo(events, 0)
  BY <1>1, <1>3, SelectedOfNone DEF TextUpTo
<1>5. HasBuffers(events, 0, callBuffers)
  BY <1>1, <1>2 DEF HasBuffers
<1>6. gathered.calls = CallsUpTo(events, 0, callBuffers)
  BY <1>1 DEF CallsUpTo
<1>7. EndsAsSaid(events, 0, sawTerminal, gathered.finishReason)
  BY <1>1 DEF EndsAsSaid
<1>8. IsGathered(gathered)
  BY <1>1 DEF IsGathered
<1>9. 0 \in 0..Len(events) /\ decoded = 4 * 0
  BY <1>1, <1>2
<1> QED  BY <1>1, <1>2, <1>4, <1>5, <1>6, <1>7, <1>8, <1>9 DEF NativeInv, Gathers

\* The event that is taken is the next one.
LEMMA TakesTheNext ==
  ASSUME NativeInv, HasEvent
  PROVE  \E n \in 0..Len(events) :
           /\ n < Len(events) /\ HeadEvent = events[n + 1] /\ Gathers(n)
           /\ Consumes => \/ decoded' = 4 * (n + 1) /\ 4 * (n + 1) <= received
                          \/ connection = "closed" /\ decoded' = received
<1>1. /\ events \in EventStreams
      /\ decoded \in Nat /\ received \in Nat /\ decoded <= received /\ received <= 4 * Len(events)
  BY DEF NativeInv
<1>2. PICK n \in 0..Len(events) :
        Gathers(n) /\ (decoded = 4 * n \/ (connection = "closed" /\ decoded = received))
  BY DEF NativeInv
<1> DEFINE N == Len(events)
<1>3. N \in Nat
  BY <1>1, EventPlaces
<1> HIDE DEF N
<1>4. n \in 0..N /\ received <= 4 * N
  BY <1>1, <1>2 DEF N
<1>5. received - decoded >= 2
  BY <1>1 DEF HasEvent, HasWholeEvent, RestParses
<1>6. decoded = 4 * n
  BY <1>1, <1>2, <1>5
<1>7. n < N /\ decoded \div 4 = n
  BY <1>1, <1>3, <1>4, <1>5, <1>6
<1>8. Consumes => \/ decoded' = 4 * (n + 1) /\ 4 * (n + 1) <= received
                  \/ connection = "closed" /\ decoded' = received
  <2>1. CASE HasWholeEvent
    <3>1. decoded + 4 = 4 * (n + 1) /\ decoded + 4 <= received
      BY <1>1, <1>4, <1>3, <1>6, <2>1 DEF HasWholeEvent
    <3> QED  BY <2>1, <3>1 DEF Consumes
  <2>2. CASE ~HasWholeEvent
    BY <2>2 DEF HasEvent, HasRest, Consumes
  <2> QED  BY <2>1, <2>2
<1> QED  BY <1>2, <1>7, <1>8 DEF HeadEvent, N

LEMMA TakesLeads ==
  ASSUME NativeInv, NEW n \in 0..Len(events), n < Len(events),
         \/ decoded' = 4 * (n + 1) /\ 4 * (n + 1) <= received
         \/ connection = "closed" /\ decoded' = received,
         UNCHANGED <<events, received, connection>>, IsGathered(gathered'),
         HasBuffers(events, n + 1, callBuffers'), gathered'.text = TextUpTo(events, n + 1),
         gathered'.calls = CallsUpTo(events, n + 1, callBuffers'),
         EndsAsSaid(events, n + 1, sawTerminal', gathered'.finishReason)
  PROVE  NativeInv'
<1>1. /\ events \in EventStreams
      /\ decoded \in Nat /\ received \in Nat /\ decoded <= received /\ received <= 4 * Len(events)
  BY DEF NativeInv
<1>2. Len(events) \in Nat
  BY <1>1, EventPlaces
<1>3. n + 1 \in 0..Len(events) /\ 4 * (n + 1) \in Nat
  BY <1>2
<1>4. decoded' \in Nat /\ decoded' <= received
  BY <1>1, <1>3
<1>5. \/ decoded' = 4 * (n + 1)
      \/ connection' = "closed" /\ decoded' = received'
  OBVIOUS
<1>6. Gathers(n + 1)'
  BY DEF Gathers
<1>7. n + 1 \in 0..Len(events')
  BY <1>3
<1> QED  BY <1>1, <1>4, <1>5, <1>6, <1>7 DEF NativeInv

LEMMA GatheredIs ==
  ASSUME NEW g, NEW a, NEW b, NEW c, NEW d,
         g = [text |-> a, calls |-> b, finishReason |-> c, over |-> d]
  PROVE  IsGathered(g) /\ g.text = a /\ g.calls = b /\ g.finishReason = c /\ g.over = d
BY DEF IsGathered

\* A step that takes no event.
LEMMA StepStays ==
  ASSUME NativeInv, UNCHANGED <<events, callBuffers, sawTerminal>>, NEW reason, NEW over,
         gathered' = [text |-> gathered.text, calls |-> gathered.calls,
                      finishReason |-> reason, over |-> over],
         reason \in {gathered.finishReason, "thrown", "error",
                     IF sawTerminal THEN gathered.finishReason ELSE "error"},
         decoded' \in Nat, received' \in Nat, decoded' <= received', received' <= 4 * Len(events),
         decoded' = decoded \/ (connection' = "closed" /\ decoded' = received'),
         connection = "closed" /\ decoded = received => connection' = "closed" /\ decoded' = received'
  PROVE  NativeInv'
<1>1. /\ events' = events /\ events \in EventStreams /\ callBuffers' = callBuffers
      /\ sawTerminal' = sawTerminal
  BY DEF NativeInv
<1>2. PICK n \in 0..Len(events) :
        Gathers(n) /\ (decoded = 4 * n \/ (connection = "closed" /\ decoded = received))
  BY DEF NativeInv
<1>3. /\ IsGathered(gathered') /\ gathered'.text = gathered.text /\ gathered'.calls = gathered.calls
      /\ gathered'.finishReason = reason
  BY GatheredIs
<1>4. EndsAsSaid(events, n, sawTerminal, reason)
  BY <1>2, EndsInAnError DEF Gathers
<1>5. Gathers(n)'
  BY <1>1, <1>2, <1>3, <1>4 DEF Gathers
<1>6. decoded' = 4 * n \/ (connection' = "closed" /\ decoded' = received')
  BY <1>2
<1>7. n \in 0..Len(events')
  BY <1>1
<1> QED  BY <1>1, <1>3, <1>5, <1>6, <1>7 DEF NativeInv

LEMMA NativeInvNext == NativeInv /\ [NativeNext]_nativeVars => NativeInv'
<1> SUFFICES ASSUME NativeInv, [NativeNext]_nativeVars PROVE NativeInv'
  OBVIOUS
<1> DEFINE R(a, b, c, d) == [text |-> a, calls |-> b, finishReason |-> c, over |-> d]
<1>1. /\ events \in EventStreams /\ IsGathered(gathered) /\ Len(events) \in Nat
      /\ decoded \in Nat /\ received \in Nat /\ decoded <= received /\ received <= 4 * Len(events)
  BY EventPlaces DEF NativeInv
<1>2. gathered = R(gathered.text, gathered.calls, gathered.finishReason, gathered.over)
  BY <1>1 DEF IsGathered
<1>3. CASE Reads
  <2>1. received' \in Nat /\ decoded' <= received' /\ received' <= 4 * Len(events)
    BY <1>1, <1>3 DEF Reads, WireLength
  <2> QED  BY <1>1, <1>2, <1>3, <2>1, StepStays DEF Reads
<1>4. CASE ReadThrows
  <2>1. gathered' = R(gathered.text, gathered.calls, "thrown", TRUE)
    BY <1>1, <1>4, GatheredChanges DEF ReadThrows
  <2> QED  BY <1>1, <1>4, <2>1, StepStays DEF ReadThrows
<1>5. CASE Disconnects
  BY <1>1, <1>2, <1>5, StepStays DEF Disconnects
<1>6. CASE DropsRest
  <2>1. connection' = "closed" /\ decoded' = received'
    BY <1>6 DEF DropsRest, HasRest
  <2> QED  BY <1>1, <1>2, <1>6, <2>1, StepStays DEF DropsRest
<1>7. CASE RunsOut
  <2>1. gathered' = R(gathered.text, gathered.calls,
                      IF sawTerminal THEN gathered.finishReason ELSE "error", TRUE)
    BY <1>1, <1>7, GatheredChanges DEF RunsOut, EndsStream
  <2> QED  BY <1>1, <1>7, <2>1, StepStays DEF RunsOut
<1>8. CASE NoStream
  <2>1. gathered' = R(gathered.text, gathered.calls, "error", TRUE)
    BY <1>1, <1>8, GatheredChanges DEF NoStream
  <2> QED  BY <1>1, <1>8, <2>1, StepStays DEF NoStream
<1>9. CASE UNCHANGED nativeVars
  BY <1>1, <1>2, <1>9, StepStays DEF nativeVars
<1>10. ASSUME NEW kinds, Takes(kinds), Text \/ BeginsCall \/ ContinuesCall \/ TurnFinishes
                                       \/ PassesOver \/ ErrorChunk \/ SaysDone
       PROVE  NativeInv'
  <2>1. PICK n \in 0..Len(events) :
          /\ n < Len(events) /\ HeadEvent = events[n + 1] /\ Gathers(n)
          /\ \/ decoded' = 4 * (n + 1) /\ 4 * (n + 1) <= received
             \/ connection = "closed" /\ decoded' = received
    BY <1>10, TakesTheNext DEF Takes
  <2>2. UNCHANGED <<events, received, connection>> /\ n \in Nat
    BY <1>10 DEF Takes
  <2> DEFINE ev == events[n + 1]
             m == n + 1
  <2>3. /\ HasBuffers(events, n, callBuffers)
        /\ gathered.text = TextUpTo(events, n)
        /\ gathered.calls = CallsUpTo(events, n, callBuffers)
        /\ EndsAsSaid(events, n, sawTerminal, gathered.finishReason)
    BY <2>1 DEF Gathers
  <2>4. /\ ev.kind # "finish" => EndsAsSaid(events, m, sawTerminal, gathered.finishReason)
        /\ ev.kind = "finish" => EndsAsSaid(events, m, TRUE, MapsFinishReason(ev.reason))
    BY <1>1, <2>1, <2>2, <2>3, EndsLater
  <2>5. TextUpTo(events, m) = IF ev.kind = "text" THEN Append(gathered.text, ev.text) ELSE gathered.text
    BY <1>1, <2>1, <2>2, <2>3, TextGrows
  <2>6. ev.kind # "call" => /\ HasBuffers(events, m, callBuffers)
                           /\ CallsUpTo(events, m, callBuffers) = gathered.calls
    BY <1>1, <2>1, <2>2, <2>3, CallsStay
  <2> HIDE DEF m, ev
  <2>7. SUFFICES /\ IsGathered(gathered') /\ HasBuffers(events, m, callBuffers')
                 /\ gathered'.text = TextUpTo(events, m)
                 /\ gathered'.calls = CallsUpTo(events, m, callBuffers')
                 /\ EndsAsSaid(events, m, sawTerminal', gathered'.finishReason)
    BY <2>1, <2>2, TakesLeads DEF m
  <2>8. CASE Text
    <3>1. ev.kind = "text" /\ UNCHANGED <<callBuffers, sawTerminal>>
      BY <2>1, <2>8 DEF Text, Takes, ev
    <3>2. gathered' = R(Append(gathered.text, ev.text), gathered.calls,
                        gathered.finishReason, gathered.over)
      BY <1>1, <2>1, <2>8, GatheredChanges DEF Text, ev
    <3> QED  BY <2>4, <2>5, <2>6, <3>1, <3>2, GatheredIs
  <2>9. CASE TurnFinishes
    <3>1. ev.kind = "finish" /\ sawTerminal' = TRUE /\ callBuffers' = callBuffers
      BY <2>1, <2>9 DEF TurnFinishes, Takes, ev
    <3>2. gathered' = R(gathered.text, gathered.calls, MapsFinishReason(ev.reason), gathered.over)
      BY <1>1, <2>1, <2>9, GatheredChanges DEF TurnFinishes, ev
    <3> QED  BY <2>4, <2>5, <2>6, <3>1, <3>2, GatheredIs
  <2>10. CASE PassesOver
    <3>1. ev.kind \in {"usage", "comment"} /\ UNCHANGED <<callBuffers, sawTerminal, gathered>>
      BY <2>1, <2>10 DEF PassesOver, Takes, ev
    <3> QED  BY <1>1, <2>4, <2>5, <2>6, <3>1
  <2>11. CASE ErrorChunk
    <3>1. ev.kind = "error" /\ UNCHANGED <<callBuffers, sawTerminal>>
      BY <2>1, <2>11 DEF ErrorChunk, Takes, ev
    <3>2. gathered' = R(gathered.text, gathered.calls, "error", TRUE)
      BY <1>1, <2>11, GatheredChanges DEF ErrorChunk
    <3>3. EndsAsSaid(events, m, sawTerminal, "error")
      BY <2>4, <3>1, EndsInAnError
    <3> QED  BY <2>5, <2>6, <3>1, <3>2, <3>3, GatheredIs
  <2>12. CASE SaysDone
    <3>1. ev.kind = "DONE" /\ UNCHANGED <<callBuffers, sawTerminal>>
      BY <2>1, <2>12 DEF SaysDone, Takes, ev
    <3>2. gathered' = R(gathered.text, gathered.calls,
                        IF sawTerminal THEN gathered.finishReason ELSE "error", TRUE)
      BY <1>1, <2>12, GatheredChanges DEF SaysDone, EndsStream
    <3>3. EndsAsSaid(events, m, sawTerminal, IF sawTerminal THEN gathered.finishReason ELSE "error")
      BY <2>4, <3>1, EndsInAnError
    <3> QED  BY <2>5, <2>6, <3>1, <3>2, <3>3, GatheredIs
  <2>13. CASE ContinuesCall
    <3>1. ev.kind = "call" /\ UNCHANGED <<callBuffers, sawTerminal>>
      BY <2>1, <2>13 DEF ContinuesCall, Takes, ev
    <3>2. PICK k \in DOMAIN callBuffers :
            /\ callBuffers[k].index = ev.index
            /\ gathered' = [gathered EXCEPT !.calls = Adds(gathered.calls, callBuffers[k].id, ev.args)]
      BY <2>1, <2>13 DEF ContinuesCall, BufferAt, ev
    <3>3. /\ HasBuffers(events, m, callBuffers)
          /\ Adds(gathered.calls, callBuffers[k].id, ev.args) = CallsUpTo(events, m, callBuffers)
      <4>1. HasBuffers(events, n, callBuffers) /\ n < Len(events) /\ n \in Nat /\ events[n + 1].kind = "call"
        BY <2>1, <2>2, <2>3, <3>1 DEF ev
      <4>2. k \in DOMAIN callBuffers /\ callBuffers[k].index = events[n + 1].index
        BY <3>2 DEF ev
      <4>3. /\ HasBuffers(events, n + 1, callBuffers)
            /\ Adds(CallsUpTo(events, n, callBuffers), callBuffers[k].id, events[n + 1].args)
                 = CallsUpTo(events, n + 1, callBuffers)
        BY <1>1, <4>1, <4>2, CallContinues
      <4>4. gathered.calls = CallsUpTo(events, n, callBuffers)
        BY <2>3
      <4> QED  BY <4>3, <4>4 DEF ev, m
    <3>4. gathered' = R(gathered.text, CallsUpTo(events, m, callBuffers),
                        gathered.finishReason, gathered.over)
      <4> DEFINE cs == CallsUpTo(events, m, callBuffers)
      <4>1. gathered' = [gathered EXCEPT !.calls = cs]
        BY <3>2, <3>3
      <4> HIDE DEF cs
      <4>2. [gathered EXCEPT !.calls = cs] = R(gathered.text, cs, gathered.finishReason, gathered.over)
        BY <1>1, GatheredChanges
      <4> QED  BY <4>1, <4>2 DEF cs
    <3> QED  BY <2>4, <2>5, <3>1, <3>3, <3>4, GatheredIs
  <2>14. CASE BeginsCall
    <3> DEFINE id == IF ev.id = NoCallId THEN <<"call", ev.index>> ELSE ev.id
               more == Append(callBuffers, [index |-> ev.index, id |-> id])
    <3>1. /\ ev.kind = "call" /\ UNCHANGED sawTerminal /\ callBuffers' = more
          /\ gathered' = [gathered EXCEPT !.calls = Adds(StartsCall(gathered.calls, id), id, ev.args)]
          /\ \A k \in DOMAIN callBuffers : callBuffers[k].index # ev.index
      BY <2>1, <2>14 DEF BeginsCall, Takes, BufferAt, ev
    <3>0. FirstChunk(ev, callBuffers, id, more)
      BY <3>1 DEF FirstChunk
    <3> HIDE DEF more, id
    <3>2. /\ HasBuffers(events, m, more)
          /\ Adds(StartsCall(gathered.calls, id), id, ev.args) = CallsUpTo(events, m, more)
      <4>1. HasBuffers(events, n, callBuffers) /\ n < Len(events) /\ n \in Nat /\ events[n + 1].kind = "call"
        BY <2>1, <2>2, <2>3, <3>1 DEF ev
      <4>2. FirstChunk(events[n + 1], callBuffers, id, more)
        BY <3>0 DEF ev
      <4>3. CallBegan(events, n, callBuffers, id, more)
        BY <1>1, <4>1, <4>2, CallBegins
      <4>4. gathered.calls = CallsUpTo(events, n, callBuffers)
        BY <2>3
      <4> QED  BY <4>3, <4>4 DEF CallBegan, ev, m
    <3>3. gathered' = R(gathered.text, CallsUpTo(events, m, more), gathered.finishReason, gathered.over)
      <4> DEFINE cs == CallsUpTo(events, m, more)
      <4>1. gathered' = [gathered EXCEPT !.calls = cs]
        BY <3>1, <3>2
      <4> HIDE DEF cs
      <4>2. [gathered EXCEPT !.calls = cs] = R(gathered.text, cs, gathered.finishReason, gathered.over)
        BY <1>1, GatheredChanges
      <4> QED  BY <4>1, <4>2 DEF cs
    <3> QED  BY <2>4, <2>5, <3>1, <3>2, <3>3, GatheredIs
  <2> QED  BY <1>10, <2>8, <2>9, <2>10, <2>11, <2>12, <2>13, <2>14
<1>11. CASE Text \/ BeginsCall \/ ContinuesCall \/ TurnFinishes \/ PassesOver \/ ErrorChunk \/ SaysDone
  <2>1. \E kinds : Takes(kinds)
    BY <1>11 DEF Text, BeginsCall, ContinuesCall, TurnFinishes, PassesOver, ErrorChunk, SaysDone
  <2> QED  BY <1>10, <1>11, <2>1
<1> QED  BY <1>3, <1>4, <1>5, <1>6, <1>7, <1>8, <1>9, <1>11 DEF NativeNext

\* Once it has said why it finishes, it has nothing more to say.
LEMMA NothingIsLeft ==
  ASSUME NEW es \in EventStreams, NEW n \in Nat, n <= Len(es),
         NEW f \in 1..n, es[f].kind = "finish"
  PROVE  /\ UpTo(TextPlaces(es), n) = TextPlaces(es)
         /\ \A i : UpTo(Chunks(es, i), n) = Chunks(es, i)
         /\ \A k \in DOMAIN es : es[k].kind = "finish" => k \in 1..n
<1>1. DOMAIN es = 1..Len(es) /\ Len(es) \in Nat
  BY EventPlaces
<1>2. \A k \in DOMAIN es : es[k].kind \in {"text", "call", "finish"} => k <= n
  <2> SUFFICES ASSUME NEW k \in DOMAIN es, es[k].kind \in {"text", "call", "finish"}, ~(k <= n)
               PROVE  FALSE
    OBVIOUS
  <2>1. f \in DOMAIN es /\ f < k
    BY <1>1
  <2> QED  BY <2>1, NativeAssumption
<1>3. \A k \in DOMAIN es : es[k].kind = "finish" => k \in 1..n
  BY <1>1, <1>2
<1> QED  BY <1>2, <1>3 DEF UpTo, TextPlaces, Chunks

\* All the text, and all the arguments of a call.
LEMMA AllTheText ==
  ASSUME events \in EventStreams
  PROVE  Selected([k \in DOMAIN events |-> events[k].text], TextPlaces(events)) = SaidText
<1> DEFINE I == TextPlaces(events)
           c == Cardinality(I)
           said == Selected(events, I)
<1>1. I \in SUBSET (1..Len(events)) /\ Len(events) \in Nat /\ DOMAIN events = 1..Len(events)
  BY EventPlaces
<1>2. \A k \in 1..c : Nth(I, k) \in DOMAIN events
  <2> HIDE DEF I
  <2>1. Enumerates(I)
    BY <1>1, PlacesAreEnumerated
  <2> QED  BY <1>1, <2>1 DEF Enumerates
<1>3. said = [k \in 1..c |-> events[Nth(I, k)]]
  BY DEF Selected
<1>4. SaidText = [k \in DOMAIN said |-> said[k].text]
  BY DEF SaidText, TextPlaces
<1> HIDE DEF said
<1>5. SaidText = [k \in 1..c |-> events[Nth(I, k)].text]
  BY <1>3, <1>4
<1> QED  BY <1>2, <1>5 DEF Selected

LEMMA AllTheArgs ==
  ASSUME events \in EventStreams, NEW i
  PROVE  FlattenSeq(Selected([k \in DOMAIN events |-> events[k].args], Chunks(events, i))) = SaidArgs(i)
<1> DEFINE I == Chunks(events, i)
           c == Cardinality(I)
           said == Selected(events, I)
           args == [k \in DOMAIN said |-> said[k].args]
<1>1. I \in SUBSET (1..Len(events)) /\ Len(events) \in Nat /\ DOMAIN events = 1..Len(events)
  BY EventPlaces
<1>2. \A k \in 1..c : Nth(I, k) \in DOMAIN events
  <2> HIDE DEF I
  <2>1. Enumerates(I)
    BY <1>1, PlacesAreEnumerated
  <2> QED  BY <1>1, <2>1 DEF Enumerates
<1>3. said = [k \in 1..c |-> events[Nth(I, k)]]
  BY DEF Selected
<1>4. SaidArgs(i) = FlattenSeq(args)
  BY DEF SaidArgs
<1>5. args = Selected([k \in DOMAIN events |-> events[k].args], I)
  <2> HIDE DEF said
  <2>1. args = [k \in 1..c |-> events[Nth(I, k)].args]
    BY <1>3
  <2> HIDE DEF args
  <2> QED  BY <1>2, <2>1 DEF Selected
<1> HIDE DEF args
<1> QED  BY <1>4, <1>5

LEMMA InvIsWhole == NativeInv => NativeReplyIsWhole
<1> SUFFICES ASSUME NativeInv, gathered.finishReason \in {"stop", "tool_use"}
             PROVE  /\ gathered.text = SaidText
                    /\ Range(gathered.calls) = {MeantCall(i) : i \in Indices(events)}
                    /\ Len(gathered.calls) = Cardinality(Indices(events))
                    /\ \A k \in DOMAIN events : events[k].kind = "finish" =>
                         events[k].reason \notin {"length", "content_filter"}
  BY DEF NativeReplyIsWhole
<1> DEFINE bufs == callBuffers
           N == Len(bufs)
<1>1. events \in EventStreams /\ Len(events) \in Nat
  BY EventPlaces DEF NativeInv
<1>2. PICK n \in 0..Len(events) : Gathers(n)
  BY DEF NativeInv
<1>3. /\ n \in Nat /\ n <= Len(events)
      /\ HasBuffers(events, n, bufs) /\ gathered.text = TextUpTo(events, n)
      /\ gathered.calls = CallsUpTo(events, n, bufs)
      /\ EndsAsSaid(events, n, sawTerminal, gathered.finishReason)
  BY <1>1, <1>2 DEF Gathers
<1>4. PICK f \in 1..n : events[f].kind = "finish"
  BY <1>3 DEF EndsAsSaid
<1>5. /\ UpTo(TextPlaces(events), n) = TextPlaces(events)
      /\ \A i : UpTo(Chunks(events, i), n) = Chunks(events, i)
      /\ \A k \in DOMAIN events : events[k].kind = "finish" => k \in 1..n
  BY <1>1, <1>3, <1>4, NothingIsLeft
<1>6. gathered.text = SaidText
  BY <1>1, <1>3, <1>5, AllTheText DEF TextUpTo
<1>7. \A i : ArgsUpTo(events, i, n) = SaidArgs(i)
  BY <1>1, <1>5, AllTheArgs DEF ArgsUpTo
<1>8. /\ N \in Nat /\ DOMAIN bufs = 1..N
      /\ \A k \in 1..N : bufs[k].index \in Indices(events) /\ bufs[k].id = MeantId(events, bufs[k].index)
      /\ \A j, k \in 1..N : bufs[j].index = bufs[k].index => j = k
  <2>1. \A k \in 1..N : bufs[k] \in Buffers(events)
    BY <1>3 DEF HasBuffers
  <2> QED  BY <1>3, <2>1 DEF HasBuffers, Buffers
<1>9. \A i \in Indices(events) : \E k \in 1..N : bufs[k].index = i
  <2> TAKE i \in Indices(events)
  <2>1. Chunks(events, i) # {}
    BY DEF Indices, Chunks
  <2> QED  BY <1>3, <1>5, <1>8, <2>1 DEF HasBuffers
<1>10. gathered.calls = [k \in 1..N |-> MeantCall(bufs[k].index)]
  BY <1>3, <1>7, <1>8 DEF CallsUpTo, MeantCall
<1> HIDE DEF bufs, N
<1>11. Range(gathered.calls) = {MeantCall(i) : i \in Indices(events)}
  <2> DEFINE g == gathered.calls
  <2>1. DOMAIN g = 1..N /\ \A k \in 1..N : g[k] = MeantCall(bufs[k].index)
    BY <1>10
  <2> HIDE DEF g
  <2>2. Range(g) = {g[k] : k \in 1..N}
    BY <2>1 DEF Range
  <2>3. \A k \in 1..N : g[k] \in {MeantCall(i) : i \in Indices(events)}
    BY <1>8, <2>1
  <2>4. \A i \in Indices(events) : \E k \in 1..N : MeantCall(i) = g[k]
    BY <1>9, <2>1
  <2>5. Range(g) = {MeantCall(i) : i \in Indices(events)}
    BY <2>2, <2>3, <2>4
  <2> QED  BY <2>5 DEF g
<1>12. Len(gathered.calls) = Cardinality(Indices(events))
  <2> DEFINE I == Indices(events)
             h == [k \in 1..N |-> bufs[k].index]
  <2> HIDE DEF I
  <2>1. h \in [1..N -> I] /\ (\A j, k \in 1..N : h[j] = h[k] => j = k)
        /\ \A i \in I : \E k \in 1..N : h[k] = i
    BY <1>8, <1>9 DEF I
  <2> HIDE DEF h
  <2>2. h \in Bijection(1..N, I)
    BY <2>1 DEF Bijection, Injection, Surjection, IsInjective
  <2>3. ExistsBijection(1..N, I)
    BY <2>2 DEF ExistsBijection
  <2>4. Cardinality(I) = N
    BY <1>8, <2>3, FS_CountingElements
  <2>5. Len(gathered.calls) = N
    <3>1. gathered.calls \in Seq({MeantCall(bufs[k].index) : k \in 1..N})
      BY <1>8, <1>10
    <3>2. DOMAIN gathered.calls = 1..N
      BY <1>10
    <3> QED  BY <1>8, <3>1, <3>2, LenProperties
  <2> QED  BY <2>4, <2>5 DEF I
<1>13. \A k \in DOMAIN events : events[k].kind = "finish" =>
         events[k].reason \notin {"length", "content_filter"}
  BY <1>3, <1>5 DEF EndsAsSaid
<1> QED  BY <1>6, <1>11, <1>12, <1>13

\* A streamed reply of a server with native tools that is collected as complete
\* is the one the server sent, text and calls, for every stream of events and
\* every way the connection cuts it or breaks off: what has been gathered is
\* always what the first n events say (NativeInv), and a reply only counts as
\* complete when one of these was the finish reason, after which nothing is left
\* to say (sse.ts:22-47, openai-compatible.ts:164-246).
THEOREM NativeRepliesAreWhole == NativeSpec => []NativeReplyIsWhole
<1>1. NativeSpec => []NativeInv
  BY NativeInvInit, NativeInvNext, PTL DEF NativeSpec
<1> QED  BY <1>1, InvIsWhole, PTL

-----------------------------------------------------------------------------
(* The stream of a model that writes its calls as text.  The first tag of a  *)
(* text is its first tag whatever follows, so what the parser makes of two   *)
(* chunks is what it makes of both at once.                                  *)

LEMMA CutsAround ==
  ASSUME NEW S, NEW s \in Seq(S), NEW i \in 1..(Len(s) - 1)
  PROVE  /\ SubSeq(s, 1, i - 1) \in Seq(S) /\ SubSeq(s, i, i + 1) \in Seq(S)
         /\ SubSeq(s, i + 2, Len(s)) \in Seq(S)
         /\ Len(SubSeq(s, i + 2, Len(s))) = Len(s) - i - 1
         /\ Len(SubSeq(s, 1, i - 1)) = i - 1
         /\ s = (SubSeq(s, 1, i - 1) \o SubSeq(s, i, i + 1)) \o SubSeq(s, i + 2, Len(s))
<1> DEFINE n == Len(s)
<1>1. n \in Nat
  OBVIOUS
<1>2. \A k \in 1..n : s[k] \in S
  OBVIOUS
<1> HIDE DEF n
<1>3. /\ SubSeq(s, 1, i - 1) \in Seq(S) /\ SubSeq(s, i, i + 1) \in Seq(S)
      /\ SubSeq(s, i + 2, n) \in Seq(S) /\ Len(SubSeq(s, 1, i - 1)) = i - 1
      /\ Len(SubSeq(s, i + 2, n)) = n - i - 1
  <2>1. i \in Nat /\ 1 <= i /\ i + 1 <= n
    BY <1>1 DEF n
  <2>2. /\ \A k \in 1..(i - 1) : s[k] \in S
        /\ \A k \in i..(i + 1) : s[k] \in S
        /\ \A k \in (i + 2)..n : s[k] \in S
    BY <1>1, <1>2, <2>1
  <2>3. SubSeq(s, 1, i - 1) \in Seq(S) /\ Len(SubSeq(s, 1, i - 1)) = i - 1
    BY <2>1, <2>2, SubSeqProperties
  <2>4. SubSeq(s, i, i + 1) \in Seq(S)
    BY <2>1, <2>2, SubSeqProperties
  <2>5. SubSeq(s, i + 2, n) \in Seq(S) /\ Len(SubSeq(s, i + 2, n)) = n - i - 1
    BY <1>1, <2>1, <2>2, SubSeqProperties
  <2> QED  BY <2>3, <2>4, <2>5
<1>4. SubSeq(s, 1, i - 1) \o SubSeq(s, i, i + 1) = SubSeq(s, 1, i + 1)
  <2>1. /\ 1 \in 1..(Len(s) + 1) /\ i - 1 \in 0..Len(s) /\ i + 1 \in (i - 1)..Len(s)
        /\ (i - 1) + 1 = i
    BY <1>1 DEF n
  <2> QED  BY <2>1, ConcatAdjacentSubSeq
<1>5. SubSeq(s, 1, i + 1) \o SubSeq(s, i + 2, n) = SubSeq(s, 1, n)
  <2>1. /\ 1 \in 1..(Len(s) + 1) /\ i + 1 \in 0..Len(s) /\ n \in (i + 1)..Len(s)
        /\ (i + 1) + 1 = i + 2
    BY <1>1 DEF n
  <2> QED  BY <2>1, ConcatAdjacentSubSeq
<1>6. SubSeq(s, 1, n) = s
  BY SubSeqFull DEF n
<1> QED  BY <1>3, <1>4, <1>5, <1>6 DEF n

\* The tags of a text, and of one it starts or ends with.
LEMMA HitsAreCuts ==
  ASSUME NEW S, NEW s \in Seq(S), NEW tags
  PROVE  /\ Hits(s, tags) \subseteq Nat
         /\ \A i \in Hits(s, tags) : i \in 1..(Len(s) - 1) /\ i \in Nat /\ 1 <= i /\ i < Len(s)
BY DEF Hits

LEMMA HitsOfStart ==
  ASSUME NEW S, NEW s \in Seq(S), NEW t \in Seq(S), NEW tags, NEW i \in 1..(Len(s) - 1)
  PROVE  i \in Hits(s \o t, tags) <=> i \in Hits(s, tags)
<1> DEFINE m == Len(s)
           n == Len(s \o t)
<1>1. m \in Nat /\ Len(t) \in Nat /\ n = m + Len(t)
  BY ConcatProperties
<1>2. i \in 1..m /\ i + 1 \in 1..m
  OBVIOUS
<1>3. SubSeq(s \o t, i, i + 1) = SubSeq(s, i, i + 1)
  BY <1>2, SubSeqOfConcat1
<1> HIDE DEF m, n
<1>4. i \in 1..(n - 1) /\ i \in 1..(m - 1)
  BY <1>1 DEF m
<1> QED  BY <1>3, <1>4 DEF Hits, m, n

LEMMA HitsOfEnd ==
  ASSUME NEW S, NEW s \in Seq(S), NEW t \in Seq(S), NEW tags, NEW i \in 1..(Len(t) - 1)
  PROVE  Len(s) + i \in Hits(s \o t, tags) <=> i \in Hits(t, tags)
<1> DEFINE m == Len(s)
           n == Len(t)
<1>1. m \in Nat /\ n \in Nat /\ Len(s \o t) = m + n /\ i \in 1..(n - 1)
  BY ConcatProperties
<1>2. SubSeq(s \o t, m + i, (m + i) + 1) = SubSeq(t, i, i + 1)
  <2> HIDE DEF m, n
  <2>1. /\ m + i \in (m + 1)..(m + n) /\ (m + i) + 1 \in (m + 1)..(m + n)
        /\ (m + i) - m = i /\ ((m + i) + 1) - m = i + 1
    BY <1>1
  <2> QED  BY <2>1, SubSeqOfConcat2 DEF m, n
<1> HIDE DEF m, n
<1>3. m + i \in 1..((m + n) - 1)
  BY <1>1
<1> QED  BY <1>1, <1>2, <1>3 DEF Hits, m, n

\* The first tag of a text.
IsFirst(text, tags, i) == i \in Hits(text, tags) /\ \A j \in Hits(text, tags) : i <= j

LEMMA FirstExists ==
  ASSUME NEW S, NEW text \in Seq(S), NEW tags, Has(text, tags)
  PROVE  \E i \in 1..(Len(text) - 1) :
           /\ IsFirst(text, tags, i)
           /\ FirstOf(text, tags) = [tag |-> SubSeq(text, i, i + 1),
                                     before |-> SubSeq(text, 1, i - 1),
                                     after |-> SubSeq(text, i + 2, Len(text))]
<1> DEFINE H == Hits(text, tags)
           m == Min(H)
<1>1. H \subseteq Nat /\ H # {}
  BY HitsAreCuts DEF Has
<1>2. m \in H /\ \A j \in H : m <= j
  <2> HIDE DEF H
  <2>1. \E x \in H : \A y \in H : x <= y
    BY <1>1, LeastOf
  <2> QED  BY <2>1 DEF Min
<1>3. m \in 1..(Len(text) - 1)
  BY <1>2, HitsAreCuts
<1>4. FirstOf(text, tags) = [tag |-> SubSeq(text, m, m + 1), before |-> SubSeq(text, 1, m - 1),
                             after |-> SubSeq(text, m + 2, Len(text))]
  BY DEF FirstOf
<1> HIDE DEF m, H
<1> QED  BY <1>2, <1>3, <1>4 DEF IsFirst, H

LEMMA FirstIsUnique ==
  ASSUME NEW S, NEW text \in Seq(S), NEW tags, NEW i, IsFirst(text, tags, i)
  PROVE  /\ Has(text, tags) /\ i \in 1..(Len(text) - 1)
         /\ FirstOf(text, tags) = [tag |-> SubSeq(text, i, i + 1),
                                   before |-> SubSeq(text, 1, i - 1),
                                   after |-> SubSeq(text, i + 2, Len(text))]
<1>1. Has(text, tags) /\ i \in Hits(text, tags)
  BY DEF IsFirst, Has
<1>2. PICK j \in 1..(Len(text) - 1) :
        /\ IsFirst(text, tags, j)
        /\ FirstOf(text, tags) = [tag |-> SubSeq(text, j, j + 1),
                                  before |-> SubSeq(text, 1, j - 1),
                                  after |-> SubSeq(text, j + 2, Len(text))]
  BY <1>1, FirstExists
<1>3. i = j
  <2>1. i \in Nat /\ j \in Nat /\ i <= j /\ j <= i
    BY <1>1, <1>2, HitsAreCuts DEF IsFirst
  <2> QED  BY <2>1
<1> QED  BY <1>1, <1>2, <1>3

\* The first tag stays the first whatever follows.
LEMMA FirstWithMore ==
  ASSUME NEW S, NEW s \in Seq(S), NEW t \in Seq(S), NEW tags, Has(s, tags)
  PROVE  /\ Has(s \o t, tags)
         /\ FirstOf(s \o t, tags) = [tag |-> FirstOf(s, tags).tag, before |-> FirstOf(s, tags).before,
                                     after |-> FirstOf(s, tags).after \o t]
<1>1. PICK i \in 1..(Len(s) - 1) :
        /\ IsFirst(s, tags, i)
        /\ FirstOf(s, tags) = [tag |-> SubSeq(s, i, i + 1), before |-> SubSeq(s, 1, i - 1),
                               after |-> SubSeq(s, i + 2, Len(s))]
  BY FirstExists
<1> DEFINE m == Len(s)
           u == s \o t
<1>2. u \in Seq(S) /\ m \in Nat /\ i \in Nat /\ 1 <= i /\ i + 1 <= m
  BY ConcatProperties
<1>3. IsFirst(u, tags, i)
  <2>1. i \in Hits(u, tags)
    BY <1>1, HitsOfStart DEF IsFirst
  <2>2. ASSUME NEW j \in Hits(u, tags)
        PROVE  i <= j
    <3>1. j \in Nat /\ 1 <= j
      BY <1>2, HitsAreCuts
    <3>2. CASE j \in 1..(m - 1)
      <4>1. j \in Hits(s, tags)
        BY <3>2, HitsOfStart
      <4> QED  BY <1>1, <4>1 DEF IsFirst
    <3>3. CASE j \notin 1..(m - 1)
      BY <1>2, <3>1, <3>3
    <3> QED  BY <3>2, <3>3
  <2> QED  BY <2>1, <2>2 DEF IsFirst
<1>4. /\ Has(u, tags)
      /\ FirstOf(u, tags) = [tag |-> SubSeq(u, i, i + 1), before |-> SubSeq(u, 1, i - 1),
                             after |-> SubSeq(u, i + 2, Len(u))]
  BY <1>2, <1>3, FirstIsUnique
<1>5. SubSeq(u, i, i + 1) = SubSeq(s, i, i + 1)
  <2>1. i \in 1..Len(s) /\ i + 1 \in 1..Len(s)
    BY <1>2
  <2>2. \A a, b \in 1..Len(s) : SubSeq(s \o t, a, b) = SubSeq(s, a, b)
    BY SubSeqOfConcat1
  <2> QED  BY <2>1, <2>2
<1>6. SubSeq(u, 1, i - 1) = SubSeq(s, 1, i - 1)
  <2>1. CASE i = 1
    BY <2>1, SubSeqEmpty
  <2>2. CASE i # 1
    <3>1. 1 \in 1..Len(s) /\ i - 1 \in 1..Len(s)
      BY <1>2, <2>2
    <3> QED  BY <3>1, SubSeqOfConcat1
  <2> QED  BY <2>1, <2>2
<1>7. SubSeq(u, i + 2, Len(u)) = SubSeq(s, i + 2, Len(s)) \o t
  <2>1. i + 2 \in 1..(Len(s) + 1)
    BY <1>2
  <2> QED  BY <2>1, CutOfBoth
<1> HIDE DEF u
<1>8. /\ FirstOf(s, tags).tag = SubSeq(s, i, i + 1) /\ FirstOf(s, tags).before = SubSeq(s, 1, i - 1)
      /\ FirstOf(s, tags).after = SubSeq(s, i + 2, Len(s))
  BY <1>1
<1> QED  BY <1>4, <1>5, <1>6, <1>7, <1>8 DEF u

\* The first tag of a text that starts with one without any.
LEMMA FirstBehind ==
  ASSUME NEW S, NEW s \in Seq(S), NEW t \in Seq(S), NEW tags,
         \A j \in Hits(s \o t, tags) : ~(j <= Len(s))
  PROVE  /\ Has(s \o t, tags) <=> Has(t, tags)
         /\ Has(t, tags) =>
              FirstOf(s \o t, tags) = [tag |-> FirstOf(t, tags).tag,
                                       before |-> s \o FirstOf(t, tags).before,
                                       after |-> FirstOf(t, tags).after]
<1> DEFINE m == Len(s)
           n == Len(t)
           u == s \o t
<1>1. u \in Seq(S) /\ m \in Nat /\ n \in Nat /\ Len(u) = m + n
  BY ConcatProperties
<1>2. ASSUME NEW j \in Hits(u, tags)
      PROVE  j - m \in 1..(n - 1) /\ j - m \in Hits(t, tags)
  <2> DEFINE k == j - m
  <2>0. j \in Nat /\ j < Len(u)
    <3> HIDE DEF u
    <3> QED  BY <1>1, HitsAreCuts
  <2>1. j \in Nat /\ j <= (m + n) - 1 /\ ~(j <= m)
    <3>1. ~(j <= m)
      OBVIOUS
    <3> HIDE DEF u, m, n
    <3> QED  BY <1>1, <2>0, <3>1
  <2>2. k \in 1..(n - 1) /\ m + k = j
    BY <1>1, <2>1
  <2> HIDE DEF k
  <2>3. k \in Hits(t, tags)
    BY <2>2, HitsOfEnd
  <2> QED  BY <2>2, <2>3 DEF k
<1>3. \A k \in Hits(t, tags) : m + k \in Hits(u, tags)
  <2> TAKE k \in Hits(t, tags)
  <2>1. k \in 1..(Len(t) - 1)
    BY HitsAreCuts
  <2> QED  BY <2>1, HitsOfEnd
<1>4. Has(u, tags) <=> Has(t, tags)
  BY <1>2, <1>3 DEF Has
<1>5. ASSUME Has(t, tags)
      PROVE  FirstOf(u, tags) = [tag |-> FirstOf(t, tags).tag,
                                 before |-> s \o FirstOf(t, tags).before,
                                 after |-> FirstOf(t, tags).after]
  <2>1. PICK i \in 1..(n - 1) :
          /\ IsFirst(t, tags, i)
          /\ FirstOf(t, tags) = [tag |-> SubSeq(t, i, i + 1), before |-> SubSeq(t, 1, i - 1),
                                 after |-> SubSeq(t, i + 2, n)]
    BY <1>5, FirstExists
  <2>2. i \in Nat /\ 1 <= i /\ i + 1 <= n
    BY <1>1
  <2>3. IsFirst(u, tags, m + i)
    <3>1. m + i \in Hits(u, tags)
      BY <1>3, <2>1 DEF IsFirst
    <3>2. ASSUME NEW j \in Hits(u, tags)
          PROVE  m + i <= j
      <4>1. i <= j - m /\ j \in Nat
        BY <1>1, <1>2, <2>1, HitsAreCuts DEF IsFirst
      <4> HIDE DEF m
      <4> QED  BY <1>1, <2>2, <4>1
    <3> QED  BY <3>1, <3>2 DEF IsFirst
  <2>4. FirstOf(u, tags) = [tag |-> SubSeq(u, m + i, (m + i) + 1),
                            before |-> SubSeq(u, 1, (m + i) - 1),
                            after |-> SubSeq(u, (m + i) + 2, Len(u))]
    BY <1>1, <2>3, FirstIsUnique
  <2>5. SubSeq(u, m + i, (m + i) + 1) = SubSeq(t, i, i + 1)
    <3> HIDE DEF m, n
    <3>1. /\ m + i \in (m + 1)..(m + n) /\ (m + i) + 1 \in (m + 1)..(m + n)
          /\ (m + i) - m = i /\ ((m + i) + 1) - m = i + 1
      BY <1>1, <2>2
    <3>2. \A a, b \in (m + 1)..(m + n) : SubSeq(s \o t, a, b) = SubSeq(t, a - m, b - m)
      BY SubSeqOfConcat2 DEF m, n
    <3>3. SubSeq(s \o t, m + i, (m + i) + 1) = SubSeq(t, (m + i) - m, ((m + i) + 1) - m)
      BY <3>1, <3>2
    <3> QED  BY <3>1, <3>3
  <2>6. SubSeq(u, 1, (m + i) - 1) = s \o SubSeq(t, 1, i - 1)
    <3> DEFINE k == i - 1
    <3>1. k \in 0..Len(t) /\ m + k = (m + i) - 1
      BY <1>1, <2>2
    <3> HIDE DEF k
    <3>2. SubSeq(u, 1, m + k) = s \o SubSeq(t, 1, k)
      BY <3>1, CutOfBoth
    <3> HIDE DEF m, u
    <3> QED  BY <3>1, <3>2 DEF k
  <2>7. SubSeq(u, (m + i) + 2, Len(u)) = SubSeq(t, i + 2, n)
    <3>1. i + 2 \in 1..(Len(t) + 1)
      BY <2>2
    <3>2. SubSeq(u, m + (i + 2), Len(u)) = SubSeq(t, i + 2, n)
      <4> DEFINE k == i + 2
      <4>1. k \in 1..(Len(t) + 1)
        BY <3>1
      <4> HIDE DEF k
      <4>2. SubSeq(s \o t, Len(s) + k, Len(s \o t)) = SubSeq(t, k, Len(t))
        BY <4>1, CutBehind
      <4> QED  BY <4>2 DEF k
    <3>3. m + (i + 2) = (m + i) + 2
      BY <1>1, <2>2
    <3> HIDE DEF m, u, n
    <3> QED  BY <3>2, <3>3
  <2> HIDE DEF u, m, n
  <2> DEFINE f == FirstOf(t, tags)
  <2>0. f = [tag |-> SubSeq(t, i, i + 1), before |-> SubSeq(t, 1, i - 1), after |-> SubSeq(t, i + 2, n)]
    BY <2>1
  <2> HIDE DEF f
  <2>8. f.tag = SubSeq(t, i, i + 1) /\ f.before = SubSeq(t, 1, i - 1) /\ f.after = SubSeq(t, i + 2, n)
    BY <2>0
  <2> QED  BY <2>4, <2>5, <2>6, <2>7, <2>8 DEF f
<1> QED  BY <1>4, <1>5 DEF u

\* The parsers there are, and what a turn of one does: it takes the first of the
\* tags it waits for, or puts out the text that can be none.
MessageWords == {"<", "</", "tool_call>", "scratch_pad>"} \cup UNION {Range(text) : text \in ReplyTexts}
Outs == MessageWords \cup {EmittedCall}
Parser(state, pending, out) == [state |-> state, pending |-> pending, out |-> out]
Parsers == [state : {"text", "tool_call", "scratch_pad"}, pending : Seq(MessageWords), out : Seq(Outs)]
More(p, chunk) == [p EXCEPT !.pending = p.pending \o chunk]

TagsOf(state) == CASE state = "text"        -> {ToolCallOpen, ScratchPadOpen}
                   [] state = "tool_call"   -> {ToolCallClose, ToolCallOpen}
                   [] state = "scratch_pad" -> {ScratchPadClose, ToolCallOpen}
AfterTag(state, tag) == IF tag = ToolCallOpen THEN "tool_call"
                        ELSE IF state = "text" THEN "scratch_pad" ELSE "text"
Says(state, tag, before) ==
  CASE state = "text"        -> before
    [] state = "tool_call"   -> IF tag = ToolCallOpen THEN ToolCallOpen \o before
                                ELSE IF ParsesAsCall(before) THEN <<EmittedCall>>
                                ELSE (ToolCallOpen \o before) \o ToolCallClose
    [] state = "scratch_pad" -> <<>>

LEMMA ParserFields ==
  ASSUME NEW p \in Parsers
  PROVE  /\ p = Parser(p.state, p.pending, p.out)
         /\ \A x : [p EXCEPT !.pending = x] = Parser(p.state, x, p.out)
         /\ \A x, y : [p EXCEPT !.pending = x, !.out = y] = Parser(p.state, x, y)
         /\ \A x, z : [p EXCEPT !.state = z, !.pending = x] = Parser(z, x, p.out)
         /\ p.state \in {"text", "tool_call", "scratch_pad"} /\ p.pending \in Seq(MessageWords)
         /\ p.out \in Seq(Outs)
<1>1. p = Parser(p.state, p.pending, p.out)
  BY DEF Parser, Parsers
<1>2. \A a, b, c, x : /\ [Parser(a, b, c) EXCEPT !.pending = x] = Parser(a, x, c)
                      /\ [Parser(a, b, c) EXCEPT !.out = x] = Parser(a, b, x)
                      /\ [Parser(a, b, c) EXCEPT !.state = x] = Parser(x, b, c)
  BY DEF Parser
<1>3. \A x : [p EXCEPT !.pending = x] = Parser(p.state, x, p.out)
  BY <1>1, <1>2
<1>4. \A z : [p EXCEPT !.state = z] = Parser(z, p.pending, p.out)
  BY <1>1, <1>2
<1>5. ASSUME NEW x, NEW y
      PROVE  [p EXCEPT !.pending = x, !.out = y] = Parser(p.state, x, y)
  <2>1. [p EXCEPT !.pending = x, !.out = y] = [[p EXCEPT !.pending = x] EXCEPT !.out = y]
    OBVIOUS
  <2>2. [Parser(p.state, x, p.out) EXCEPT !.out = y] = Parser(p.state, x, y)
    BY <1>2
  <2> QED  BY <1>3, <2>1, <2>2
<1>6. ASSUME NEW x, NEW z
      PROVE  [p EXCEPT !.state = z, !.pending = x] = Parser(z, x, p.out)
  <2>1. [p EXCEPT !.state = z, !.pending = x] = [[p EXCEPT !.state = z] EXCEPT !.pending = x]
    OBVIOUS
  <2>2. [Parser(z, p.pending, p.out) EXCEPT !.pending = x] = Parser(z, x, p.out)
    BY <1>2
  <2> QED  BY <1>4, <2>1, <2>2
<1> QED  BY <1>1, <1>3, <1>5, <1>6 DEF Parsers

LEMMA ParserIs ==
  ASSUME NEW a \in {"text", "tool_call", "scratch_pad"}, NEW b \in Seq(MessageWords), NEW c \in Seq(Outs)
  PROVE  /\ Parser(a, b, c) \in Parsers
         /\ Parser(a, b, c).state = a /\ Parser(a, b, c).pending = b /\ Parser(a, b, c).out = c
BY DEF Parser, Parsers

LEMMA TagsAreWords ==
  /\ ToolCallOpen \in Seq(MessageWords) /\ ToolCallClose \in Seq(MessageWords)
  /\ ToolCallOpen \in Seq(Outs) /\ ToolCallClose \in Seq(Outs)
  /\ <<EmittedCall>> \in Seq(Outs) /\ MessageWords \subseteq Outs
<1>1. /\ "<" \in MessageWords /\ "</" \in MessageWords /\ "tool_call>" \in MessageWords /\ MessageWords \subseteq Outs
      /\ EmittedCall \in Outs
  BY DEF MessageWords, Outs
<1>2. ToolCallOpen \in Seq(MessageWords) /\ ToolCallClose \in Seq(MessageWords)
  <2>1. \A a, b \in MessageWords : <<a, b>> \in Seq(MessageWords)
    OBVIOUS
  <2>2. <<"<", "tool_call>">> \in Seq(MessageWords) /\ <<"</", "tool_call>">> \in Seq(MessageWords)
    BY <1>1, <2>1
  <2> QED  BY <2>2 DEF ToolCallOpen, ToolCallClose
<1> QED  BY <1>1, <1>2, SeqMonotonic

LEMMA SaysWords ==
  ASSUME NEW state \in {"text", "tool_call", "scratch_pad"}, NEW tag, NEW before \in Seq(MessageWords)
  PROVE  Says(state, tag, before) \in Seq(Outs) /\ before \in Seq(Outs)
<1>1. before \in Seq(Outs)
  BY TagsAreWords, SeqMonotonic
<1>2. ToolCallOpen \o before \in Seq(Outs) /\ (ToolCallOpen \o before) \o ToolCallClose \in Seq(Outs)
  BY <1>1, TagsAreWords, ConcatProperties
<1>3. <<>> \in Seq(Outs)
  OBVIOUS
<1> QED  BY <1>1, <1>2, <1>3, TagsAreWords DEF Says

LEMMA TurnAtTag ==
  ASSUME NEW p \in Parsers, Has(p.pending, TagsOf(p.state)),
         NEW hit, hit = FirstOf(p.pending, TagsOf(p.state))
  PROVE  /\ DrainOnce(p) = Parser(AfterTag(p.state, hit.tag), hit.after,
                                  p.out \o Says(p.state, hit.tag, hit.before))
         /\ hit.before \in Seq(MessageWords) /\ hit.after \in Seq(MessageWords)
         /\ hit.tag \in TagsOf(p.state) /\ Len(hit.after) < Len(p.pending)
         /\ p.pending = (hit.before \o hit.tag) \o hit.after
<1> DEFINE text == p.pending
           tags == TagsOf(p.state)
<1>1. /\ text \in Seq(MessageWords) /\ p.out \in Seq(Outs)
      /\ p.state \in {"text", "tool_call", "scratch_pad"}
  BY ParserFields
<1>2. PICK i \in 1..(Len(text) - 1) :
        /\ IsFirst(text, tags, i)
        /\ hit = [tag |-> SubSeq(text, i, i + 1), before |-> SubSeq(text, 1, i - 1),
                  after |-> SubSeq(text, i + 2, Len(text))]
  <2> HIDE DEF text, tags
  <2>1. Has(text, tags) /\ hit = FirstOf(text, tags)
    BY DEF text, tags
  <2> QED  BY <1>1, <2>1, FirstExists
<1>3. /\ hit.before \in Seq(MessageWords) /\ hit.after \in Seq(MessageWords) /\ Len(hit.after) < Len(text)
      /\ text = (hit.before \o hit.tag) \o hit.after
  <2>1. /\ hit.tag = SubSeq(text, i, i + 1) /\ hit.before = SubSeq(text, 1, i - 1)
        /\ hit.after = SubSeq(text, i + 2, Len(text))
    BY <1>2
  <2> HIDE DEF text
  <2>2. /\ SubSeq(text, 1, i - 1) \in Seq(MessageWords)
        /\ SubSeq(text, i + 2, Len(text)) \in Seq(MessageWords)
        /\ Len(SubSeq(text, i + 2, Len(text))) = Len(text) - i - 1
        /\ text = (SubSeq(text, 1, i - 1) \o SubSeq(text, i, i + 1)) \o SubSeq(text, i + 2, Len(text))
    BY <1>1, CutsAround
  <2>3. Len(text) \in Nat /\ Len(text) - i - 1 < Len(text)
    BY <1>1
  <2> QED  BY <2>1, <2>2, <2>3
<1>4. hit.tag \in tags
  BY <1>2 DEF IsFirst, Hits
<1> DEFINE b == hit.before
           said == Says(p.state, hit.tag, b)
<1>5. b \in Seq(Outs) /\ said \in Seq(Outs)
  BY <1>1, <1>3, SaysWords
<1>6. DrainOnce(p) = Parser(AfterTag(p.state, hit.tag), hit.after, p.out \o said)
  <2>1. CASE p.state = "text"
    <3>1. DrainOnce(p) = InText(p) /\ tags = {ToolCallOpen, ScratchPadOpen}
      BY <2>1 DEF DrainOnce, TagsOf
    <3>2. said = b
      BY <2>1 DEF Says
    <3> HIDE DEF said, b, tags, text
    <3>3. Has(p.pending, {ToolCallOpen, ScratchPadOpen})
          /\ hit = FirstOf(p.pending, {ToolCallOpen, ScratchPadOpen})
      BY <3>1 DEF tags
    <3> QED  BY <2>1, <3>1, <3>2, <3>3 DEF InText, AfterTag, Parser, b
  <2>2. CASE p.state = "tool_call"
    <3>1. DrainOnce(p) = InToolCall(p) /\ tags = {ToolCallClose, ToolCallOpen}
      BY <2>2 DEF DrainOnce, TagsOf
    <3>2. /\ hit = FirstOf(p.pending, {ToolCallClose, ToolCallOpen})
          /\ Has(p.pending, {ToolCallClose, ToolCallOpen})
      BY <3>1
    <3>3. CASE hit.tag = ToolCallOpen
      <4>1. said = ToolCallOpen \o b
        BY <2>2, <3>3 DEF Says
      <4>2. (p.out \o ToolCallOpen) \o b = p.out \o (ToolCallOpen \o b)
        <5> HIDE DEF b
        <5>1. p.out \in Seq(Outs) /\ ToolCallOpen \in Seq(Outs) /\ b \in Seq(Outs)
          BY <1>1, <1>5, TagsAreWords
        <5>2. JoinsTo(p.out, ToolCallOpen, b)
          BY <5>1, Joined
        <5> QED  BY <5>2 DEF JoinsTo
      <4> DEFINE x == (p.out \o ToolCallOpen) \o b
      <4>3. InToolCall(p) = [p EXCEPT !.pending = hit.after, !.out = x]
        BY <3>2, <3>3 DEF InToolCall
      <4> HIDE DEF x, said, b
      <4>4. [p EXCEPT !.pending = hit.after, !.out = x] = Parser("tool_call", hit.after, x)
        <5>1. \A w, y : [p EXCEPT !.pending = w, !.out = y] = Parser(p.state, w, y)
          BY ParserFields
        <5> QED  BY <2>2, <5>1
      <4>5. AfterTag(p.state, hit.tag) = "tool_call"
        BY <3>3 DEF AfterTag
      <4>6. x = p.out \o said
        BY <4>1, <4>2 DEF x
      <4> QED  BY <3>1, <4>3, <4>4, <4>5, <4>6
    <3>4. CASE hit.tag # ToolCallOpen
      <4>1. said = IF ParsesAsCall(b) THEN <<EmittedCall>> ELSE (ToolCallOpen \o b) \o ToolCallClose
        BY <2>2, <3>4 DEF Says
      <4>2. InToolCall(p) = Parser("text", hit.after, p.out \o said)
        BY <3>2, <3>4, <4>1 DEF InToolCall, Parser
      <4>3. AfterTag(p.state, hit.tag) = "text"
        BY <2>2, <3>4 DEF AfterTag
      <4> QED  BY <3>1, <4>2, <4>3
    <3> QED  BY <3>3, <3>4
  <2>3. CASE p.state = "scratch_pad"
    <3>1. DrainOnce(p) = InScratchPad(p) /\ tags = {ScratchPadClose, ToolCallOpen}
      BY <2>3 DEF DrainOnce, TagsOf
    <3>2. /\ hit = FirstOf(p.pending, {ScratchPadClose, ToolCallOpen})
          /\ Has(p.pending, {ScratchPadClose, ToolCallOpen})
      BY <3>1
    <3> DEFINE z == AfterTag(p.state, hit.tag)
    <3>3. z = IF hit.tag = ToolCallOpen THEN "tool_call" ELSE "text"
      BY <2>3 DEF AfterTag
    <3> HIDE DEF z
    <3>4. InScratchPad(p) = [p EXCEPT !.state = z, !.pending = hit.after]
      BY <3>2, <3>3 DEF InScratchPad
    <3>5. [p EXCEPT !.state = z, !.pending = hit.after] = Parser(z, hit.after, p.out)
      <4>1. \A x, y : [p EXCEPT !.state = y, !.pending = x] = Parser(y, x, p.out)
        BY ParserFields
      <4> QED  BY <4>1
    <3>6. p.out \o said = p.out
      <4>1. said = <<>>
        BY <2>3 DEF Says
      <4> HIDE DEF said
      <4> QED  BY <1>1, <4>1, ConcatEmptySeq
    <3> HIDE DEF said
    <3> QED  BY <3>1, <3>4, <3>5, <3>6 DEF z
  <2> QED  BY <1>1, <2>1, <2>2, <2>3
<1> QED  BY <1>3, <1>4, <1>6

\* Where the text without a tag is cut.
Held(text) == Len(text) - PendingTagPrefixLength(text)

LEMMA HeldIs ==
  ASSUME NEW S, NEW text \in Seq(S)
  PROVE  /\ Held(text) \in 0..Len(text)
         /\ SubSeq(text, 1, Held(text)) \in Seq(S)
         /\ SubSeq(text, Held(text) + 1, Len(text)) \in Seq(S)
         /\ Len(SubSeq(text, 1, Held(text))) = Held(text)
         /\ Len(SubSeq(text, Held(text) + 1, Len(text))) = Len(text) - Held(text)
         /\ text = SubSeq(text, 1, Held(text)) \o SubSeq(text, Held(text) + 1, Len(text))
<1> DEFINE n == Len(text)
           h == Held(text)
<1>1. n \in Nat /\ (text # <<>> => n # 0) /\ \A k \in 1..n : text[k] \in S
  BY EmptySeq
<1>2. h \in 0..n
  BY <1>1 DEF Held, PendingTagPrefixLength
<1> HIDE DEF h, n
<1>3. SubSeq(text, 1, h) \in Seq(S) /\ Len(SubSeq(text, 1, h)) = h
  <2>1. h \in Int /\ \A k \in 1..h : text[k] \in S
    BY <1>1, <1>2
  <2> QED  BY <1>1, <1>2, <2>1, SubSeqProperties
<1>4. SubSeq(text, h + 1, n) \in Seq(S) /\ Len(SubSeq(text, h + 1, n)) = n - h
  <2>1. h + 1 \in Int /\ n \in Int /\ \A k \in (h + 1)..n : text[k] \in S
    BY <1>1, <1>2
  <2>2. /\ SubSeq(text, h + 1, n) \in Seq(S)
        /\ Len(SubSeq(text, h + 1, n)) = IF h + 1 <= n THEN (n - (h + 1)) + 1 ELSE 0
    BY <2>1, SubSeqProperties
  <2> QED  BY <1>1, <1>2, <2>2
<1>5. SubSeq(text, 1, h) \o SubSeq(text, h + 1, n) = SubSeq(text, 1, n)
  <2>1. 1 \in 1..(Len(text) + 1) /\ h \in 0..Len(text) /\ n \in h..Len(text)
    BY <1>1, <1>2 DEF n
  <2> QED  BY <2>1, ConcatAdjacentSubSeq
<1>6. SubSeq(text, 1, n) = text
  BY SubSeqFull DEF n
<1> QED  BY <1>2, <1>3, <1>4, <1>5, <1>6 DEF h, n

LEMMA TurnWithoutTag ==
  ASSUME NEW p \in Parsers, ~Has(p.pending, TagsOf(p.state))
  PROVE  /\ p.state # "text" => DrainOnce(p) = p
         /\ p.state = "text" =>
              DrainOnce(p) = Parser("text", SubSeq(p.pending, Held(p.pending) + 1, Len(p.pending)),
                                    p.out \o SubSeq(p.pending, 1, Held(p.pending)))
<1>1. p.state \in {"text", "tool_call", "scratch_pad"}
  BY ParserFields
<1>2. CASE p.state = "text"
  <2> DEFINE x == SubSeq(p.pending, Held(p.pending) + 1, Len(p.pending))
             y == p.out \o SubSeq(p.pending, 1, Held(p.pending))
  <2>1. DrainOnce(p) = InText(p) /\ ~Has(p.pending, {ToolCallOpen, ScratchPadOpen})
    BY <1>2 DEF DrainOnce, TagsOf
  <2>2. InText(p) = [p EXCEPT !.pending = x, !.out = y]
    BY <2>1 DEF InText, Held
  <2> HIDE DEF x, y
  <2>3. \A w, z : [p EXCEPT !.pending = w, !.out = z] = Parser(p.state, w, z)
    BY ParserFields
  <2>4. DrainOnce(p) = Parser("text", x, y)
    BY <1>2, <2>1, <2>2, <2>3
  <2> QED  BY <1>2, <2>4 DEF x, y
<1>3. CASE p.state = "tool_call"
  <2>1. DrainOnce(p) = InToolCall(p) /\ ~Has(p.pending, {ToolCallClose, ToolCallOpen})
    BY <1>3 DEF DrainOnce, TagsOf
  <2> QED  BY <1>3, <2>1 DEF InToolCall
<1>4. CASE p.state = "scratch_pad"
  <2>1. DrainOnce(p) = InScratchPad(p) /\ ~Has(p.pending, {ScratchPadClose, ToolCallOpen})
    BY <1>4 DEF DrainOnce, TagsOf
  <2> QED  BY <1>4, <2>1 DEF InScratchPad
<1> QED  BY <1>1, <1>2, <1>3, <1>4

\* A turn that changes anything classifies some of the text.
LEMMA TurnShrinks ==
  ASSUME NEW p \in Parsers
  PROVE  /\ DrainOnce(p) \in Parsers
         /\ DrainOnce(p) = p \/ Len(DrainOnce(p).pending) < Len(p.pending)
<1>1. /\ p.state \in {"text", "tool_call", "scratch_pad"} /\ p.pending \in Seq(MessageWords)
      /\ p.out \in Seq(Outs) /\ p = Parser(p.state, p.pending, p.out)
  BY ParserFields
<1>2. CASE Has(p.pending, TagsOf(p.state))
  <2> DEFINE hit == FirstOf(p.pending, TagsOf(p.state))
             a == AfterTag(p.state, hit.tag)
             y == p.out \o Says(p.state, hit.tag, hit.before)
  <2> HIDE DEF hit
  <2>1. /\ DrainOnce(p) = Parser(a, hit.after, y)
        /\ hit.before \in Seq(MessageWords) /\ hit.after \in Seq(MessageWords)
        /\ Len(hit.after) < Len(p.pending)
    BY <1>2, TurnAtTag DEF hit
  <2>2. a \in {"text", "tool_call", "scratch_pad"}
    BY DEF AfterTag
  <2>3. y \in Seq(Outs)
    <3> DEFINE z == Says(p.state, hit.tag, hit.before)
    <3>1. z \in Seq(Outs)
      BY <1>1, <2>1, SaysWords
    <3> HIDE DEF z
    <3>2. p.out \o z \in Seq(Outs)
      BY <1>1, <3>1, ConcatProperties
    <3> QED  BY <3>2 DEF z
  <2> HIDE DEF a, y
  <2>4. Parser(a, hit.after, y) \in Parsers /\ Parser(a, hit.after, y).pending = hit.after
    BY <2>1, <2>2, <2>3, ParserIs
  <2> QED  BY <2>1, <2>4
<1>3. CASE ~Has(p.pending, TagsOf(p.state)) /\ p.state = "text"
  <2> DEFINE s == SubSeq(p.pending, 1, Held(p.pending))
             t == SubSeq(p.pending, Held(p.pending) + 1, Len(p.pending))
             y == p.out \o s
  <2>1. DrainOnce(p) = Parser("text", t, y)
    BY <1>3, TurnWithoutTag
  <2>2. /\ Held(p.pending) \in 0..Len(p.pending) /\ s \in Seq(MessageWords) /\ t \in Seq(MessageWords)
        /\ Len(s) = Held(p.pending) /\ Len(t) = Len(p.pending) - Held(p.pending)
        /\ p.pending = s \o t
    BY <1>1, HeldIs
  <2> HIDE DEF s, t
  <2>3. s \in Seq(Outs) /\ y \in Seq(Outs)
    <3>1. s \in Seq(Outs)
      BY <2>2, TagsAreWords, SeqMonotonic
    <3> QED  BY <1>1, <3>1, ConcatProperties
  <2> HIDE DEF y
  <2>4. Parser("text", t, y) \in Parsers /\ Parser("text", t, y).pending = t
    BY <2>2, <2>3, ParserIs
  <2>5. CASE Held(p.pending) = 0
    <3>1. s = <<>>
      BY <2>2, <2>5, EmptySeq
    <3>2. p.pending = t /\ y = p.out
      BY <1>1, <2>2, <3>1, ConcatEmptySeq DEF y
    <3> QED  BY <1>1, <1>3, <2>1, <2>4, <3>2
  <2>6. CASE Held(p.pending) # 0
    <3>1. Len(p.pending) \in Nat
      BY <1>1
    <3>2. Len(t) < Len(p.pending)
      BY <2>2, <2>6, <3>1
    <3> QED  BY <2>1, <2>4, <3>2
  <2> QED  BY <2>5, <2>6
<1>4. CASE ~Has(p.pending, TagsOf(p.state)) /\ p.state # "text"
  BY <1>4, TurnWithoutTag
<1> QED  BY <1>2, <1>3, <1>4

LEMMA MoreIs ==
  ASSUME NEW p \in Parsers, NEW b \in Seq(MessageWords)
  PROVE  /\ More(p, b) = Parser(p.state, p.pending \o b, p.out)
         /\ p.pending \o b \in Seq(MessageWords) /\ More(p, b) \in Parsers
         /\ More(p, b).state = p.state /\ More(p, b).pending = p.pending \o b /\ More(p, b).out = p.out
<1>1. /\ p.state \in {"text", "tool_call", "scratch_pad"} /\ p.pending \in Seq(MessageWords)
      /\ p.out \in Seq(Outs)
  BY ParserFields
<1> DEFINE u == p.pending \o b
<1>2. u \in Seq(MessageWords)
  BY <1>1, ConcatProperties
<1>3. More(p, b) = [p EXCEPT !.pending = u]
  BY DEF More
<1> HIDE DEF u
<1>4. More(p, b) = Parser(p.state, u, p.out)
  BY <1>3, ParserFields
<1>5. /\ Parser(p.state, u, p.out) \in Parsers /\ Parser(p.state, u, p.out).state = p.state
      /\ Parser(p.state, u, p.out).pending = u /\ Parser(p.state, u, p.out).out = p.out
  BY <1>1, <1>2, ParserIs
<1>6. /\ More(p, b) = Parser(p.state, u, p.out) /\ u \in Seq(MessageWords) /\ More(p, b) \in Parsers
      /\ More(p, b).state = p.state /\ More(p, b).pending = u /\ More(p, b).out = p.out
  BY <1>2, <1>4, <1>5
<1> QED  BY <1>6 DEF u

LEMMA MoreOf ==
  ASSUME NEW a \in {"text", "tool_call", "scratch_pad"}, NEW t \in Seq(MessageWords), NEW o \in Seq(Outs),
         NEW b \in Seq(MessageWords)
  PROVE  More(Parser(a, t, o), b) = Parser(a, t \o b, o)
<1>1. /\ Parser(a, t, o) \in Parsers /\ Parser(a, t, o).state = a
      /\ Parser(a, t, o).pending = t /\ Parser(a, t, o).out = o
  BY ParserIs
<1> QED  BY <1>1, MoreIs

\* A text without a tag has none that begins before the cut, whatever follows.
LEMMA CutIsBeforeTags ==
  ASSUME NEW text \in Seq(MessageWords), NEW b \in Seq(MessageWords), b # <<>>,
         NEW tags, tags = {ToolCallOpen, ScratchPadOpen}, ~Has(text, tags),
         NEW j \in Hits(text \o b, tags)
  PROVE  ~(j <= Held(text))
<1> DEFINE n == Len(text)
           u == text \o b
           h == Held(text)
<1>1. /\ n \in Nat /\ Len(b) \in Nat /\ u \in Seq(MessageWords) /\ Len(u) = n + Len(b)
      /\ \A i \in 1..n : i <= n + Len(b) /\ u[i] = text[i]
  BY ConcatProperties
<1>2. j \in Nat /\ 1 <= j /\ j < Len(u) /\ SubSeq(u, j, j + 1) \in tags
  <2> HIDE DEF u
  <2>1. j \in Hits(u, tags)
    BY DEF u
  <2> QED  BY <1>1, <2>1, HitsAreCuts DEF Hits
<1>3. ~(j <= n - 1)
  <2> SUFFICES ASSUME j \in 1..(n - 1) PROVE FALSE
    BY <1>1, <1>2
  <2>1. j \in Hits(text, tags)
    BY HitsOfStart
  <2> QED  BY <2>1 DEF Has
<1>4. h \in 0..n
  BY HeldIs
<1>5. SUFFICES ASSUME j <= h PROVE FALSE
  OBVIOUS
<1>6. j = n /\ h = n /\ n # 0 /\ n \in 1..n
  <2> HIDE DEF h, n
  <2> QED  BY <1>1, <1>2, <1>3, <1>4, <1>5
<1>7. text[n] \in {"<"}
  <2> HIDE DEF u
  <2>1. SubSeq(u, j, j + 1)[1] = u[j]
    <3>1. \A i \in j..(j + 1) : u[i] \in MessageWords
      BY <1>1, <1>2
    <3>2. \A i \in 1..(((j + 1) - j) + 1) : SubSeq(u, j, j + 1)[i] = u[(j + i) - 1]
      BY <1>2, <3>1, SubSeqProperties
    <3>3. 1 \in 1..(((j + 1) - j) + 1) /\ (j + 1) - 1 = j
      BY <1>2
    <3> QED  BY <3>2, <3>3
  <2>2. \A tag \in tags : tag[1] = "<"
    BY DEF ToolCallOpen, ScratchPadOpen
  <2>3. u[j] = "<"
    BY <1>2, <2>1, <2>2
  <2> QED  BY <1>1, <1>6, <2>3
<1>8. text # <<>> /\ Last(text) = text[n]
  BY <1>6, EmptySeq DEF Last
<1>9. PendingTagPrefixLength(text) = 1
  BY <1>7, <1>8 DEF PendingTagPrefixLength, ToolCallOpen, ScratchPadOpen
<1> QED  BY <1>1, <1>6, <1>9 DEF Held

LEMMA TurnAtTagThenMore ==
  ASSUME NEW p \in Parsers, NEW b \in Seq(MessageWords), Has(p.pending, TagsOf(p.state))
  PROVE  DrainOnce(More(p, b)) = More(DrainOnce(p), b)
<1> DEFINE tags == TagsOf(p.state)
           q == More(p, b)
           hit == FirstOf(p.pending, tags)
           a == AfterTag(p.state, hit.tag)
           z == Says(p.state, hit.tag, hit.before)
           o == p.out \o z
           hit2 == FirstOf(q.pending, tags)
<1>1. /\ p.pending \in Seq(MessageWords) /\ p.out \in Seq(Outs)
      /\ p.state \in {"text", "tool_call", "scratch_pad"}
  BY ParserFields
<1>2. q \in Parsers /\ q.state = p.state /\ q.pending = p.pending \o b /\ q.out = p.out
  BY MoreIs
<1> HIDE DEF q, hit, hit2, tags
<1>3. /\ Has(q.pending, tags)
      /\ hit2 = [tag |-> hit.tag, before |-> hit.before, after |-> hit.after \o b]
  <2> DEFINE t == p.pending
  <2>1. t \in Seq(MessageWords) /\ Has(t, tags)
    BY <1>1 DEF tags
  <2> HIDE DEF t
  <2>2. /\ Has(t \o b, tags)
        /\ FirstOf(t \o b, tags) = [tag |-> FirstOf(t, tags).tag, before |-> FirstOf(t, tags).before,
                                    after |-> FirstOf(t, tags).after \o b]
    BY <2>1, FirstWithMore
  <2> QED  BY <1>2, <2>2 DEF hit, hit2, t
<1>4. /\ DrainOnce(p) = Parser(a, hit.after, o)
      /\ hit.after \in Seq(MessageWords) /\ hit.before \in Seq(MessageWords)
  BY TurnAtTag DEF hit, tags
<1>5. DrainOnce(q) = Parser(AfterTag(p.state, hit2.tag), hit2.after,
                            p.out \o Says(p.state, hit2.tag, hit2.before))
  <2>1. Has(q.pending, TagsOf(q.state)) /\ hit2 = FirstOf(q.pending, TagsOf(q.state))
    BY <1>2, <1>3 DEF hit2, tags
  <2>2. DrainOnce(q) = Parser(AfterTag(q.state, hit2.tag), hit2.after,
                              q.out \o Says(q.state, hit2.tag, hit2.before))
    BY <1>2, <2>1, TurnAtTag
  <2> QED  BY <1>2, <2>2
<1>6. hit2.tag = hit.tag /\ hit2.before = hit.before /\ hit2.after = hit.after \o b
  BY <1>3
<1>7. DrainOnce(q) = Parser(a, hit.after \o b, o)
  BY <1>5, <1>6
<1>8. a \in {"text", "tool_call", "scratch_pad"} /\ o \in Seq(Outs)
  <2>1. z \in Seq(Outs)
    BY <1>1, <1>4, SaysWords
  <2> HIDE DEF z
  <2>2. p.out \o z \in Seq(Outs)
    BY <1>1, <2>1, ConcatProperties
  <2> QED  BY <2>2 DEF AfterTag
<1> HIDE DEF a, o, z
<1>9. More(Parser(a, hit.after, o), b) = Parser(a, hit.after \o b, o)
  BY <1>4, <1>8, MoreOf
<1> QED  BY <1>4, <1>7, <1>9 DEF q

\* The turn that puts out text changes nothing but that it is out already.
LEMMA TurnOfTextThenMore ==
  ASSUME NEW p \in Parsers, NEW b \in Seq(MessageWords), b # <<>>,
         ~Has(p.pending, TagsOf(p.state)), p.state = "text"
  PROVE  DrainOnce(More(p, b)) = DrainOnce(More(DrainOnce(p), b))
<1> DEFINE tags == {ToolCallOpen, ScratchPadOpen}
           h == Held(p.pending)
           s == SubSeq(p.pending, 1, h)
           t == SubSeq(p.pending, h + 1, Len(p.pending))
           o == p.out \o s
           q == More(p, b)
           r == More(DrainOnce(p), b)
           u == p.pending \o b
           v == t \o b
<1>1. p.pending \in Seq(MessageWords) /\ p.out \in Seq(Outs) /\ TagsOf(p.state) = tags
  BY ParserFields DEF TagsOf
<1>2. /\ s \in Seq(MessageWords) /\ t \in Seq(MessageWords) /\ Len(s) = h /\ h \in Nat /\ p.pending = s \o t
  <2> DEFINE x == p.pending
  <2>1. x \in Seq(MessageWords)
    BY <1>1
  <2> HIDE DEF x
  <2>2. /\ Held(x) \in 0..Len(x)
        /\ SubSeq(x, 1, Held(x)) \in Seq(MessageWords)
        /\ SubSeq(x, Held(x) + 1, Len(x)) \in Seq(MessageWords)
        /\ Len(SubSeq(x, 1, Held(x))) = Held(x)
        /\ Len(SubSeq(x, Held(x) + 1, Len(x))) = Len(x) - Held(x)
        /\ x = SubSeq(x, 1, Held(x)) \o SubSeq(x, Held(x) + 1, Len(x))
    BY <2>1, HeldIs
  <2>3. Held(x) \in Nat
    BY <2>1, <2>2
  <2> QED  BY <2>2, <2>3 DEF x
<1>3. DrainOnce(p) = Parser("text", t, o)
  BY TurnWithoutTag
<1>4. q \in Parsers /\ q.state = "text" /\ q.pending = u /\ q.out = p.out
  BY MoreIs
<1>5. \A j \in Hits(u, tags) : ~(j <= h)
  <2>1. ~Has(p.pending, tags)
    BY <1>1
  <2> QED  BY <1>1, <2>1, CutIsBeforeTags
<1> HIDE DEF s, t, h, q, r
<1>6. s \in Seq(Outs) /\ o \in Seq(Outs) /\ v \in Seq(MessageWords) /\ u = s \o v
  <2>1. s \in Seq(Outs)
    BY <1>2, TagsAreWords, SeqMonotonic
  <2>2. o \in Seq(Outs)
    BY <1>1, <2>1, ConcatProperties
  <2>3. JoinsTo(s, t, b)
    BY <1>2, Joined
  <2>4. v \in Seq(MessageWords)
    BY <1>2, ConcatProperties
  <2> QED  BY <1>2, <2>1, <2>2, <2>3, <2>4 DEF JoinsTo
<1> HIDE DEF o
<1>7. r \in Parsers /\ r.state = "text" /\ r.pending = v /\ r.out = o
  <2>0. "text" \in {"text", "tool_call", "scratch_pad"}
    OBVIOUS
  <2>1. More(Parser("text", t, o), b) = Parser("text", v, o)
    BY <1>2, <1>6, <2>0, MoreOf
  <2> HIDE DEF v
  <2>2. /\ Parser("text", v, o) \in Parsers /\ Parser("text", v, o).state = "text"
        /\ Parser("text", v, o).pending = v /\ Parser("text", v, o).out = o
    BY <1>6, <2>0, ParserIs
  <2> QED  BY <1>3, <2>1, <2>2 DEF r
<1> HIDE DEF u, v
<1>8. /\ Has(u, tags) <=> Has(v, tags)
      /\ Has(v, tags) =>
           FirstOf(u, tags) = [tag |-> FirstOf(v, tags).tag, before |-> s \o FirstOf(v, tags).before,
                               after |-> FirstOf(v, tags).after]
  <2> HIDE DEF tags
  <2>1. \A j \in Hits(s \o v, tags) : ~(j <= Len(s))
    BY <1>2, <1>5, <1>6
  <2>2. /\ Has(s \o v, tags) <=> Has(v, tags)
        /\ Has(v, tags) =>
             FirstOf(s \o v, tags) = [tag |-> FirstOf(v, tags).tag,
                                      before |-> s \o FirstOf(v, tags).before,
                                      after |-> FirstOf(v, tags).after]
    BY <1>2, <1>6, <2>1, FirstBehind
  <2> QED  BY <1>6, <2>2
<1>9. TagsOf("text") = tags
  BY DEF TagsOf
<1> HIDE DEF tags
<1>10. CASE Has(v, tags)
  <2> DEFINE hit == FirstOf(v, tags)
             hit2 == FirstOf(u, tags)
  <2>1. hit2 = [tag |-> hit.tag, before |-> s \o hit.before, after |-> hit.after]
    BY <1>8, <1>10
  <2>2. /\ DrainOnce(r) = Parser(AfterTag("text", hit.tag), hit.after,
                                 o \o Says("text", hit.tag, hit.before))
        /\ hit.before \in Seq(MessageWords)
    BY <1>7, <1>9, <1>10, TurnAtTag
  <2>3. DrainOnce(q) = Parser(AfterTag("text", hit2.tag), hit2.after,
                              p.out \o Says("text", hit2.tag, hit2.before))
    <3> HIDE DEF hit2
    <3>1. Has(q.pending, TagsOf(q.state)) /\ hit2 = FirstOf(q.pending, TagsOf(q.state))
      BY <1>4, <1>8, <1>9, <1>10 DEF hit2
    <3>2. DrainOnce(q) = Parser(AfterTag(q.state, hit2.tag), hit2.after,
                                q.out \o Says(q.state, hit2.tag, hit2.before))
      BY <1>4, <3>1, TurnAtTag
    <3> QED  BY <1>4, <3>2
  <2> HIDE DEF hit, hit2
  <2>4. hit2.tag = hit.tag /\ hit2.before = s \o hit.before /\ hit2.after = hit.after
    BY <2>1
  <2>5. \A tag, before : Says("text", tag, before) = before
    BY DEF Says
  <2>6. p.out \o (s \o hit.before) = o \o hit.before
    <3>1. hit.before \in Seq(Outs)
      BY <2>2, TagsAreWords, SeqMonotonic
    <3>2. JoinsTo(p.out, s, hit.before)
      BY <1>1, <1>6, <3>1, Joined
    <3> QED  BY <3>2 DEF JoinsTo, o
  <2>7. DrainOnce(q) = DrainOnce(r)
    BY <2>2, <2>3, <2>4, <2>5, <2>6
  <2> QED  BY <2>7 DEF q, r
<1>11. CASE ~Has(v, tags)
  <2>1. DrainOnce(q) = Parser("text", SubSeq(u, Held(u) + 1, Len(u)),
                              p.out \o SubSeq(u, 1, Held(u)))
    BY <1>4, <1>8, <1>9, <1>11, TurnWithoutTag
  <2>2. DrainOnce(r) = Parser("text", SubSeq(v, Held(v) + 1, Len(v)), o \o SubSeq(v, 1, Held(v)))
    BY <1>7, <1>9, <1>11, TurnWithoutTag
  <2>3. /\ Held(v) \in 0..Len(v) /\ SubSeq(v, 1, Held(v)) \in Seq(MessageWords) /\ Len(v) \in Nat
        /\ Held(u) \in 0..Len(u)
    <3>1. u \in Seq(MessageWords)
      BY <1>4, ParserFields
    <3>2. /\ Held(v) \in 0..Len(v)
          /\ SubSeq(v, 1, Held(v)) \in Seq(MessageWords)
          /\ SubSeq(v, Held(v) + 1, Len(v)) \in Seq(MessageWords)
      BY <1>6, HeldIs
    <3>3. /\ Held(u) \in 0..Len(u)
          /\ SubSeq(u, 1, Held(u)) \in Seq(MessageWords)
          /\ SubSeq(u, Held(u) + 1, Len(u)) \in Seq(MessageWords)
      BY <3>1, HeldIs
    <3> QED  BY <1>6, <3>2, <3>3
  <2>4. Len(u) = h + Len(v) /\ Len(v) # 0 /\ \A i \in 1..Len(v) : u[h + i] = v[i]
    <3>1. Len(b) # 0 /\ Len(b) \in Nat /\ Len(t) \in Nat /\ Len(v) = Len(t) + Len(b)
      BY <1>2, EmptySeq, ConcatProperties DEF v
    <3>2. /\ Len(u) = Len(s) + Len(v)
          /\ \A i \in 1..(Len(s) + Len(v)) : u[i] = IF i <= Len(s) THEN s[i] ELSE v[i - Len(s)]
      BY <1>2, <1>6, ConcatProperties
    <3>3. ASSUME NEW i \in 1..Len(v)
          PROVE  u[h + i] = v[i]
      <4>1. h + i \in 1..(Len(s) + Len(v)) /\ ~(h + i <= Len(s)) /\ (h + i) - Len(s) = i
        BY <1>2, <2>3
      <4> QED  BY <3>2, <4>1
    <3> QED  BY <1>2, <2>3, <3>1, <3>2, <3>3
  <2>5. Held(u) = h + Held(v)
    <3>1. Last(u) = Last(v) /\ u # <<>> /\ v # <<>>
      <4>1. Len(v) \in 1..Len(v) /\ Len(u) # 0
        BY <1>2, <2>3, <2>4
      <4>2. u # <<>> /\ v # <<>>
        BY <2>4, <4>1, EmptySeq
      <4> QED  BY <2>4, <4>1, <4>2 DEF Last
    <3>2. PendingTagPrefixLength(u) = PendingTagPrefixLength(v) /\ PendingTagPrefixLength(v) \in Nat
      BY <3>1 DEF PendingTagPrefixLength
    <3> QED  BY <1>2, <2>3, <2>4, <3>2 DEF Held
  <2> DEFINE k == Held(v)
  <2> HIDE DEF k
  <2>6. SubSeq(u, 1, h + k) = s \o SubSeq(v, 1, k)
    <3>1. k \in 0..Len(v)
      BY <2>3 DEF k
    <3>2. SubSeq(s \o v, 1, Len(s) + k) = s \o SubSeq(v, 1, k)
      BY <1>2, <1>6, <3>1, StartOfBoth
    <3> QED  BY <1>2, <1>6, <3>2
  <2>7. SubSeq(u, (h + k) + 1, Len(u)) = SubSeq(v, k + 1, Len(v))
    <3> DEFINE l == k + 1
    <3>1. l \in 1..(Len(v) + 1) /\ h + l = (h + k) + 1
      BY <1>2, <2>3 DEF k
    <3> HIDE DEF l
    <3>2. SubSeq(s \o v, Len(s) + l, Len(s \o v)) = SubSeq(v, l, Len(v))
      BY <1>2, <1>6, <3>1, EndOfBoth
    <3>3. SubSeq(u, h + l, Len(u)) = SubSeq(v, l, Len(v))
      BY <1>2, <1>6, <3>2
    <3> QED  BY <3>1, <3>3 DEF l
  <2>8. p.out \o (s \o SubSeq(v, 1, k)) = o \o SubSeq(v, 1, k)
    <3> DEFINE w == SubSeq(v, 1, k)
    <3>1. w \in Seq(Outs)
      BY <2>3, TagsAreWords, SeqMonotonic DEF k
    <3> HIDE DEF w
    <3>2. JoinsTo(p.out, s, w)
      BY <1>1, <1>6, <3>1, Joined
    <3>3. p.out \o (s \o w) = o \o w
      BY <3>2 DEF JoinsTo, o
    <3> QED  BY <3>3 DEF w
  <2>9. DrainOnce(q) = DrainOnce(r)
    BY <2>1, <2>2, <2>5, <2>6, <2>7, <2>8 DEF k
  <2> QED  BY <2>9 DEF q, r
<1> QED  BY <1>10, <1>11

\* How much is pending is a number.
LEMMA PendingIsCounted == \A p \in Parsers : Len(p.pending) \in Nat
<1>1. \A w \in Seq(MessageWords) : Len(w) \in Nat
  OBVIOUS
<1> QED  BY <1>1, PendingIsCounted

\* Turn after turn.
TurnByTurn(f, p, n) == f = [k \in 0..n |-> IF k = 0 THEN p ELSE DrainOnce(f[k - 1])]

LEMMA TurnsExist ==
  ASSUME NEW p, NEW n \in Nat
  PROVE  \E f : TurnByTurn(f, p, n)
<1> DEFINE T == {m \in Nat : \E f : TurnByTurn(f, p, m)}
<1>1. 0 \in T
  <2>1. TurnByTurn([k \in 0..0 |-> p], p, 0)
    BY DEF TurnByTurn
  <2> QED  BY <2>1
<1>2. ASSUME NEW m \in Nat, m \in T
      PROVE  m + 1 \in T
  <2>1. PICK f : TurnByTurn(f, p, m)
    BY <1>2
  <2> DEFINE g == [k \in 0..(m + 1) |-> IF k = m + 1 THEN DrainOnce(f[m]) ELSE f[k]]
  <2>2. \A k \in 0..(m + 1) : g[k] = IF k = 0 THEN p ELSE DrainOnce(g[k - 1])
    <3> TAKE k \in 0..(m + 1)
    <3>1. CASE k = 0
      <4>1. 0 \in 0..m /\ 0 # m + 1 /\ 0 \in 0..(m + 1)
        OBVIOUS
      <4> QED  BY <2>1, <3>1, <4>1 DEF TurnByTurn
    <3>2. CASE k = m + 1
      <4>1. k - 1 = m /\ m \in 0..(m + 1) /\ m # m + 1 /\ k # 0
        BY <3>2
      <4> QED  BY <3>2, <4>1
    <3>3. CASE k # 0 /\ k # m + 1
      <4>1. k \in 0..m /\ k - 1 \in 0..(m + 1) /\ k - 1 # m + 1
        BY <3>3
      <4>2. f[k] = DrainOnce(f[k - 1])
        BY <2>1, <3>3, <4>1 DEF TurnByTurn
      <4> QED  BY <3>3, <4>1, <4>2
    <3> QED  BY <3>1, <3>2, <3>3
  <2>3. g = [k \in 0..(m + 1) |-> g[k]]
    OBVIOUS
  <2> HIDE DEF g
  <2>4. TurnByTurn(g, p, m + 1)
    BY <2>2, <2>3 DEF TurnByTurn
  <2> QED  BY <2>4
<1> HIDE DEF T
<1>3. \A m \in Nat : m \in T
  BY <1>1, <1>2, AllNumbers
<1> QED  BY <1>3 DEF T

LEMMA TurnsAre ==
  ASSUME NEW p, NEW n \in Nat
  PROVE  \E f : TurnByTurn(f, p, n) /\ Turns(p, n) = f[n]
<1>1. PICK f : f = (CHOOSE h : TurnByTurn(h, p, n)) /\ Turns(p, n) = f[n]
  BY DEF Turns, TurnByTurn
<1>2. TurnByTurn(f, p, n)
  BY <1>1, TurnsExist
<1> QED  BY <1>1, <1>2

LEMMA TurnsAgree ==
  ASSUME NEW p, NEW n \in Nat, NEW m \in Nat, NEW f, NEW g,
         TurnByTurn(f, p, n), TurnByTurn(g, p, m), NEW k \in Nat, k <= n, k <= m
  PROVE  f[k] = g[k]
<1> DEFINE T == {j \in Nat : j <= n /\ j <= m => f[j] = g[j]}
<1>1. 0 \in T
  <2>1. 0 \in 0..n /\ 0 \in 0..m
    OBVIOUS
  <2>2. f[0] = p /\ g[0] = p
    BY <2>1, Zenon DEF TurnByTurn
  <2> QED  BY <2>2
<1>2. ASSUME NEW j \in Nat, j \in T
      PROVE  j + 1 \in T
  <2> SUFFICES ASSUME j + 1 <= n, j + 1 <= m PROVE f[j + 1] = g[j + 1]
    OBVIOUS
  <2>1. j + 1 \in 0..n /\ j + 1 \in 0..m /\ j + 1 # 0 /\ (j + 1) - 1 = j /\ j <= n /\ j <= m
    OBVIOUS
  <2>2. f[j + 1] = DrainOnce(f[(j + 1) - 1]) /\ g[j + 1] = DrainOnce(g[(j + 1) - 1])
    BY <2>1, Zenon DEF TurnByTurn
  <2> QED  BY <1>2, <2>1, <2>2
<1> HIDE DEF T
<1>3. \A j \in Nat : j \in T
  BY <1>1, <1>2, AllNumbers
<1> QED  BY <1>3 DEF T

LEMMA OneTurnMore ==
  ASSUME NEW p, NEW n \in Nat
  PROVE  Turns(p, 0) = p /\ Turns(p, n + 1) = DrainOnce(Turns(p, n))
<1>1. PICK f : TurnByTurn(f, p, 0) /\ Turns(p, 0) = f[0]
  BY TurnsAre
<1>2. PICK g : TurnByTurn(g, p, n) /\ Turns(p, n) = g[n]
  BY TurnsAre
<1>3. PICK h : TurnByTurn(h, p, n + 1) /\ Turns(p, n + 1) = h[n + 1]
  <2>1. n + 1 \in Nat
    OBVIOUS
  <2> QED  BY <2>1, TurnsAre
<1>4. f[0] = p
  <2>1. 0 \in 0..0
    OBVIOUS
  <2> QED  BY <1>1, <2>1, Zenon DEF TurnByTurn
<1>5. h[n + 1] = DrainOnce(h[n])
  <2>1. n + 1 \in 0..(n + 1) /\ n + 1 # 0 /\ (n + 1) - 1 = n
    OBVIOUS
  <2>2. h[n + 1] = DrainOnce(h[(n + 1) - 1])
    BY <1>3, <2>1, Zenon DEF TurnByTurn
  <2> QED  BY <2>1, <2>2
<1>6. h[n] = g[n]
  <2>1. n <= n /\ n <= n + 1 /\ n + 1 \in Nat
    OBVIOUS
  <2> QED  BY <1>2, <1>3, <2>1, TurnsAgree
<1> QED  BY <1>1, <1>2, <1>3, <1>4, <1>5, <1>6

LEMMA TurnsStay ==
  ASSUME NEW p \in Parsers
  PROVE  \A n \in Nat : Turns(p, n) \in Parsers
<1> DEFINE T == {n \in Nat : Turns(p, n) \in Parsers}
<1>1. 0 \in T
  <2>1. 0 \in Nat /\ Turns(p, 0) = p
    BY OneTurnMore
  <2> QED  BY <2>1
<1>2. ASSUME NEW n \in Nat, n \in T
      PROVE  n + 1 \in T
  <2>1. Turns(p, n + 1) = DrainOnce(Turns(p, n))
    BY OneTurnMore
  <2>2. DrainOnce(Turns(p, n)) \in Parsers
    BY <1>2, TurnShrinks
  <2> QED  BY <2>1, <2>2
<1> HIDE DEF T
<1>3. \A n \in Nat : n \in T
  BY <1>1, <1>2, AllNumbers
<1> QED  BY <1>3 DEF T

LEMMA FirstTurnThenMore ==
  ASSUME NEW p
  PROVE  \A n \in Nat : Turns(DrainOnce(p), n) = Turns(p, n + 1)
<1> DEFINE q == DrainOnce(p)
           T == {n \in Nat : Turns(q, n) = Turns(p, n + 1)}
<1>1. 0 \in T
  <2>1. 0 \in Nat /\ 0 + 1 = 1 /\ Turns(q, 0) = q
    BY OneTurnMore
  <2>2. Turns(p, 0 + 1) = DrainOnce(Turns(p, 0)) /\ Turns(p, 0) = p
    BY OneTurnMore
  <2> QED  BY <2>1, <2>2
<1> HIDE DEF q
<1>2. ASSUME NEW n \in Nat, n \in T
      PROVE  n + 1 \in T
  <2>1. Turns(q, n + 1) = DrainOnce(Turns(q, n))
    BY OneTurnMore
  <2>2. Turns(p, (n + 1) + 1) = DrainOnce(Turns(p, n + 1))
    <3>1. n + 1 \in Nat
      OBVIOUS
    <3> QED  BY <3>1, OneTurnMore
  <2>3. n + 1 \in Nat
    OBVIOUS
  <2> QED  BY <1>2, <2>1, <2>2, <2>3
<1> HIDE DEF T
<1>3. \A n \in Nat : n \in T
  BY <1>1, <1>2, AllNumbers
<1> QED  BY <1>3 DEF T, q

\* After as many turns as there are words another one changes nothing.
Settled(p) == DrainOnce(p) = p

LEMMA SettledStays ==
  ASSUME NEW p, NEW m \in Nat, Settled(Turns(p, m))
  PROVE  \A n \in Nat : Turns(p, m + n) = Turns(p, m)
<1> DEFINE T == {n \in Nat : Turns(p, m + n) = Turns(p, m)}
<1>1. 0 \in T
  OBVIOUS
<1>2. ASSUME NEW n \in Nat, n \in T
      PROVE  n + 1 \in T
  <2>1. m + n \in Nat /\ m + (n + 1) = (m + n) + 1 /\ n + 1 \in Nat
    OBVIOUS
  <2>2. Turns(p, (m + n) + 1) = DrainOnce(Turns(p, m + n))
    BY <2>1, OneTurnMore
  <2> QED  BY <1>2, <2>1, <2>2 DEF Settled
<1> HIDE DEF T
<1>3. \A n \in Nat : n \in T
  BY <1>1, <1>2, AllNumbers
<1> QED  BY <1>3 DEF T

LEMMA TurnsSettle ==
  ASSUME NEW p \in Parsers
  PROVE  \A n \in Nat : Settled(Turns(p, n)) \/ Len(Turns(p, n).pending) + n <= Len(p.pending)
<1> DEFINE Shorter(n) == Len(Turns(p, n).pending) + n <= Len(p.pending)
           T == {n \in Nat : Settled(Turns(p, n)) \/ Shorter(n)}
<1>0. Len(p.pending) \in Nat /\ \A n \in Nat : Turns(p, n) \in Parsers
  BY TurnsStay, PendingIsCounted
<1>1. 0 \in T
  <2>1. 0 \in Nat /\ Turns(p, 0) = p
    BY OneTurnMore
  <2> QED  BY <1>0, <2>1
<1>2. ASSUME NEW n \in Nat, n \in T
      PROVE  n + 1 \in T
  <2> DEFINE q == Turns(p, n)
             r == Turns(p, n + 1)
  <2>1. r = DrainOnce(q) /\ n + 1 \in Nat
    BY OneTurnMore
  <2>2. q \in Parsers /\ r \in Parsers
    BY <1>0, <2>1
  <2>3. Len(q.pending) \in Nat /\ Len(r.pending) \in Nat
    BY <2>2, PendingIsCounted
  <2> HIDE DEF q, r
  <2>4. CASE Settled(q)
    <3>1. Settled(r)
      BY <2>1, <2>4 DEF Settled
    <3> QED  BY <2>1, <3>1 DEF r
  <2>5. CASE ~Settled(q)
    <3>1. Len(r.pending) < Len(q.pending)
      BY <2>1, <2>2, <2>5, TurnShrinks DEF Settled
    <3>2. Len(q.pending) + n <= Len(p.pending)
      BY <1>2, <2>5 DEF q
    <3>3. Len(r.pending) + (n + 1) <= Len(p.pending)
      <4> DEFINE i == Len(r.pending)
                 j == Len(q.pending)
                 k == Len(p.pending)
      <4>1. i \in Nat /\ j \in Nat /\ k \in Nat /\ i < j /\ j + n <= k
        BY <1>0, <2>3, <3>1, <3>2
      <4> HIDE DEF i, j, k
      <4>2. i + (n + 1) <= k
        BY <4>1
      <4> QED  BY <4>2 DEF i, k
    <3> QED  BY <2>1, <3>3 DEF r
  <2> QED  BY <2>4, <2>5
<1> HIDE DEF T
<1>3. \A n \in Nat : n \in T
  BY <1>1, <1>2, AllNumbers
<1> QED  BY <1>3 DEF T

LEMMA DrainSettles ==
  ASSUME NEW p \in Parsers
  PROVE  Drain(p) \in Parsers /\ Settled(Drain(p))
<1> DEFINE n == Len(p.pending)
           q == Turns(p, n)
<1>1. n \in Nat
  BY PendingIsCounted
<1>2. q \in Parsers
  BY <1>1, TurnsStay
<1>3. Settled(q) \/ Len(q.pending) + n <= n
  BY <1>1, TurnsSettle
<1>4. Len(q.pending) \in Nat
  BY <1>2, PendingIsCounted
<1> HIDE DEF n, q
<1>5. Settled(q)
  <2> SUFFICES ASSUME ~Settled(q) PROVE FALSE
    OBVIOUS
  <2>1. Len(q.pending) = 0
    BY <1>1, <1>3, <1>4
  <2>2. DrainOnce(q) \in Parsers /\ Len(DrainOnce(q).pending) < Len(q.pending)
    BY <1>2, TurnShrinks DEF Settled
  <2>3. Len(DrainOnce(q).pending) \in Nat
    BY <2>2, PendingIsCounted
  <2> QED  BY <2>1, <2>2, <2>3
<1> QED  BY <1>2, <1>5 DEF Drain, q, n

LEMMA DrainOfATurn ==
  ASSUME NEW p \in Parsers
  PROVE  Drain(DrainOnce(p)) = Drain(p)
<1> DEFINE q == DrainOnce(p)
           m == Len(q.pending)
           n == Len(p.pending)
<1>1. q \in Parsers /\ (q = p \/ m < n)
  BY TurnShrinks
<1> HIDE DEF q
<1>2. m \in Nat /\ n \in Nat
  BY <1>1, PendingIsCounted
<1> HIDE DEF m, n
<1>3. CASE q = p
  BY <1>3 DEF q
<1>4. CASE q # p
  <2>1. Drain(q) = Turns(p, m + 1)
    <3>1. Turns(q, m) = Turns(p, m + 1)
      BY <1>2, FirstTurnThenMore DEF q
    <3> QED  BY <3>1 DEF Drain, m
  <2>2. Settled(Turns(p, m + 1)) /\ m + 1 \in Nat
    BY <1>1, <1>2, <2>1, DrainSettles
  <2>3. n - (m + 1) \in Nat /\ (m + 1) + (n - (m + 1)) = n
    BY <1>1, <1>2, <1>4
  <2>4. Turns(p, (m + 1) + (n - (m + 1))) = Turns(p, m + 1)
    BY <2>2, <2>3, SettledStays
  <2>5. Drain(p) = Turns(p, n)
    BY DEF Drain, n
  <2> QED  BY <2>1, <2>3, <2>4, <2>5 DEF q
<1> QED  BY <1>3, <1>4

\* What is still to come may be read before or after a turn, and so before or
\* after all of them.
LEMMA TurnThenMore ==
  ASSUME NEW p \in Parsers, NEW b \in Seq(MessageWords), b # <<>>
  PROVE  Drain(More(DrainOnce(p), b)) = Drain(More(p, b))
<1>1. DrainOnce(p) \in Parsers
  BY TurnShrinks
<1>2. More(p, b) \in Parsers /\ More(DrainOnce(p), b) \in Parsers
  BY <1>1, MoreIs
<1>3. /\ Drain(DrainOnce(More(p, b))) = Drain(More(p, b))
      /\ Drain(DrainOnce(More(DrainOnce(p), b))) = Drain(More(DrainOnce(p), b))
  BY <1>2, DrainOfATurn
<1>4. CASE Has(p.pending, TagsOf(p.state))
  <2>1. DrainOnce(More(p, b)) = More(DrainOnce(p), b)
    BY <1>4, TurnAtTagThenMore
  <2> QED  BY <1>3, <2>1
<1>5. CASE ~Has(p.pending, TagsOf(p.state)) /\ p.state = "text"
  <2>1. DrainOnce(More(p, b)) = DrainOnce(More(DrainOnce(p), b))
    BY <1>5, TurnOfTextThenMore
  <2> QED  BY <1>3, <2>1
<1>6. CASE ~Has(p.pending, TagsOf(p.state)) /\ p.state # "text"
  <2>1. DrainOnce(p) = p
    BY <1>6, TurnWithoutTag
  <2> QED  BY <2>1
<1> QED  BY <1>4, <1>5, <1>6

LEMMA DrainThenMore ==
  ASSUME NEW p \in Parsers, NEW b \in Seq(MessageWords), b # <<>>
  PROVE  Drain(More(Drain(p), b)) = Drain(More(p, b))
<1> DEFINE T == {n \in Nat : Drain(More(Turns(p, n), b)) = Drain(More(p, b))}
<1>1. 0 \in T
  <2>1. 0 \in Nat /\ Turns(p, 0) = p
    BY OneTurnMore
  <2> QED  BY <2>1
<1>2. ASSUME NEW n \in Nat, n \in T
      PROVE  n + 1 \in T
  <2>1. Turns(p, n + 1) = DrainOnce(Turns(p, n)) /\ Turns(p, n) \in Parsers
    BY OneTurnMore, TurnsStay
  <2>2. Drain(More(DrainOnce(Turns(p, n)), b)) = Drain(More(Turns(p, n), b))
    BY <2>1, TurnThenMore
  <2> QED  BY <1>2, <2>1, <2>2
<1> HIDE DEF T
<1>3. \A n \in Nat : n \in T
  BY <1>1, <1>2, AllNumbers
<1>4. Len(p.pending) \in Nat
  BY PendingIsCounted
<1> QED  BY <1>3, <1>4 DEF T, Drain

\* What is read in two chunks is what is read in one.
LEMMA PushIs ==
  ASSUME NEW p \in Parsers, NEW b \in Seq(MessageWords)
  PROVE  Push(p, b) = Drain(More(p, b)) /\ Push(p, b) \in Parsers /\ Settled(Push(p, b))
<1>1. Push(p, b) = Drain(More(p, b))
  BY DEF Push, More
<1>2. More(p, b) \in Parsers
  BY MoreIs
<1> QED  BY <1>1, <1>2, DrainSettles

LEMMA PushTwice ==
  ASSUME NEW p \in Parsers, NEW a \in Seq(MessageWords), NEW b \in Seq(MessageWords), b # <<>>
  PROVE  Push(Push(p, a), b) = Push(p, a \o b)
<1> DEFINE q == More(p, a)
<1>1. /\ q \in Parsers /\ q.state = p.state /\ q.pending = p.pending \o a /\ q.out = p.out
      /\ Push(p, a) = Drain(q) /\ Push(p, a) \in Parsers
  BY MoreIs, PushIs
<1> HIDE DEF q
<1>2. Push(Push(p, a), b) = Drain(More(q, b))
  <2>1. Push(Push(p, a), b) = Drain(More(Drain(q), b))
    BY <1>1, PushIs
  <2> QED  BY <1>1, <2>1, DrainThenMore
<1>3. a \o b \in Seq(MessageWords)
  BY ConcatProperties
<1>4. More(q, b) = More(p, a \o b)
  <2>1. More(q, b) = Parser(q.state, q.pending \o b, q.out)
    BY <1>1, MoreIs
  <2>2. More(p, a \o b) = Parser(p.state, p.pending \o (a \o b), p.out)
    BY <1>3, MoreIs
  <2>3. JoinsTo(p.pending, a, b)
    BY ParserFields, Joined
  <2> QED  BY <1>1, <2>1, <2>2, <2>3 DEF JoinsTo
<1>5. Push(p, a \o b) = Drain(More(p, a \o b))
  BY <1>3, PushIs
<1> QED  BY <1>2, <1>4, <1>5

-----------------------------------------------------------------------------
(* What is put out, with the calls written back, is the message but for its  *)
(* scratch pads.                                                             *)

Texts == MessageWords \cup {"call"}

LEMMA TextsAreTexts ==
  /\ MessageWords \subseteq Texts
  /\ ToolCallOpen \in Seq(Texts) /\ ToolCallClose \in Seq(Texts)
  /\ <<"call">> \in Seq(Texts) /\ Unparsed(EmittedCall) \in Seq(Texts)
  /\ Unparsed(EmittedCall) = (ToolCallOpen \o <<"call">>) \o ToolCallClose
<1>1. MessageWords \subseteq Texts /\ <<"call">> \in Seq(Texts)
  BY DEF Texts
<1>2. ToolCallOpen \in Seq(Texts) /\ ToolCallClose \in Seq(Texts)
  BY <1>1, TagsAreWords, SeqMonotonic
<1>3. Unparsed(EmittedCall) = (ToolCallOpen \o <<"call">>) \o ToolCallClose
  BY DEF Unparsed
<1>4. (ToolCallOpen \o <<"call">>) \o ToolCallClose \in Seq(Texts)
  BY <1>1, <1>2, ConcatProperties
<1> QED  BY <1>1, <1>2, <1>3, <1>4

\* No word of a message is a call.
LEMMA WordsAreNoCalls ==
  ASSUME NEW w \in MessageWords
  PROVE  w # EmittedCall /\ Unparsed(w) = <<w>> /\ w \in Texts /\ w \in Outs
<1>1. w # EmittedCall
  BY ReplyAssumption DEF MessageWords, EmittedCall
<1> QED  BY <1>1 DEF Unparsed, Texts, Outs

LEMMA UnparsedIs ==
  ASSUME NEW o \in Outs
  PROVE  Unparsed(o) \in Seq(Texts)
<1>1. CASE o = EmittedCall
  BY <1>1, TextsAreTexts
<1>2. CASE o \in MessageWords
  <2>1. Unparsed(o) = <<o>> /\ o \in Texts
    BY <1>2, WordsAreNoCalls
  <2> QED  BY <2>1
<1> QED  BY <1>1, <1>2 DEF Outs

LEMMA RenderedAppends ==
  ASSUME NEW out \in Seq(Outs), NEW o \in Outs
  PROVE  Rendered(Append(out, o)) = Rendered(out) \o Unparsed(o)
<1> DEFINE n == Len(out)
           a == Append(out, o)
           f == [i \in DOMAIN out |-> Unparsed(out[i])]
           g == [i \in DOMAIN a |-> Unparsed(a[i])]
           x == Unparsed(o)
<1>1. /\ n \in Nat /\ a \in Seq(Outs) /\ Len(a) = n + 1
      /\ (\A k \in 1..n : a[k] = out[k]) /\ a[n + 1] = o
  BY AppendProperties
<1>2. DOMAIN out = 1..n /\ DOMAIN a = 1..(n + 1)
  <2> HIDE DEF a
  <2> QED  BY <1>1
<1>3. x \in Seq(Texts) /\ \A k \in 1..n : f[k] \in Seq(Texts)
  BY <1>2, UnparsedIs
<1> HIDE DEF a, n
<1>4. f = [i \in 1..n |-> Unparsed(out[i])] /\ g = [i \in 1..(n + 1) |-> Unparsed(a[i])]
  BY <1>2
<1> HIDE DEF x
<1>5. \A k \in 1..n : g[k] = f[k]
  <2> TAKE k \in 1..n
  <2>1. k \in 1..(n + 1) /\ a[k] = out[k]
    BY <1>1
  <2> HIDE DEF f, g
  <2> QED  BY <1>4, <2>1, Zenon
<1>6. g[n + 1] = x
  BY <1>1, <1>4 DEF x
<1> HIDE DEF f, g
<1>7. f \in Seq(Seq(Texts)) /\ Len(f) = n
  BY <1>1, <1>3, <1>4
<1>8. g \in Seq(Seq(Texts)) /\ Len(g) = n + 1
  <2>1. \A k \in 1..(n + 1) : g[k] \in Seq(Texts)
    <3> TAKE k \in 1..(n + 1)
    <3>1. k \in 1..n \/ k = n + 1
      BY <1>1
    <3> QED  BY <1>3, <1>5, <1>6, <3>1
  <2> QED  BY <1>1, <1>4, <2>1
<1>9. g = Append(f, x)
  <2> DEFINE h == Append(f, x)
             S == Seq(Texts)
  <2>0. f \in Seq(S) /\ x \in S
    BY <1>3, <1>7
  <2> HIDE DEF S
  <2>1. /\ h \in Seq(S) /\ Len(h) = n + 1 /\ (\A k \in 1..n : h[k] = f[k]) /\ h[n + 1] = x
    BY <1>7, <2>0, AppendProperties
  <2> HIDE DEF h
  <2>2. \A k \in 1..Len(g) : g[k] = h[k]
    <3> TAKE k \in 1..Len(g)
    <3>1. k \in 1..n \/ k = n + 1
      BY <1>1, <1>8
    <3> QED  BY <1>5, <1>6, <2>1, <3>1
  <2>3. g = h
    BY <1>8, <2>1, <2>2, SeqEqual DEF S
  <2> QED  BY <2>3 DEF h
<1>10. FlattenSeq(Append(f, x)) = FlattenSeq(f) \o x
  BY <1>3, <1>7, FlattenAppends
<1>11. Rendered(a) = FlattenSeq(g) /\ Rendered(out) = FlattenSeq(f)
  BY DEF Rendered, f, g
<1> QED  BY <1>9, <1>10, <1>11 DEF a, x

LEMMA RenderedOfNone == Rendered(<<>>) = <<>>
<1>1. [i \in DOMAIN <<>> |-> Unparsed(<<>>[i])] = <<>>
  OBVIOUS
<1>2. FlattenSeq(<<>>) = <<>>
  BY DEF FlattenSeq
<1> QED  BY <1>1, <1>2 DEF Rendered

LEMMA RenderedIs ==
  ASSUME NEW out \in Seq(Outs)
  PROVE  Rendered(out) \in Seq(Texts)
<1> DEFINE T == {n \in Nat : n <= Len(out) => Rendered(SubSeq(out, 1, n)) \in Seq(Texts)}
<1>1. 0 \in T
  <2>1. SubSeq(out, 1, 0) = <<>>
    BY SubSeqEmpty
  <2>2. <<>> \in Seq(Texts)
    OBVIOUS
  <2> QED  BY <2>1, <2>2, RenderedOfNone
<1>2. ASSUME NEW n \in Nat, n \in T
      PROVE  n + 1 \in T
  <2> SUFFICES ASSUME n + 1 <= Len(out) PROVE Rendered(SubSeq(out, 1, n + 1)) \in Seq(Texts)
    OBVIOUS
  <2> DEFINE s == SubSeq(out, 1, n)
             o == out[n + 1]
  <2>1. n + 1 \in 1..Len(out) /\ 1 \in 1..Len(out) /\ n + 1 \in 1..Len(out) /\ (n + 1) - 1 = n
        /\ n <= Len(out) /\ \A i \in 1..n : out[i] \in Outs
    OBVIOUS
  <2>2. o \in Outs /\ s \in Seq(Outs)
    BY <2>1, ElementOfSeq, SubSeqProperties
  <2>3. SubSeq(out, 1, n + 1) = s \o <<o>>
    BY <2>1, SubSeqRecursiveSecond
  <2> HIDE DEF s, o
  <2>4. Append(s, o) = s \o <<o>>
    BY <2>2, AppendIsConcat
  <2>5. Rendered(Append(s, o)) = Rendered(s) \o Unparsed(o)
    BY <2>2, RenderedAppends
  <2>6. Rendered(s) \in Seq(Texts) /\ Unparsed(o) \in Seq(Texts)
    BY <1>2, <2>1, <2>2, UnparsedIs DEF s
  <2>7. Rendered(s) \o Unparsed(o) \in Seq(Texts)
    BY <2>6, ConcatProperties
  <2> QED  BY <2>3, <2>4, <2>5, <2>7
<1> HIDE DEF T
<1>3. \A n \in Nat : n \in T
  BY <1>1, <1>2, AllNumbers
<1>4. Len(out) \in Nat /\ SubSeq(out, 1, Len(out)) = out /\ Len(out) <= Len(out)
  BY SubSeqFull
<1>5. Rendered(SubSeq(out, 1, Len(out))) \in Seq(Texts)
  BY <1>3, <1>4 DEF T
<1> QED  BY <1>4, <1>5

\* Text is put out as it is.
LEMMA RenderedText ==
  ASSUME NEW out \in Seq(Outs), NEW s \in Seq(MessageWords)
  PROVE  Rendered(out \o s) = Rendered(out) \o s
<1> DEFINE First(n) == SubSeq(s, 1, n)
           R == Rendered(out)
           T == {n \in Nat : n <= Len(s) => Rendered(out \o First(n)) = R \o First(n)}
<1>0. R \in Seq(Texts)
  BY RenderedIs
<1>1. 0 \in T
  <2>1. SubSeq(s, 1, 0) = <<>>
    BY SubSeqEmpty
  <2>2. out \o <<>> = out
    BY ConcatEmptySeq
  <2> HIDE DEF R
  <2>3. R \o <<>> = R
    BY <1>0, ConcatEmptySeq
  <2> QED  BY <2>1, <2>2, <2>3 DEF R
<1>2. ASSUME NEW n \in Nat, n \in T
      PROVE  n + 1 \in T
  <2> SUFFICES ASSUME n + 1 <= Len(s) PROVE Rendered(out \o First(n + 1)) = R \o First(n + 1)
    OBVIOUS
  <2> DEFINE x == First(n)
             w == s[n + 1]
             y == out \o x
  <2>1. n + 1 \in 1..Len(s) /\ 1 \in 1..Len(s) /\ (n + 1) - 1 = n
        /\ n <= Len(s) /\ \A i \in 1..n : s[i] \in MessageWords
    OBVIOUS
  <2>2. w \in MessageWords /\ x \in Seq(MessageWords)
    BY <2>1, ElementOfSeq, SubSeqProperties
  <2>3. First(n + 1) = x \o <<w>>
    BY <2>1, SubSeqRecursiveSecond
  <2> HIDE DEF x, w, First
  <2>4. /\ Unparsed(w) = <<w>> /\ w \in Texts /\ w \in Outs /\ x \in Seq(Outs) /\ x \in Seq(Texts)
        /\ <<w>> \in Seq(Outs) /\ <<w>> \in Seq(Texts)
    <3>1. Unparsed(w) = <<w>> /\ w \in Texts /\ w \in Outs
      BY <2>2, WordsAreNoCalls
    <3>2. x \in Seq(Outs) /\ x \in Seq(Texts)
      BY <2>2, TagsAreWords, TextsAreTexts, SeqMonotonic
    <3> QED  BY <3>1, <3>2
  <2>5. y \in Seq(Outs)
    BY <2>4, ConcatProperties
  <2>6. y \o <<w>> = out \o (x \o <<w>>)
    <3>1. JoinsTo(out, x, <<w>>)
      BY <2>4, Joined
    <3> QED  BY <3>1 DEF JoinsTo
  <2>7. Rendered(y) = R \o x
    BY <1>2, <2>1 DEF x
  <2> HIDE DEF y, R
  <2>8. Rendered(y \o <<w>>) = Rendered(y) \o <<w>>
    <3>1. Append(y, w) = y \o <<w>>
      BY <2>4, <2>5, AppendIsConcat
    <3>2. Rendered(Append(y, w)) = Rendered(y) \o Unparsed(w)
      BY <2>4, <2>5, RenderedAppends
    <3> QED  BY <2>4, <3>1, <3>2
  <2>9. (R \o x) \o <<w>> = R \o (x \o <<w>>)
    <3>1. JoinsTo(R, x, <<w>>)
      BY <1>0, <2>4, Joined
    <3> QED  BY <3>1 DEF JoinsTo
  <2> QED  BY <2>3, <2>6, <2>7, <2>8, <2>9
<1> HIDE DEF T
<1>3. \A n \in Nat : n \in T
  BY <1>1, <1>2, AllNumbers
<1>4. Len(s) \in Nat /\ First(Len(s)) = s /\ Len(s) <= Len(s)
  BY SubSeqFull
<1> HIDE DEF First
<1>5. Rendered(out \o First(Len(s))) = R \o First(Len(s))
  BY <1>3, <1>4 DEF T
<1> QED  BY <1>4, <1>5

\* All the text a parser has read, that of its open call and what is pending with it.
Mark(state) == IF state = "tool_call" THEN ToolCallOpen ELSE <<>>
TextOf(p) == (Rendered(p.out) \o Mark(p.state)) \o p.pending

LEMMA MarkIs == \A state : Mark(state) \in Seq(Texts) /\ Mark(state) \in Seq(MessageWords)
<1>1. <<>> \in Seq(Texts) /\ <<>> \in Seq(MessageWords)
  OBVIOUS
<1> QED  BY <1>1, TextsAreTexts, TagsAreWords DEF Mark

LEMMA TextOfSaid ==
  ASSUME NEW out \in Seq(Outs), NEW state \in {"text", "tool_call"}, NEW before \in Seq(MessageWords),
         NEW tag \in TagsOf(state), tag # ScratchPadOpen
  PROVE  \E said \in Seq(Texts) :
           /\ Rendered(out \o Says(state, tag, before)) = Rendered(out) \o said
           /\ said \o Mark(AfterTag(state, tag)) = (Mark(state) \o before) \o tag
<1>1. before \in Seq(Texts) /\ before \in Seq(Outs)
  BY TagsAreWords, TextsAreTexts, SeqMonotonic
<1>2. CASE state = "text"
  <2>1. tag = ToolCallOpen
    BY <1>2 DEF TagsOf
  <2>2. Says(state, tag, before) = before /\ Mark(state) = <<>> /\ Mark(AfterTag(state, tag)) = ToolCallOpen
    BY <1>2, <2>1 DEF Says, Mark, AfterTag
  <2>3. <<>> \o before = before
    BY <1>1, ConcatEmptySeq
  <2>4. Rendered(out \o before) = Rendered(out) \o before
    BY RenderedText
  <2> QED  BY <1>1, <2>1, <2>2, <2>3, <2>4
<1>3. CASE state = "tool_call" /\ tag = ToolCallOpen
  <2> DEFINE x == ToolCallOpen \o before
  <2>1. /\ Says(state, tag, before) = x /\ Mark(state) = ToolCallOpen
        /\ Mark(AfterTag(state, tag)) = ToolCallOpen
    BY <1>3 DEF Says, Mark, AfterTag
  <2>2. x \in Seq(MessageWords)
    BY TagsAreWords, ConcatProperties
  <2> HIDE DEF x
  <2>3. x \in Seq(Texts)
    BY <2>2, TextsAreTexts, SeqMonotonic
  <2>4. Rendered(out \o x) = Rendered(out) \o x
    BY <2>2, RenderedText
  <2> QED  BY <1>3, <2>1, <2>3, <2>4 DEF x
<1>4. CASE state = "tool_call" /\ tag # ToolCallOpen
  <2> DEFINE x == (ToolCallOpen \o before) \o ToolCallClose
  <2>1. tag = ToolCallClose /\ Mark(state) = ToolCallOpen /\ Mark(AfterTag(state, tag)) = <<>>
    BY <1>4 DEF TagsOf, Mark, AfterTag
  <2>2. x \in Seq(MessageWords)
    BY TagsAreWords, ConcatProperties
  <2>3. Rendered(out \o Says(state, tag, before)) = Rendered(out) \o x
    <3>1. CASE ParsesAsCall(before)
      <4>1. before = <<"call">> /\ Says(state, tag, before) = <<EmittedCall>>
        BY <1>4, <3>1 DEF Says, ParsesAsCall
      <4>2. EmittedCall \in Outs
        BY DEF Outs
      <4>3. Append(out, EmittedCall) = out \o <<EmittedCall>>
        BY <4>2, AppendIsConcat
      <4>4. Rendered(Append(out, EmittedCall)) = Rendered(out) \o Unparsed(EmittedCall)
        BY <4>2, RenderedAppends
      <4>5. Unparsed(EmittedCall) = x
        BY <4>1, TextsAreTexts
      <4> HIDE DEF x
      <4> QED  BY <4>1, <4>3, <4>4, <4>5
    <3>2. CASE ~ParsesAsCall(before)
      <4>1. Says(state, tag, before) = x
        BY <1>4, <3>2 DEF Says
      <4> HIDE DEF x
      <4>2. Rendered(out \o x) = Rendered(out) \o x
        BY <2>2, RenderedText
      <4> QED  BY <4>1, <4>2
    <3> QED  BY <3>1, <3>2
  <2>4. x = (Mark(state) \o before) \o tag
    BY <2>1
  <2> HIDE DEF x
  <2>5. x \in Seq(Texts) /\ x \o <<>> = x
    <3>1. x \in Seq(Texts)
      BY <2>2, TextsAreTexts, SeqMonotonic
    <3> QED  BY <3>1, ConcatEmptySeq
  <2> QED  BY <2>1, <2>3, <2>4, <2>5
<1> QED  BY <1>2, <1>3, <1>4

RegroupsTo(r, m, b, t, a) == (r \o ((m \o b) \o t)) \o a = (r \o m) \o ((b \o t) \o a)

LEMMA Regrouped ==
  ASSUME NEW S, NEW r \in Seq(S), NEW m \in Seq(S), NEW b \in Seq(S), NEW t \in Seq(S), NEW a \in Seq(S)
  PROVE  RegroupsTo(r, m, b, t, a)
<1> DEFINE c == b \o t
           x == r \o m
<1>1. c \in Seq(S) /\ x \in Seq(S)
  BY ConcatProperties
<1>2. (m \o b) \o t = m \o c
  <2>1. JoinsTo(m, b, t)
    BY Joined
  <2> QED  BY <2>1 DEF JoinsTo
<1> HIDE DEF c
<1>3. x \o c = r \o (m \o c)
  <2>1. JoinsTo(r, m, c)
    BY <1>1, Joined
  <2> QED  BY <2>1 DEF JoinsTo
<1> HIDE DEF x
<1>4. (x \o c) \o a = x \o (c \o a)
  <2>1. JoinsTo(x, c, a)
    BY <1>1, Joined
  <2> QED  BY <2>1 DEF JoinsTo
<1> QED  BY <1>2, <1>3, <1>4 DEF RegroupsTo, c, x

\* What has no tag has none in its end either.
LEMMA NoneInTheEnd ==
  ASSUME NEW S, NEW s \in Seq(S), NEW t \in Seq(S), NEW tags, Has(t, tags)
  PROVE  Has(s \o t, tags)
<1>1. PICK i \in Hits(t, tags) : TRUE
  BY DEF Has
<1>2. i \in 1..(Len(t) - 1)
  BY HitsAreCuts
<1>3. Len(s) + i \in Hits(s \o t, tags)
  BY <1>2, HitsOfEnd
<1> QED  BY <1>3 DEF Has

LEMMA FirstIsThere ==
  ASSUME NEW S, NEW t \in Seq(S), NEW tags, Has(t, tags)
  PROVE  Has(t, {FirstOf(t, tags).tag})
<1>1. PICK i \in 1..(Len(t) - 1) :
        /\ IsFirst(t, tags, i)
        /\ FirstOf(t, tags) = [tag |-> SubSeq(t, i, i + 1), before |-> SubSeq(t, 1, i - 1),
                               after |-> SubSeq(t, i + 2, Len(t))]
  BY FirstExists
<1>2. FirstOf(t, tags).tag = SubSeq(t, i, i + 1)
  BY <1>1
<1>3. i \in Hits(t, {SubSeq(t, i, i + 1)})
  BY DEF Hits
<1> QED  BY <1>2, <1>3 DEF Has

LEMMA TurnKeepsText ==
  ASSUME NEW p \in Parsers, p.state # "scratch_pad", ~Has(TextOf(p), {ScratchPadOpen})
  PROVE  DrainOnce(p).state # "scratch_pad" /\ TextOf(DrainOnce(p)) = TextOf(p)
<1> DEFINE R == Rendered(p.out)
           M == Mark(p.state)
           text == p.pending
           tags == TagsOf(p.state)
<1>1. /\ p.state \in {"text", "tool_call"} /\ text \in Seq(MessageWords) /\ p.out \in Seq(Outs)
      /\ p.state \in {"text", "tool_call", "scratch_pad"}
  BY ParserFields
<1>2. R \in Seq(Texts) /\ M \in Seq(Texts)
  BY <1>1, RenderedIs, MarkIs
<1>3. text \in Seq(Texts)
  BY <1>1, TextsAreTexts, SeqMonotonic
<1> HIDE DEF R, M, text, tags
<1>4. TextOf(p) = (R \o M) \o text
  BY DEF TextOf, R, M, text
<1>5. CASE Has(text, tags)
  <2> DEFINE hit == FirstOf(text, tags)
             tag == hit.tag
             b == hit.before
             a == AfterTag(p.state, tag)
             o == p.out \o Says(p.state, tag, b)
  <2> HIDE DEF hit
  <2>1. /\ DrainOnce(p) = Parser(a, hit.after, o)
        /\ b \in Seq(MessageWords) /\ hit.after \in Seq(MessageWords) /\ tag \in TagsOf(p.state)
        /\ text = (b \o tag) \o hit.after
    <3>1. Has(p.pending, TagsOf(p.state)) /\ hit = FirstOf(p.pending, TagsOf(p.state))
      BY <1>5 DEF hit, text, tags
    <3>2. /\ DrainOnce(p) = Parser(AfterTag(p.state, hit.tag), hit.after,
                                   p.out \o Says(p.state, hit.tag, hit.before))
          /\ hit.before \in Seq(MessageWords) /\ hit.after \in Seq(MessageWords)
          /\ hit.tag \in TagsOf(p.state) /\ Len(hit.after) < Len(p.pending)
          /\ p.pending = (hit.before \o hit.tag) \o hit.after
      BY <3>1, TurnAtTag
    <3> QED  BY <3>2 DEF text
  <2>2. tag # ScratchPadOpen
    <3>1. Has(text, {tag})
      BY <1>3, <1>5, FirstIsThere DEF hit
    <3>2. R \o M \in Seq(Texts)
      BY <1>2, ConcatProperties
    <3>3. Has((R \o M) \o text, {tag})
      BY <1>3, <3>1, <3>2, NoneInTheEnd
    <3> QED  BY <1>4, <3>3
  <2>3. a \in {"text", "tool_call"} /\ a \in {"text", "tool_call", "scratch_pad"} /\ a # "scratch_pad"
    BY <1>1, <2>1, <2>2 DEF AfterTag, TagsOf
  <2>4. tag \in Seq(Texts)
    BY <1>1, <2>1, <2>2, TextsAreTexts DEF TagsOf
  <2>5. o \in Seq(Outs)
    <3> DEFINE z == Says(p.state, tag, b)
    <3>1. z \in Seq(Outs)
      BY <1>1, <2>1, SaysWords
    <3> HIDE DEF z
    <3>2. p.out \o z \in Seq(Outs)
      BY <1>1, <3>1, ConcatProperties
    <3> QED  BY <3>2 DEF z
  <2>6. PICK said \in Seq(Texts) :
          /\ Rendered(o) = R \o said
          /\ said \o Mark(a) = (M \o b) \o tag
    <3> HIDE DEF b, tag
    <3>1. \E said \in Seq(Texts) :
            /\ Rendered(p.out \o Says(p.state, tag, b)) = Rendered(p.out) \o said
            /\ said \o Mark(AfterTag(p.state, tag)) = (Mark(p.state) \o b) \o tag
      BY <1>1, <2>1, <2>2, TextOfSaid
    <3> QED  BY <3>1 DEF R, M
  <2> DEFINE after == hit.after
  <2>7. b \in Seq(Texts) /\ after \in Seq(Texts)
    BY <2>1, TextsAreTexts, SeqMonotonic
  <2> HIDE DEF a, o, tag, b, after
  <2>8. /\ DrainOnce(p).state = a /\ DrainOnce(p).pending = after /\ DrainOnce(p).out = o
    <3>1. after \in Seq(MessageWords) /\ DrainOnce(p) = Parser(a, after, o)
      BY <2>1 DEF after, a, o, tag, b
    <3> QED  BY <2>3, <2>5, <3>1, ParserIs
  <2>9. TextOf(DrainOnce(p)) = ((R \o said) \o Mark(a)) \o after
    BY <2>6, <2>8 DEF TextOf
  <2>10. (R \o said) \o Mark(a) = R \o (said \o Mark(a))
    <3>1. Mark(a) \in Seq(Texts)
      BY MarkIs
    <3>2. JoinsTo(R, said, Mark(a))
      BY <1>2, <3>1, Joined
    <3> QED  BY <3>2 DEF JoinsTo
  <2>11. (R \o ((M \o b) \o tag)) \o after = (R \o M) \o ((b \o tag) \o after)
    <3>1. RegroupsTo(R, M, b, tag, after)
      BY <1>2, <2>4, <2>7, Regrouped
    <3> QED  BY <3>1 DEF RegroupsTo
  <2>12. TextOf(DrainOnce(p)) = (R \o ((M \o b) \o tag)) \o after
    BY <2>6, <2>9, <2>10
  <2>13. text = (b \o tag) \o after
    BY <2>1 DEF b, tag, after
  <2> QED  BY <1>4, <2>3, <2>8, <2>11, <2>12, <2>13
<1>6. CASE ~Has(text, tags) /\ p.state = "text"
  <2> DEFINE s == SubSeq(text, 1, Held(text))
             t == SubSeq(text, Held(text) + 1, Len(text))
             o == p.out \o s
  <2>1. DrainOnce(p) = Parser("text", t, o)
    BY <1>6, TurnWithoutTag DEF text, tags
  <2>2. s \in Seq(MessageWords) /\ t \in Seq(MessageWords) /\ text = s \o t
    <3>1. text \in Seq(MessageWords)
      BY <1>1 DEF text
    <3>2. /\ Held(text) \in 0..Len(text)
          /\ SubSeq(text, 1, Held(text)) \in Seq(MessageWords)
          /\ SubSeq(text, Held(text) + 1, Len(text)) \in Seq(MessageWords)
          /\ Len(SubSeq(text, 1, Held(text))) = Held(text)
          /\ Len(SubSeq(text, Held(text) + 1, Len(text))) = Len(text) - Held(text)
          /\ text = SubSeq(text, 1, Held(text)) \o SubSeq(text, Held(text) + 1, Len(text))
      BY <3>1, HeldIs
    <3> QED  BY <3>2
  <2> HIDE DEF s, t
  <2>3. s \in Seq(Texts) /\ t \in Seq(Texts) /\ s \in Seq(Outs)
    BY <2>2, TextsAreTexts, TagsAreWords, SeqMonotonic
  <2>4. o \in Seq(Outs)
    BY <1>1, <2>3, ConcatProperties
  <2>5. Rendered(o) = R \o s
    BY <1>1, <2>2, RenderedText DEF R
  <2> HIDE DEF o
  <2>6. "text" \in {"text", "tool_call", "scratch_pad"} /\ Mark("text") = <<>> /\ M = <<>>
    BY <1>6 DEF Mark, M
  <2>7. DrainOnce(p).state = "text" /\ DrainOnce(p).pending = t /\ DrainOnce(p).out = o
    BY <2>1, <2>2, <2>4, <2>6, ParserIs
  <2>8. TextOf(DrainOnce(p)) = ((R \o s) \o <<>>) \o t
    BY <2>5, <2>6, <2>7 DEF TextOf
  <2>9. (R \o s) \o <<>> = R \o s /\ R \o <<>> = R
    <3>1. R \o s \in Seq(Texts)
      BY <1>2, <2>3, ConcatProperties
    <3> QED  BY <1>2, <3>1, ConcatEmptySeq
  <2>10. (R \o s) \o t = R \o (s \o t)
    <3>1. JoinsTo(R, s, t)
      BY <1>2, <2>3, Joined
    <3> QED  BY <3>1 DEF JoinsTo
  <2> QED  BY <1>4, <2>2, <2>6, <2>7, <2>8, <2>9, <2>10
<1>7. CASE ~Has(text, tags) /\ p.state # "text"
  <2>1. DrainOnce(p) = p
    BY <1>7, TurnWithoutTag DEF text, tags
  <2> QED  BY <2>1
<1> QED  BY <1>5, <1>6, <1>7

LEMMA DrainKeepsText ==
  ASSUME NEW p \in Parsers, p.state # "scratch_pad", ~Has(TextOf(p), {ScratchPadOpen})
  PROVE  Drain(p).state # "scratch_pad" /\ TextOf(Drain(p)) = TextOf(p)
<1> DEFINE T == {n \in Nat : Turns(p, n).state # "scratch_pad" /\ TextOf(Turns(p, n)) = TextOf(p)}
<1>1. 0 \in T
  <2>1. 0 \in Nat /\ Turns(p, 0) = p
    BY OneTurnMore
  <2> QED  BY <2>1
<1>2. ASSUME NEW n \in Nat, n \in T
      PROVE  n + 1 \in T
  <2> DEFINE q == Turns(p, n)
  <2>1. Turns(p, n + 1) = DrainOnce(q) /\ q \in Parsers /\ n + 1 \in Nat
    BY OneTurnMore, TurnsStay
  <2>2. q.state # "scratch_pad" /\ TextOf(q) = TextOf(p)
    BY <1>2
  <2> HIDE DEF q
  <2>3. DrainOnce(q).state # "scratch_pad" /\ TextOf(DrainOnce(q)) = TextOf(q)
    BY <2>1, <2>2, TurnKeepsText
  <2> QED  BY <2>1, <2>2, <2>3
<1> HIDE DEF T
<1>3. \A n \in Nat : n \in T
  BY <1>1, <1>2, AllNumbers
<1>4. Len(p.pending) \in Nat
  BY PendingIsCounted
<1> QED  BY <1>3, <1>4 DEF T, Drain

LEMMA EndKeepsText ==
  ASSUME NEW p \in Parsers, p.state # "scratch_pad"
  PROVE  Rendered(End(p).out) = TextOf(p)
<1>1. /\ p.state \in {"text", "tool_call"} /\ p.pending \in Seq(MessageWords) /\ p.out \in Seq(Outs)
  BY ParserFields
<1> DEFINE R == Rendered(p.out)
<1>2. R \in Seq(Texts) /\ p.pending \in Seq(Texts)
  BY <1>1, RenderedIs, TextsAreTexts, SeqMonotonic
<1>3. \A x : [NewParser EXCEPT !.out = x].out = x
  BY DEF NewParser
<1>4. CASE p.state = "text"
  <2>1. End(p).out = p.out \o p.pending
    BY <1>3, <1>4 DEF End
  <2>2. Rendered(p.out \o p.pending) = R \o p.pending
    BY <1>1, RenderedText
  <2>3. R \o <<>> = R /\ Mark(p.state) = <<>>
    BY <1>2, <1>4, ConcatEmptySeq DEF Mark
  <2> QED  BY <2>1, <2>2, <2>3 DEF TextOf
<1>5. CASE p.state = "tool_call"
  <2> DEFINE x == p.out \o ToolCallOpen
  <2>1. End(p).out = x \o p.pending
    BY <1>3, <1>5 DEF End
  <2>2. x \in Seq(Outs)
    BY <1>1, TagsAreWords, ConcatProperties
  <2>3. Rendered(x) = R \o ToolCallOpen
    BY <1>1, TagsAreWords, RenderedText
  <2> HIDE DEF x
  <2>4. Rendered(x \o p.pending) = Rendered(x) \o p.pending
    BY <1>1, <2>2, RenderedText
  <2>5. Mark(p.state) = ToolCallOpen
    BY <1>5 DEF Mark
  <2> QED  BY <2>1, <2>3, <2>4, <2>5 DEF TextOf
<1> QED  BY <1>1, <1>4, <1>5

LEMMA NewParserIs ==
  /\ NewParser \in Parsers /\ NewParser.state = "text" /\ NewParser.pending = <<>>
  /\ NewParser.out = <<>> /\ Push(NewParser, <<>>) = NewParser
<1>1. NewParser = Parser("text", <<>>, <<>>)
  BY DEF NewParser, Parser
<1>2. "text" \in {"text", "tool_call", "scratch_pad"} /\ <<>> \in Seq(MessageWords) /\ <<>> \in Seq(Outs)
  OBVIOUS
<1>3. /\ NewParser \in Parsers /\ NewParser.state = "text" /\ NewParser.pending = <<>>
      /\ NewParser.out = <<>>
  BY <1>2 DEF NewParser, Parsers
<1>4. More(NewParser, <<>>) = NewParser
  <2>1. More(NewParser, <<>>) = Parser(NewParser.state, NewParser.pending \o <<>>, NewParser.out)
    BY <1>2, <1>3, MoreIs
  <2>2. <<>> \o <<>> = <<>>
    OBVIOUS
  <2> QED  BY <1>1, <1>3, <2>1, <2>2
<1>5. Push(NewParser, <<>>) = Drain(NewParser)
  BY <1>2, <1>3, <1>4, PushIs
<1>6. Drain(NewParser) = NewParser
  <2>1. Len(<<>>) = 0 /\ 0 \in Nat
    OBVIOUS
  <2>2. Drain(NewParser) = Turns(NewParser, 0)
    BY <1>3, <2>1 DEF Drain
  <2> QED  BY <2>1, <2>2, OneTurnMore
<1> QED  BY <1>3, <1>5, <1>6

LEMMA MessageIsKept ==
  ASSUME NEW m \in Seq(MessageWords), ~Has(m, {ScratchPadOpen})
  PROVE  Rendered(End(Push(NewParser, m)).out) = m
<1> DEFINE p == More(NewParser, m)
<1>1. p \in Parsers /\ p.state = "text" /\ p.pending = <<>> \o m /\ p.out = <<>>
  BY NewParserIs, MoreIs
<1>2. m \in Seq(Texts) /\ <<>> \in Seq(Texts)
  BY TextsAreTexts, SeqMonotonic
<1> HIDE DEF p
<1>3. TextOf(p) = m
  <2>1. TextOf(p) = (<<>> \o <<>>) \o (<<>> \o m)
    BY <1>1, RenderedOfNone DEF TextOf, Mark
  <2>2. <<>> \o <<>> = <<>> /\ <<>> \o m = m
    BY <1>2, ConcatEmptySeq
  <2> QED  BY <2>1, <2>2
<1>4. Push(NewParser, m) = Drain(p) /\ Drain(p) \in Parsers
  BY <1>1, NewParserIs, PushIs, DrainSettles DEF p
<1>5. Drain(p).state # "scratch_pad" /\ TextOf(Drain(p)) = m
  BY <1>1, <1>3, DrainKeepsText
<1>6. Rendered(End(Drain(p)).out) = TextOf(Drain(p))
  BY <1>4, <1>5, EndKeepsText
<1> QED  BY <1>4, <1>5, <1>6

\* While the stream is open the parser has read what has been streamed, however
\* it was cut; what a complete reply is made of is what it made of all of it.
StreamInv ==
  /\ message \in ReplyTexts
  /\ fed \in 0..Len(message)
  /\ Open => parser = Push(NewParser, SubSeq(message, 1, fed))
  /\ finish \in {"stop", "tool_use"} =>
       /\ parser = End(Push(NewParser, message))
       /\ (finish = "tool_use") <=> (CallsOf(parser) # <<>>)

LEMMA MessagesAreWords ==
  ASSUME NEW m \in ReplyTexts
  PROVE  m \in Seq(MessageWords) /\ Len(m) \in Nat
<1>1. m \in Seq(Range(m)) /\ Range(m) \subseteq MessageWords
  BY ReplyAssumption DEF MessageWords
<1>2. m \in Seq(MessageWords)
  BY <1>1, SeqMonotonic
<1> QED  BY <1>2

LEMMA StreamInvInit == StreamInit => StreamInv
<1> SUFFICES ASSUME StreamInit PROVE StreamInv
  OBVIOUS
<1>1. message \in ReplyTexts /\ fed = 0 /\ parser = NewParser /\ finish = "none"
  BY DEF StreamInit
<1>2. Len(message) \in Nat
  BY <1>1, MessagesAreWords
<1>3. SubSeq(message, 1, 0) = <<>>
  BY SubSeqEmpty
<1>4. 0 \in 0..Len(message)
  BY <1>2
<1> QED  BY <1>1, <1>3, <1>4, NewParserIs DEF StreamInv

LEMMA StreamInvNext == StreamInv /\ [StreamNext]_streamVars => StreamInv'
<1> SUFFICES ASSUME StreamInv, [StreamNext]_streamVars PROVE StreamInv'
  OBVIOUS
<1>1. /\ message \in ReplyTexts /\ fed \in 0..Len(message) /\ message \in Seq(MessageWords)
      /\ Len(message) \in Nat /\ fed \in Nat
  BY MessagesAreWords DEF StreamInv
<1>2. Open => parser = Push(NewParser, SubSeq(message, 1, fed))
  BY DEF StreamInv
<1>3. CASE RequestFails
  BY <1>1, <1>3 DEF RequestFails, StreamInv, Open
<1>4. CASE Chunk
  <2>1. Open /\ message' = message /\ finish' = finish
    BY <1>4 DEF Chunk
  <2>2. PICK k \in 1..(Len(message) - fed) :
          parser' = Push(parser, SubSeq(message, fed + 1, fed + k)) /\ fed' = fed + k
    BY <1>4 DEF Chunk
  <2>3. fed + k \in 0..Len(message) /\ fed + k \in fed..Len(message) /\ fed + 1 \in Int
        /\ fed + k \in Int /\ fed + 1 <= fed + k /\ 1 \in 1..(Len(message) + 1)
        /\ fed \in (1 - 1)..Len(message)
    BY <1>1
  <2> DEFINE a == SubSeq(message, 1, fed)
             b == SubSeq(message, fed + 1, fed + k)
  <2>4. a \in Seq(MessageWords)
    <3>1. \A i \in 1..fed : message[i] \in MessageWords
      BY <1>1
    <3> QED  BY <1>1, <3>1, SubSeqProperties
  <2>5. b \in Seq(MessageWords) /\ b # <<>>
    <3>1. \A i \in (fed + 1)..(fed + k) : message[i] \in MessageWords
      BY <1>1
    <3>2. b \in Seq(MessageWords) /\ Len(b) = ((fed + k) - (fed + 1)) + 1
      BY <2>3, <3>1, SubSeqProperties
    <3> HIDE DEF b
    <3>3. Len(b) # 0
      BY <1>1, <3>2
    <3> QED  BY <3>2, <3>3
  <2>6. a \o b = SubSeq(message, 1, fed + k)
    BY <1>1, <2>3, ConcatAdjacentSubSeq
  <2> HIDE DEF a, b
  <2>7. Push(Push(NewParser, a), b) = Push(NewParser, a \o b)
    BY <2>4, <2>5, NewParserIs, PushTwice
  <2>8. parser' = Push(NewParser, SubSeq(message, 1, fed + k))
    BY <1>2, <2>1, <2>2, <2>6, <2>7 DEF a, b
  <2> QED  BY <1>1, <2>1, <2>2, <2>3, <2>8 DEF StreamInv, Open
<1>5. CASE Finishes
  <2>1. Open /\ message' = message /\ fed' = fed
    BY <1>5 DEF Finishes
  <2>2. PICK reported \in {"stop", "length", "content_filter"} :
          /\ reported = "stop" => fed = Len(message)
          /\ parser' = End(parser)
          /\ finish' = FinishReason(reported, parser')
    BY <1>5 DEF Finishes
  <2>3. finish' # "none"
    BY <2>2 DEF FinishReason
  <2>4. CASE reported = "stop"
    <3>1. SubSeq(message, 1, fed) = message
      BY <1>1, <2>2, <2>4, SubSeqFull
    <3>2. parser' = End(Push(NewParser, message))
      BY <1>2, <2>1, <2>2, <3>1
    <3>3. finish' = IF CallsOf(parser') # <<>> THEN "tool_use" ELSE "stop"
      BY <2>2, <2>4 DEF FinishReason
    <3>4. (finish' = "tool_use") <=> (CallsOf(parser') # <<>>)
      BY <3>3
    <3> QED  BY <1>1, <2>1, <2>3, <3>2, <3>4 DEF StreamInv, Open
  <2>5. CASE reported # "stop"
    <3>1. finish' \notin {"stop", "tool_use"}
      BY <2>2, <2>5 DEF FinishReason
    <3> QED  BY <1>1, <2>1, <2>3, <3>1 DEF StreamInv, Open
  <2> QED  BY <2>4, <2>5
<1>6. CASE InBandError
  BY <1>1, <1>6 DEF InBandError, StreamInv, Open
<1>7. CASE EndsUnfinished
  BY <1>1, <1>7 DEF EndsUnfinished, StreamInv, Open
<1>8. CASE UNCHANGED streamVars
  <2>1. message' = message /\ fed' = fed /\ parser' = parser /\ finish' = finish
    BY <1>8 DEF streamVars
  <2>2. CallsOf(parser)' = CallsOf(parser)
    BY <2>1
  <2> QED  BY <2>1, <2>2 DEF StreamInv, Open
<1> QED  BY <1>3, <1>4, <1>5, <1>6, <1>7, <1>8 DEF StreamNext

LEMMA ParserReadItAll == StreamInv => ReplyIsTheMessage
<1> SUFFICES ASSUME StreamInv, finish \in {"stop", "tool_use"}
             PROVE  /\ parser.out = End(Push(NewParser, message)).out
                    /\ ~Has(message, {ScratchPadOpen}) => Rendered(parser.out) = message
                    /\ (finish = "tool_use") <=> (CallsOf(parser) # <<>>)
  BY DEF ReplyIsTheMessage
<1>1. /\ message \in ReplyTexts /\ parser = End(Push(NewParser, message))
      /\ (finish = "tool_use") <=> (CallsOf(parser) # <<>>)
  BY DEF StreamInv
<1>2. message \in Seq(MessageWords)
  BY <1>1, MessagesAreWords
<1>3. ~Has(message, {ScratchPadOpen}) => Rendered(parser.out) = message
  BY <1>1, <1>2, MessageIsKept
<1> QED  BY <1>1, <1>3

\* However the network cuts a message into chunks, a reply that ends as complete
\* is the message parsed whole, so that no text or call in it depends on where a
\* chunk ended; but for reasoning, nothing the model wrote is missing, and the
\* turn calls tools exactly if the reply has calls (hermes.ts:213-339,
\* openai-compatible.ts:164-246).
THEOREM HermesRepliesAreWhole == StreamSpec => []ReplyIsTheMessage
<1>1. StreamSpec => []StreamInv
  BY StreamInvInit, StreamInvNext, PTL DEF StreamSpec
<1> QED  BY <1>1, ParserReadItAll, PTL

-----------------------------------------------------------------------------
(* What is selected of a stretch of a sequence, and of one that goes on.     *)

LEMMA StretchIsCounted ==
  ASSUME NEW a \in Nat, NEW c \in Nat
  PROVE  /\ Cardinality((a + 1)..(a + c)) = c
         /\ \A k \in 1..c : Nth((a + 1)..(a + c), k) = a + k
<1> DEFINE I == (a + 1)..(a + c)
<1>1. I \in SUBSET (1..(a + c)) /\ a + c \in Nat
  OBVIOUS
<1>2. Enumerates(I)
  BY <1>1, PlacesAreEnumerated
<1>3. \A k \in 0..c : Cardinality((a + 1)..(a + k)) = k
  <2> TAKE k \in 0..c
  <2>1. a + 1 \in Int /\ a + k \in Int
    OBVIOUS
  <2>2. Cardinality((a + 1)..(a + k)) = IF a + 1 > a + k THEN 0 ELSE (a + k) - (a + 1) + 1
    BY <2>1, FS_Interval
  <2> QED  BY <2>2
<1>4. \A k \in 1..c : a + k \in I /\ Rank(I, a + k) = k
  <2> TAKE k \in 1..c
  <2>1. {i \in I : i <= a + k} = (a + 1)..(a + k)
    OBVIOUS
  <2>2. a + k \in I /\ k \in 0..c
    OBVIOUS
  <2> HIDE DEF I
  <2> QED  BY <1>3, <2>1, <2>2 DEF Rank
<1>5. \A k \in 1..c : Nth(I, k) = a + k
  <2> HIDE DEF I
  <2> QED  BY <1>2, <1>4 DEF Enumerates
<1>6. Cardinality(I) = c
  BY <1>3
<1> QED  BY <1>5, <1>6

LEMMA SelectedStretch ==
  ASSUME NEW s, NEW a \in Nat, NEW c \in Nat
  PROVE  Selected(s, (a + 1)..(a + c)) = [k \in 1..c |-> s[a + k]]
<1> DEFINE I == (a + 1)..(a + c)
<1>1. Cardinality(I) = c /\ \A k \in 1..c : Nth(I, k) = a + k
  BY StretchIsCounted
<1> HIDE DEF I
<1>2. Selected(s, I) = [k \in 1..c |-> s[Nth(I, k)]]
  BY <1>1 DEF Selected
<1>3. Selected(s, I) = [k \in 1..c |-> s[a + k]]
  BY <1>1, <1>2
<1> QED  BY <1>3 DEF I

LEMMA SelectedStart ==
  ASSUME NEW s, NEW c \in Nat
  PROVE  Selected(s, 1..c) = [k \in 1..c |-> s[k]]
<1>1. \A a \in Nat : Selected(s, (a + 1)..(a + c)) = [k \in 1..c |-> s[a + k]]
  BY SelectedStretch
<1>2. 0 \in Nat
  OBVIOUS
<1>3. Selected(s, (0 + 1)..(0 + c)) = [k \in 1..c |-> s[0 + k]]
  BY <1>1, <1>2, Zenon
<1>4. (0 + 1)..(0 + c) = 1..c
  OBVIOUS
<1>5. [k \in 1..c |-> s[0 + k]] = [k \in 1..c |-> s[k]]
  <2>1. \A k \in 1..c : 0 + k = k
    OBVIOUS
  <2> QED  BY <2>1
<1> QED  BY <1>3, <1>4, <1>5

\* Of two sequences put together, each is where it should be.
LEMMA TwoParts ==
  ASSUME NEW S, NEW s \in Seq(S), NEW t \in Seq(S)
  PROVE  /\ s \o t \in Seq(S) /\ Len(s \o t) = Len(s) + Len(t)
         /\ \A i \in 1..Len(s) : (s \o t)[i] = s[i]
         /\ \A i \in 1..Len(t) : (s \o t)[Len(s) + i] = t[i]
<1> DEFINE a == s \o t
           k == Len(s)
           m == Len(t)
<1>1. k \in Nat /\ m \in Nat
  OBVIOUS
<1>2. a \in Seq(S) /\ Len(a) = k + m /\ \A i \in 1..(k + m) : a[i] = IF i <= k THEN s[i] ELSE t[i - k]
  BY ConcatProperties
<1> HIDE DEF a, k, m
<1>3. \A i \in 1..k : a[i] = s[i]
  BY <1>1, <1>2
<1>4. \A i \in 1..m : a[k + i] = t[i]
  <2> TAKE i \in 1..m
  <2>1. k + i \in 1..(k + m) /\ ~(k + i <= k) /\ (k + i) - k = i
    BY <1>1
  <2> QED  BY <1>2, <2>1
<1> QED  BY <1>2, <1>3, <1>4 DEF a, k, m

\* What is selected of two sequences is the same where they are.
LEMMA SelectedAgrees ==
  ASSUME NEW n \in Nat, NEW I \in SUBSET (1..n), NEW s, NEW t, \A i \in I : s[i] = t[i]
  PROVE  Selected(s, I) = Selected(t, I)
<1>1. Enumerates(I)
  BY PlacesAreEnumerated
<1>2. \A k \in 1..Cardinality(I) : s[Nth(I, k)] = t[Nth(I, k)]
  BY <1>1 DEF Enumerates
<1> QED  BY <1>2 DEF Selected

-----------------------------------------------------------------------------
(* Anthropic's stream.  While it lasts, the blocks started are the first of  *)
(* the reply, and what is collected is what was sent of them.                *)

UsePlaces(turn) == {i \in DOMAIN turn : turn[i].kind = "tool_use"}
TextBlocks(turn) == {i \in DOMAIN turn : turn[i].kind = "text"}
Streamed(turn, s, i) == SubSeq(turn[i].parts, 1, s[i] - 1)
CallAt(turn, s) ==
  [i \in DOMAIN turn |-> [id |-> IdOf(turn, i), args |-> Streamed(turn, s, i)]]
CallsStarted(turn, s, n) == Selected(CallAt(turn, s), UpTo(UsePlaces(turn), n))
BlocksStarted(turn, n) == [i \in 1..n |-> [kind |-> turn[i].kind, id |-> IdOf(turn, i)]]

TextIsOf(text, turn, s) ==
  /\ text \in Seq(Range(text))
  /\ \A k \in DOMAIN text : \E i \in TextBlocks(turn) : text[k] \in Range(Streamed(turn, s, i))
  /\ \A i \in TextBlocks(turn) : Among(text, Streamed(turn, s, i)) = Streamed(turn, s, i)

Counts(turn, s, n) ==
  /\ s \in [DOMAIN turn -> Nat]
  /\ \A i \in DOMAIN turn : s[i] <= Len(turn[i].parts) + 1 /\ (s[i] > 0 <=> i <= n)

IsStreamed(n) ==
  /\ Counts(reply, sent, n)
  /\ blocksByIndex = BlocksStarted(reply, n)
  /\ collected = [text |-> collected.text, calls |-> CallsStarted(reply, sent, n)]
  /\ TextIsOf(collected.text, reply, sent)

LEMMA TurnIs ==
  ASSUME NEW turn \in ServerTurns
  PROVE  /\ Len(turn) \in Nat /\ DOMAIN turn = 1..Len(turn)
         /\ UsePlaces(turn) \in SUBSET (1..Len(turn))
         /\ \A n \in Nat : UpTo(UsePlaces(turn), n) \in SUBSET (1..n)
         /\ \A n \in Nat : UpTo(UsePlaces(turn), n) \in SUBSET (1..Len(turn))
         /\ \A i \in DOMAIN turn : /\ turn[i].parts \in Seq(Range(turn[i].parts))
                                   /\ Len(turn[i].parts) \in Nat
<1>1. turn \in Seq(Range(turn))
  BY AnthropicAssumption
<1>2. Len(turn) \in Nat /\ DOMAIN turn = 1..Len(turn)
  BY <1>1
<1>3. \A n \in Nat : \A k \in UpTo(UsePlaces(turn), n) : k \in 1..n /\ k \in 1..Len(turn)
  <2> TAKE n \in Nat
  <2> TAKE k \in UpTo(UsePlaces(turn), n)
  <2>1. k \in 1..Len(turn) /\ k <= n
    BY <1>2 DEF UpTo, UsePlaces
  <2> QED  BY <1>2, <2>1
<1>4. \A i \in DOMAIN turn : /\ turn[i].parts \in Seq(Range(turn[i].parts))
                             /\ Len(turn[i].parts) \in Nat
  <2> TAKE i \in DOMAIN turn
  <2>1. turn[i].parts \in Seq(Range(turn[i].parts))
    BY AnthropicAssumption
  <2> QED  BY <2>1
<1>5. UsePlaces(turn) \in SUBSET (1..Len(turn))
  BY <1>2 DEF UsePlaces
<1> QED  BY <1>2, <1>3, <1>4, <1>5

LEMMA BlocksAreApart ==
  ASSUME NEW turn \in ServerTurns, NEW i \in DOMAIN turn, NEW j \in DOMAIN turn
  PROVE  i # j /\ turn[i].kind = turn[j].kind =>
           IF turn[i].kind = "tool_use" THEN IdOf(turn, i) # IdOf(turn, j)
           ELSE Range(turn[i].parts) \cap Range(turn[j].parts) = {}
<1>1. \A a, b \in DOMAIN turn : a # b /\ turn[a].kind = turn[b].kind =>
        IF turn[a].kind = "tool_use" THEN IdOf(turn, a) # IdOf(turn, b)
        ELSE Range(turn[a].parts) \cap Range(turn[b].parts) = {}
  BY AnthropicAssumption
<1> QED  BY <1>1

\* What was streamed of a block, before and after one delta more.
LEMMA StreamedIs ==
  ASSUME NEW turn \in ServerTurns, NEW s \in [DOMAIN turn -> Nat], NEW i \in DOMAIN turn,
         s[i] <= Len(turn[i].parts) + 1
  PROVE  /\ Streamed(turn, s, i) \in Seq(Range(turn[i].parts))
         /\ s[i] = 0 => Streamed(turn, s, i) = <<>>
         /\ s[i] > 0 => Len(Streamed(turn, s, i)) = s[i] - 1
         /\ \A k \in DOMAIN Streamed(turn, s, i) :
              Streamed(turn, s, i)[k] = turn[i].parts[k] /\ k \in DOMAIN turn[i].parts
<1> DEFINE p == turn[i].parts
           m == s[i]
<1>1. p \in Seq(Range(p)) /\ Len(p) \in Nat /\ m \in Nat
  BY TurnIs
<1> HIDE DEF p, m
<1>2. CASE m = 0
  <2>1. SubSeq(p, 1, m - 1) = <<>>
    BY <1>1, <1>2
  <2>2. DOMAIN SubSeq(p, 1, m - 1) = {}
    <3>1. <<>> \in Seq({}) /\ Len(<<>>) = 0
      OBVIOUS
    <3>2. DOMAIN <<>> = {}
      OBVIOUS
    <3> QED  BY <2>1, <3>2
  <2> QED  BY <1>2, <2>1, <2>2 DEF Streamed, p, m
<1>3. CASE m > 0
  <2>1. m - 1 \in 0..Len(p)
    BY <1>1, <1>3 DEF p, m
  <2>2. /\ SubSeq(p, 1, m - 1) \in Seq(Range(p)) /\ Len(SubSeq(p, 1, m - 1)) = m - 1
        /\ \A k \in 1..(m - 1) : SubSeq(p, 1, m - 1)[k] = p[k]
    BY <1>1, <2>1, SubSeqProperties
  <2>3. \A k \in DOMAIN SubSeq(p, 1, m - 1) : SubSeq(p, 1, m - 1)[k] = p[k] /\ k \in DOMAIN p
    BY <1>1, <2>1, <2>2
  <2> QED  BY <1>3, <2>2, <2>3 DEF Streamed, p, m
<1> QED  BY <1>1, <1>2, <1>3

OneMore(s, i) == [s EXCEPT ![i] = @ + 1]

LEMMA StreamedGrows ==
  ASSUME NEW turn \in ServerTurns, NEW s \in [DOMAIN turn -> Nat], NEW i \in DOMAIN turn,
         s[i] \in 1..Len(turn[i].parts),
         NEW t, t = OneMore(s, i)
  PROVE  /\ t \in [DOMAIN turn -> Nat] /\ t[i] = s[i] + 1
         /\ Streamed(turn, t, i) = Append(Streamed(turn, s, i), turn[i].parts[s[i]])
         /\ \A j \in DOMAIN turn : j # i => Streamed(turn, t, j) = Streamed(turn, s, j) /\ t[j] = s[j]
<1> DEFINE p == turn[i].parts
           m == s[i]
<1>1. p \in Seq(Range(p)) /\ Len(p) \in Nat /\ m \in Nat
  BY TurnIs
<1>2. t[i] = m + 1 /\ t \in [DOMAIN turn -> Nat]
  BY DEF OneMore
<1>3. \A j \in DOMAIN turn : j # i => t[j] = s[j]
  BY DEF OneMore
<1>4. SubSeq(p, 1, m) = Append(SubSeq(p, 1, m - 1), p[m])
  <2> HIDE DEF p, m
  <2>1. m \in 1..Len(p)
    BY DEF p, m
  <2> DEFINE a == SubSeq(p, 1, m)
             b == SubSeq(p, 1, m - 1)
  <2>2. a \in Seq(Range(p)) /\ Len(a) = m /\ \A k \in 1..m : a[k] = p[k]
    BY <1>1, <2>1, SubSeqProperties
  <2>3. b \in Seq(Range(p)) /\ Len(b) = m - 1 /\ \A k \in 1..(m - 1) : b[k] = p[k]
    <3>1. m - 1 <= Len(p) /\ m - 1 \in Nat
      BY <1>1, <2>1
    <3> QED  BY <1>1, <3>1, SubSeqProperties
  <2>4. p[m] \in Range(p)
    BY <1>1, <2>1 DEF Range
  <2> HIDE DEF a, b
  <2> DEFINE c == Append(b, p[m])
  <2>5. c \in Seq(Range(p)) /\ Len(c) = m /\ \A k \in 1..m : c[k] = p[k]
    <3>1. c \in Seq(Range(p)) /\ Len(c) = (m - 1) + 1
      BY <2>3, <2>4, AppendProperties
    <3>2. \A k \in 1..(m - 1) : c[k] = b[k]
      BY <2>3, <2>4, AppendProperties
    <3>3. c[(m - 1) + 1] = p[m]
      BY <2>3, <2>4, AppendProperties
    <3>4. \A k \in 1..m : k \in 1..(m - 1) \/ k = (m - 1) + 1
      BY <2>1
    <3>5. \A k \in 1..m : c[k] = p[k]
      BY <2>1, <2>3, <3>2, <3>3, <3>4
    <3> QED  BY <2>1, <3>1, <3>5
  <2> HIDE DEF c
  <2>6. a = c
    <3>1. Len(a) = Len(c) /\ \A k \in 1..Len(a) : a[k] = c[k]
      BY <2>2, <2>5
    <3> QED  BY <2>2, <2>5, <3>1, SeqEqual
  <2> QED  BY <2>6 DEF a, b, c
<1>5. (m + 1) - 1 = m
  BY <1>1
<1> QED  BY <1>2, <1>3, <1>4, <1>5 DEF Streamed

\* What a text has of some pieces does not change with a piece that is none of
\* them, and grows by one that is.
HasAlike(text, parts, more) ==
  \A k \in DOMAIN text : text[k] \in Range(more) <=> text[k] \in Range(parts)

LEMMA AmongGrows ==
  ASSUME NEW S, NEW text \in Seq(S), NEW x \in S, NEW parts, NEW more,
         HasAlike(text, parts, more)
  PROVE  Among(Append(text, x), more) =
           IF x \in Range(more) THEN Append(Among(text, parts), x) ELSE Among(text, parts)
<1> DEFINE m == Len(text)
           new == Append(text, x)
           I == {k \in DOMAIN text : text[k] \in Range(parts)}
           J == {k \in DOMAIN new : new[k] \in Range(more)}
<1>1. /\ m \in Nat /\ DOMAIN text = 1..m /\ DOMAIN new = 1..(m + 1)
      /\ \A k \in 1..m : new[k] = text[k]
      /\ new[m + 1] = x
  <2>1. new \in Seq(S) /\ Len(new) = m + 1 /\ new[m + 1] = x /\ \A k \in 1..m : new[k] = text[k]
    BY AppendProperties
  <2> HIDE DEF new
  <2>2. DOMAIN new = 1..(m + 1)
    BY <2>1
  <2> QED  BY <2>1, <2>2
<1>2. \A k \in 1..(m + 1) : k \in 1..m \/ k = m + 1
  BY <1>1
<1>3. I \in SUBSET (1..m) /\ m + 1 \notin I /\ m + 1 \in 1..(m + 1)
  BY <1>1
<1>4. J = IF x \in Range(more) THEN I \cup {m + 1} ELSE I
  <2> HIDE DEF m, new
  <2>1. \A k \in 1..m : k \in J <=> k \in I
    BY <1>1 DEF HasAlike
  <2>2. m + 1 \in J <=> x \in Range(more)
    BY <1>1, <1>3
  <2>3. \A k : k \in J \/ k \in I => k \in 1..m \/ k = m + 1
    BY <1>1, <1>2
  <2>4. \A k : k \in I => k \in 1..m
    BY <1>3
  <2> HIDE DEF I, J
  <2>5. CASE x \in Range(more)
    <3>1. \A k : k \in J <=> k \in I \/ k = m + 1
      BY <2>1, <2>2, <2>3, <2>4, <2>5
    <3> QED  BY <2>5, <3>1
  <2>6. CASE x \notin Range(more)
    <3>1. \A k : k \in J <=> k \in I
      BY <2>1, <2>2, <2>3, <2>4, <2>6
    <3> QED  BY <2>6, <3>1
  <2> QED  BY <2>5, <2>6
<1>5. Selected(new, I) = Selected(text, I)
  <2> HIDE DEF m, new, I
  <2>1. \A i \in I : new[i] = text[i]
    BY <1>1, <1>3
  <2> QED  BY <1>1, <1>3, <2>1, SelectedAgrees
<1>6. Selected(new, I \cup {m + 1}) = Append(Selected(new, I), new[m + 1])
  <2> HIDE DEF m, new, I
  <2> QED  BY <1>1, <1>3, SelectedGrows
<1>7. Among(new, more) = Selected(new, J) /\ Among(text, parts) = Selected(text, I)
  BY DEF Among
<1> HIDE DEF m, new, I, J
<1>8. Among(new, more) = IF x \in Range(more) THEN Append(Among(text, parts), x) ELSE Among(text, parts)
  BY <1>1, <1>4, <1>5, <1>6, <1>7
<1> QED  BY <1>8 DEF new

\* A delta of a text adds to what the reply says of its block, and of no other.
LEMMA TextStreams ==
  ASSUME NEW turn \in ServerTurns, NEW n, NEW s, Counts(turn, s, n),
         NEW text, TextIsOf(text, turn, s),
         NEW i \in TextBlocks(turn), s[i] \in 1..Len(turn[i].parts),
         NEW t, t = OneMore(s, i)
  PROVE  TextIsOf(Append(text, turn[i].parts[s[i]]), turn, t)
<1> DEFINE x == turn[i].parts[s[i]]
           T == TextBlocks(turn)
           S == Range(text) \cup {x}
           old(j) == Streamed(turn, s, j)
           new(j) == Streamed(turn, t, j)
<1>1. i \in DOMAIN turn /\ s \in [DOMAIN turn -> Nat] /\ \A j \in T : j \in DOMAIN turn
  BY DEF TextBlocks, Counts
<1>2. /\ new(i) = Append(old(i), x)
      /\ \A j \in T : j # i => new(j) = old(j)
  <2>1. /\ t \in [DOMAIN turn -> Nat] /\ t[i] = s[i] + 1
        /\ Streamed(turn, t, i) = Append(Streamed(turn, s, i), turn[i].parts[s[i]])
        /\ \A j \in DOMAIN turn : j # i => Streamed(turn, t, j) = Streamed(turn, s, j) /\ t[j] = s[j]
    <3> HIDE DEF x, T
    <3>1. i \in DOMAIN turn /\ s \in [DOMAIN turn -> Nat]
      BY <1>1
    <3> QED  BY <3>1, StreamedGrows
  <2> QED  BY <1>1, <2>1
<1>3. \A j \in T : old(j) \in Seq(Range(turn[j].parts)) /\ Range(old(j)) \subseteq Range(turn[j].parts)
  <2> TAKE j \in T
  <2>1. s[j] <= Len(turn[j].parts) + 1
    BY <1>1 DEF Counts
  <2>2. old(j) \in Seq(Range(turn[j].parts))
    BY <1>1, <2>1, StreamedIs
  <2> HIDE DEF old
  <2>3. Range(old(j)) \subseteq Range(turn[j].parts)
    BY <2>2, RangeOfSeq
  <2> QED  BY <2>2, <2>3
<1>4. x \in Range(turn[i].parts)
  BY <1>1, TurnIs DEF Range
<1>5. Range(new(i)) = Range(old(i)) \cup {x}
  <2> DEFINE o == old(i)
             P == Range(turn[i].parts)
  <2>1. o \in Seq(P) /\ x \in P
    BY <1>3, <1>4
  <2> HIDE DEF o, x, P
  <2>2. /\ Append(o, x) \in Seq(P) /\ Len(Append(o, x)) = Len(o) + 1
        /\ (\A k \in 1..Len(o) : Append(o, x)[k] = o[k]) /\ Append(o, x)[Len(o) + 1] = x
        /\ Len(o) \in Nat
    BY <2>1, AppendProperties
  <2>3. DOMAIN o = 1..Len(o) /\ DOMAIN Append(o, x) = 1..(Len(o) + 1)
    BY <2>1, <2>2
  <2>4. \A k \in 1..(Len(o) + 1) : k \in 1..Len(o) \/ k = Len(o) + 1
    BY <2>2
  <2>5. Len(o) + 1 \in 1..(Len(o) + 1) /\ \A k \in 1..Len(o) : k \in 1..(Len(o) + 1)
    BY <2>2
  <2>6. Range(Append(o, x)) = Range(o) \cup {x}
    BY <2>2, <2>3, <2>4, <2>5 DEF Range
  <2> QED  BY <1>2, <2>6 DEF o
<1>6. \A j \in T : j # i => x \notin Range(turn[j].parts)
  <2> TAKE j \in T
  <2>1. j # i => Range(turn[i].parts) \cap Range(turn[j].parts) = {}
    <3>1. turn[i].kind = "text" /\ turn[j].kind = "text" /\ j \in DOMAIN turn
      BY DEF TextBlocks
    <3>2. i # j /\ turn[i].kind = turn[j].kind =>
            IF turn[i].kind = "tool_use" THEN IdOf(turn, i) # IdOf(turn, j)
            ELSE Range(turn[i].parts) \cap Range(turn[j].parts) = {}
      BY <1>1, <3>1, BlocksAreApart
    <3>3. "text" # "tool_use"
      OBVIOUS
    <3> QED  BY <3>1, <3>2, <3>3
  <2> QED  BY <1>4, <2>1
<1> HIDE DEF old, new, x
<1>7. text \in Seq(S) /\ x \in S
  <2>1. text \in Seq(Range(text)) /\ Range(text) \subseteq S
    BY DEF TextIsOf
  <2> HIDE DEF S
  <2>2. text \in Seq(S)
    BY <2>1, SeqMonotonic
  <2> QED  BY <2>2 DEF S
<1>8. \A k \in DOMAIN text : \E j \in T : text[k] \in Range(old(j))
  BY DEF TextIsOf, old
<1>9. \A j \in T : Among(text, old(j)) = old(j)
  BY DEF TextIsOf, old
<1>10. \A j \in T : Among(Append(text, x), new(j)) = new(j)
  <2> TAKE j \in T
  <2>1. CASE j = i
    <3>1. HasAlike(text, old(i), new(i))
      <4> SUFFICES ASSUME NEW k \in DOMAIN text
                   PROVE  text[k] \in Range(new(i)) <=> text[k] \in Range(old(i))
        BY DEF HasAlike
      <4>1. PICK l \in T : text[k] \in Range(old(l))
        BY <1>8
      <4>2. text[k] = x => l = i
        BY <1>3, <1>6, <4>1
      <4> QED  BY <1>5, <4>1, <4>2
    <3>2. x \in Range(new(i))
      BY <1>5
    <3>3. Among(Append(text, x), new(i)) =
            IF x \in Range(new(i)) THEN Append(Among(text, old(i)), x) ELSE Among(text, old(i))
      <4> HIDE DEF S
      <4> QED  BY <1>7, <3>1, AmongGrows
    <3> QED  BY <1>2, <1>9, <2>1, <3>2, <3>3
  <2>2. CASE j # i
    <3>1. new(j) = old(j) /\ x \notin Range(old(j))
      BY <1>2, <1>3, <1>6, <2>2
    <3>2. HasAlike(text, old(j), old(j))
      BY DEF HasAlike
    <3>3. Among(Append(text, x), old(j)) =
            IF x \in Range(old(j)) THEN Append(Among(text, old(j)), x) ELSE Among(text, old(j))
      <4> HIDE DEF S
      <4> QED  BY <1>7, <3>2, AmongGrows
    <3> QED  BY <1>9, <3>1, <3>3
  <2> QED  BY <2>1, <2>2
<1>11. /\ Append(text, x) \in Seq(Range(Append(text, x)))
       /\ \A k \in DOMAIN Append(text, x) : \E j \in T : Append(text, x)[k] \in Range(new(j))
  <2> DEFINE a == Append(text, x)
  <2> HIDE DEF S
  <2>1. /\ a \in Seq(S) /\ Len(a) = Len(text) + 1 /\ a[Len(text) + 1] = x
        /\ (\A k \in 1..Len(text) : a[k] = text[k]) /\ Len(text) \in Nat
    BY <1>7, AppendProperties
  <2> HIDE DEF a
  <2>2. a \in Seq(Range(a))
    BY <2>1, SeqOfRange
  <2>3. \A k \in DOMAIN a : k \in 1..Len(text) \/ k = Len(text) + 1
    BY <2>1
  <2>4. \A k \in 1..Len(text) : k \in DOMAIN text
    BY <1>7
  <2>5. \A j \in T : Range(old(j)) \subseteq Range(new(j))
    BY <1>2, <1>5
  <2>6. \A k \in DOMAIN a : \E j \in T : a[k] \in Range(new(j))
    <3> TAKE k \in DOMAIN a
    <3>1. CASE k = Len(text) + 1
      BY <1>5, <2>1, <3>1
    <3>2. CASE k \in 1..Len(text)
      BY <1>8, <2>1, <2>4, <2>5, <3>2
    <3> QED  BY <2>3, <3>1, <3>2
  <2> QED  BY <2>2, <2>6 DEF a
<1> QED  BY <1>10, <1>11 DEF TextIsOf, new, x

\* The block behind the first n has started.
OneStarted(s, n) == [s EXCEPT ![n + 1] = 1]

\* A block that starts has said nothing yet, and has a call if it is one.
LEMMA NothingSaid ==
  ASSUME NEW turn \in ServerTurns, NEW n \in Nat, NEW s, Counts(turn, s, n), n < Len(turn),
         NEW t, t = OneStarted(s, n)
  PROVE  /\ Counts(turn, t, n + 1)
         /\ \A j \in DOMAIN turn : Streamed(turn, t, j) = Streamed(turn, s, j)
         /\ Streamed(turn, t, n + 1) = <<>>
<1>1. DOMAIN turn = 1..Len(turn) /\ Len(turn) \in Nat /\ s \in [DOMAIN turn -> Nat]
  BY TurnIs DEF Counts
<1>2. n + 1 \in DOMAIN turn /\ s[n + 1] = 0
  <2>1. n + 1 \in DOMAIN turn
    BY <1>1
  <2>2. s[n + 1] \in Nat /\ (s[n + 1] > 0 <=> n + 1 <= n)
    BY <1>1, <2>1 DEF Counts
  <2> QED  BY <2>1, <2>2
<1>3. t \in [DOMAIN turn -> Nat] /\ t[n + 1] = 1 /\ \A j \in DOMAIN turn : j # n + 1 => t[j] = s[j]
  BY <1>1, <1>2 DEF OneStarted
<1>4. \A j \in DOMAIN turn : t[j] <= Len(turn[j].parts) + 1 /\ (t[j] > 0 <=> j <= n + 1)
  <2> TAKE j \in DOMAIN turn
  <2>1. j \in Nat /\ Len(turn[j].parts) \in Nat /\ s[j] \in Nat
    BY <1>1, TurnIs
  <2>2. s[j] <= Len(turn[j].parts) + 1 /\ (s[j] > 0 <=> j <= n)
    BY DEF Counts
  <2> QED  BY <1>2, <1>3, <2>1, <2>2
<1>5. \A j \in DOMAIN turn : j # n + 1 => Streamed(turn, t, j) = Streamed(turn, s, j)
  BY <1>3 DEF Streamed
<1>6. Streamed(turn, s, n + 1) = <<>>
  <2>1. s[n + 1] <= Len(turn[n + 1].parts) + 1
    BY <1>2 DEF Counts
  <2> QED  BY <1>1, <1>2, <2>1, StreamedIs
<1>7. Streamed(turn, t, n + 1) = <<>>
  <2>1. turn[n + 1].parts \in Seq(Range(turn[n + 1].parts))
    BY <1>2, TurnIs
  <2>2. SubSeq(turn[n + 1].parts, 1, 0) = <<>>
    BY <2>1
  <2>3. t[n + 1] - 1 = 0
    BY <1>3
  <2>4. Streamed(turn, t, n + 1) = SubSeq(turn[n + 1].parts, 1, t[n + 1] - 1)
    BY DEF Streamed
  <2> QED  BY <2>2, <2>3, <2>4
<1> QED  BY <1>3, <1>4, <1>5, <1>6, <1>7 DEF Counts

LEMMA BlockStarts ==
  ASSUME NEW turn \in ServerTurns, NEW n \in Nat, NEW s, Counts(turn, s, n), n < Len(turn),
         NEW t, t = OneStarted(s, n),
         NEW text, TextIsOf(text, turn, s)
  PROVE  /\ Counts(turn, t, n + 1) /\ TextIsOf(text, turn, t)
         /\ BlocksStarted(turn, n + 1) =
              Append(BlocksStarted(turn, n), [kind |-> turn[n + 1].kind, id |-> IdOf(turn, n + 1)])
         /\ CallsStarted(turn, t, n + 1) =
              IF turn[n + 1].kind = "tool_use"
              THEN Append(CallsStarted(turn, s, n), [id |-> IdOf(turn, n + 1), args |-> <<>>])
              ELSE CallsStarted(turn, s, n)
<1>1. /\ Counts(turn, t, n + 1)
      /\ \A j \in DOMAIN turn : Streamed(turn, t, j) = Streamed(turn, s, j)
      /\ Streamed(turn, t, n + 1) = <<>>
  BY NothingSaid
<1>2. \A j \in TextBlocks(turn) : Streamed(turn, t, j) = Streamed(turn, s, j)
  BY <1>1 DEF TextBlocks
<1>3. TextIsOf(text, turn, t)
  BY <1>2 DEF TextIsOf
<1>4. CallAt(turn, t) = CallAt(turn, s)
  BY <1>1 DEF CallAt
<1>5. BlocksStarted(turn, n + 1) =
        Append(BlocksStarted(turn, n), [kind |-> turn[n + 1].kind, id |-> IdOf(turn, n + 1)])
  <2> DEFINE b(i) == [kind |-> turn[i].kind, id |-> IdOf(turn, i)]
             B == {b(i) : i \in 1..(n + 1)}
  <2>1. \A i \in 1..(n + 1) : b(i) \in B
    OBVIOUS
  <2> HIDE DEF b, B
  <2> DEFINE f == [i \in 1..n |-> b(i)]
             g == [i \in 1..(n + 1) |-> b(i)]
  <2>2. f \in Seq(B) /\ Len(f) = n
    BY <2>1
  <2>3. g \in Seq(B) /\ Len(g) = n + 1
    BY <2>1
  <2>4. /\ Append(f, b(n + 1)) \in Seq(B) /\ Len(Append(f, b(n + 1))) = n + 1
        /\ Append(f, b(n + 1))[n + 1] = b(n + 1)
        /\ \A i \in 1..n : Append(f, b(n + 1))[i] = f[i]
    <3>1. b(n + 1) \in B
      BY <2>1
    <3> HIDE DEF f
    <3> QED  BY <2>2, <3>1, AppendProperties
  <2>5. \A i \in 1..(n + 1) : g[i] = Append(f, b(n + 1))[i]
    <3>1. \A i \in 1..(n + 1) : i \in 1..n \/ i = n + 1
      OBVIOUS
    <3> QED  BY <2>4, <3>1
  <2> HIDE DEF f, g
  <2>6. g = Append(f, b(n + 1))
    BY <2>3, <2>4, <2>5, SeqEqual
  <2> QED  BY <2>6 DEF f, g, b, BlocksStarted
<1> DEFINE I == UsePlaces(turn)
           c == CallAt(turn, s)
<1>6. /\ n + 1 \in I => UpTo(I, n + 1) = UpTo(I, n) \cup {n + 1}
      /\ n + 1 \notin I => UpTo(I, n + 1) = UpTo(I, n)
  <2>1. I \subseteq Nat
    <3>1. I \in SUBSET (1..Len(turn)) /\ Len(turn) \in Nat
      BY TurnIs
    <3> HIDE DEF I
    <3> QED  BY <3>1
  <2> HIDE DEF I
  <2> QED  BY <2>1, OnePlaceMore
<1>7. Selected(c, UpTo(I, n) \cup {n + 1}) = Append(Selected(c, UpTo(I, n)), c[n + 1])
  <2>1. UpTo(I, n) \in SUBSET (1..n)
    BY TurnIs
  <2> HIDE DEF I, c
  <2> QED  BY <2>1, SelectedGrows
<1>8. n + 1 \in DOMAIN turn
  BY TurnIs
<1>9. c[n + 1] = [id |-> IdOf(turn, n + 1), args |-> <<>>]
  BY <1>1, <1>8 DEF CallAt
<1>10. n + 1 \in I <=> turn[n + 1].kind = "tool_use"
  BY <1>8 DEF UsePlaces
<1> HIDE DEF I, c
<1>11. CallsStarted(turn, t, n + 1) = Selected(c, UpTo(I, n + 1))
       /\ CallsStarted(turn, s, n) = Selected(c, UpTo(I, n))
  BY <1>4 DEF CallsStarted, I, c
<1> QED  BY <1>1, <1>3, <1>5, <1>6, <1>7, <1>9, <1>10, <1>11

\* What the calls are that were started.
LEMMA CallsStartedAre ==
  ASSUME NEW turn \in ServerTurns, NEW n \in Nat, NEW s
  PROVE  LET I == UpTo(UsePlaces(turn), n)
         IN /\ Cardinality(I) \in Nat /\ Enumerates(I)
            /\ CallsStarted(turn, s, n) =
                 [k \in 1..Cardinality(I) |-> [id |-> IdOf(turn, Nth(I, k)),
                                               args |-> Streamed(turn, s, Nth(I, k))]]
            /\ \A k \in 1..Cardinality(I) : /\ Nth(I, k) \in UsePlaces(turn)
                                             /\ Nth(I, k) \in DOMAIN turn
                                             /\ Nth(I, k) <= n
<1> DEFINE I == UpTo(UsePlaces(turn), n)
           c == Cardinality(I)
<1>1. I \in SUBSET (1..n)
  BY TurnIs
<1>2. Enumerates(I) /\ c \in Nat
  <2> HIDE DEF I
  <2> QED  BY <1>1, PlacesAreEnumerated
<1>3. \A k \in 1..c : Nth(I, k) \in I
  BY <1>2 DEF Enumerates
<1>4. \A i \in I : i \in UsePlaces(turn) /\ i \in DOMAIN turn /\ i <= n
  BY DEF UpTo, UsePlaces
<1> HIDE DEF I, c
<1>5. CallsStarted(turn, s, n) = [k \in 1..c |-> CallAt(turn, s)[Nth(I, k)]]
  BY DEF CallsStarted, Selected, I, c
<1>6. \A k \in 1..c : CallAt(turn, s)[Nth(I, k)] = [id |-> IdOf(turn, Nth(I, k)),
                                                    args |-> Streamed(turn, s, Nth(I, k))]
  BY <1>3, <1>4 DEF CallAt
<1>7. CallsStarted(turn, s, n) = [k \in 1..c |-> [id |-> IdOf(turn, Nth(I, k)),
                                                  args |-> Streamed(turn, s, Nth(I, k))]]
  BY <1>5, <1>6
<1> QED  BY <1>2, <1>3, <1>4, <1>7 DEF I, c

LEMMA UsesHaveTheirIds ==
  ASSUME NEW turn \in ServerTurns, NEW i \in UsePlaces(turn), NEW j \in UsePlaces(turn),
         IdOf(turn, i) = IdOf(turn, j)
  PROVE  i = j
<1>1. i \in DOMAIN turn /\ j \in DOMAIN turn /\ turn[i].kind = "tool_use" /\ turn[j].kind = "tool_use"
  BY DEF UsePlaces
<1>2. i # j /\ turn[i].kind = turn[j].kind =>
        IF turn[i].kind = "tool_use" THEN IdOf(turn, i) # IdOf(turn, j)
        ELSE Range(turn[i].parts) \cap Range(turn[j].parts) = {}
  BY <1>1, BlocksAreApart
<1> QED  BY <1>1, <1>2

\* A delta of a call is added to the call of its block, and to no other.
LEMMA CallStreams ==
  ASSUME NEW turn \in ServerTurns, NEW n \in Nat, NEW s, Counts(turn, s, n),
         NEW i \in UsePlaces(turn), s[i] \in 1..Len(turn[i].parts),
         NEW t, t = OneMore(s, i)
  PROVE  Added(CallsStarted(turn, s, n), IdOf(turn, i), turn[i].parts[s[i]]) = CallsStarted(turn, t, n)
<1> DEFINE I == UpTo(UsePlaces(turn), n)
           c == Cardinality(I)
           x == turn[i].parts[s[i]]
           old == CallsStarted(turn, s, n)
           new == CallsStarted(turn, t, n)
<1>1. i \in DOMAIN turn /\ s \in [DOMAIN turn -> Nat]
  BY DEF UsePlaces, Counts
<1>2. /\ t \in [DOMAIN turn -> Nat] /\ t[i] = s[i] + 1
      /\ Streamed(turn, t, i) = Append(Streamed(turn, s, i), turn[i].parts[s[i]])
      /\ \A j \in DOMAIN turn : j # i => Streamed(turn, t, j) = Streamed(turn, s, j) /\ t[j] = s[j]
  <2> HIDE DEF x
  <2> QED  BY <1>1, StreamedGrows
<1>3. /\ old = [k \in 1..c |-> [id |-> IdOf(turn, Nth(I, k)), args |-> Streamed(turn, s, Nth(I, k))]]
      /\ new = [k \in 1..c |-> [id |-> IdOf(turn, Nth(I, k)), args |-> Streamed(turn, t, Nth(I, k))]]
      /\ \A k \in 1..c : Nth(I, k) \in UsePlaces(turn) /\ Nth(I, k) \in DOMAIN turn
  BY CallsStartedAre
<1> HIDE DEF x, I, c, old, new
<1>4. \A k \in 1..c : new[k] = IF old[k].id # IdOf(turn, i) THEN old[k]
                               ELSE [old[k] EXCEPT !.args = Append(@, x)]
  <2> TAKE k \in 1..c
  <2>1. /\ old[k] = [id |-> IdOf(turn, Nth(I, k)), args |-> Streamed(turn, s, Nth(I, k))]
        /\ new[k] = [id |-> IdOf(turn, Nth(I, k)), args |-> Streamed(turn, t, Nth(I, k))]
    BY <1>3
  <2>2. CASE Nth(I, k) = i
    <3>1. [old[k] EXCEPT !.args = Append(@, x)] =
            [id |-> IdOf(turn, i), args |-> Append(Streamed(turn, s, i), x)]
      BY <2>1, <2>2
    <3> QED  BY <1>2, <2>1, <2>2, <3>1 DEF x
  <2>3. CASE Nth(I, k) # i
    <3>1. IdOf(turn, Nth(I, k)) # IdOf(turn, i)
      BY <1>3, <2>3, UsesHaveTheirIds
    <3> QED  BY <1>2, <1>3, <2>1, <2>3, <3>1
  <2> QED  BY <2>2, <2>3
<1>5. DOMAIN old = 1..c /\ new = [k \in 1..c |-> new[k]]
  BY <1>3
<1>6. Added(old, IdOf(turn, i), x) = new
  BY <1>4, <1>5 DEF Added
<1> QED  BY <1>6 DEF old, new, x

-----------------------------------------------------------------------------
(* What the next request says of a reply is what was sent of it.             *)

Sent(turn, s, n) == [i \in 1..n |-> [turn[i] EXCEPT !.parts = Streamed(turn, s, i)]]

LEMMA SentIs ==
  ASSUME NEW turn \in ServerTurns, NEW n \in 0..Len(turn), NEW s
  PROVE  \A i \in 1..n : Sent(turn, s, n)[i] = [kind |-> turn[i].kind, id |-> turn[i].id,
                                              parts |-> Streamed(turn, s, i)]
<1> TAKE i \in 1..n
<1>1. i \in DOMAIN turn
  BY TurnIs
<1>2. turn[i] = [kind |-> turn[i].kind, id |-> turn[i].id, parts |-> turn[i].parts]
  BY <1>1, AnthropicAssumption
<1> DEFINE x == Streamed(turn, s, i)
<1> HIDE DEF x
<1>3. [turn[i] EXCEPT !.parts = x] = [kind |-> turn[i].kind, id |-> turn[i].id, parts |-> x]
  BY <1>2
<1> QED  BY <1>3 DEF Sent, x

LEMMA CallsOfSent ==
  ASSUME NEW turn \in ServerTurns, NEW n \in 0..Len(turn), NEW s
  PROVE  LET I == UpTo(UsePlaces(turn), n)
         IN OfKind(Sent(turn, s, n), "tool_use") = [k \in 1..Cardinality(I) |-> Sent(turn, s, n)[Nth(I, k)]]
<1> DEFINE b == Sent(turn, s, n)
           I == UpTo(UsePlaces(turn), n)
<1>1. DOMAIN b = 1..n /\ \A i \in 1..n : b[i].kind = turn[i].kind
  <2>1. DOMAIN b = 1..n
    BY DEF Sent
  <2>2. \A i \in 1..n : b[i] = [kind |-> turn[i].kind, id |-> turn[i].id, parts |-> Streamed(turn, s, i)]
    BY SentIs
  <2> HIDE DEF b
  <2> QED  BY <2>1, <2>2
<1>2. DOMAIN turn = 1..Len(turn) /\ Len(turn) \in Nat
  BY TurnIs
<1> HIDE DEF b
<1>3. {i \in DOMAIN b : b[i].kind = "tool_use"} = I
  <2>1. \A i \in 1..n : i \in 1..Len(turn) /\ i <= n
    BY <1>2
  <2>2. \A i \in 1..Len(turn) : i <= n => i \in 1..n
    BY <1>2
  <2> QED  BY <1>1, <1>2, <2>1, <2>2 DEF UpTo, UsePlaces
<1> HIDE DEF I
<1>4. OfKind(b, "tool_use") = [k \in 1..Cardinality(I) |-> b[Nth(I, k)]]
  BY <1>3 DEF OfKind, Selected
<1> QED  BY <1>4 DEF b, I

\* A request has the text of a reply, if it has any, and then its calls.
Uttered(text) == IF text = <<>> THEN <<>> ELSE << [type |-> "text", text |-> text] >>
ContentOf(text, calls) == Uttered(text) \o ToolUses(calls)

LEMMA ContentIs ==
  ASSUME NEW text, NEW S, NEW calls \in Seq(S)
  PROVE  /\ OfType(ContentOf(text, calls), "tool_use") = ToolUses(calls)
         /\ OfType(ContentOf(text, calls), "text") = Uttered(text)
<1> DEFINE u == Uttered(text)
           t == ToolUses(calls)
           c == Len(calls)
           a == Len(u)
           x == [type |-> "text", text |-> text]
           R == {x} \cup {t[i] : i \in 1..c}
           z == u \o t
<1>1. c \in Nat /\ DOMAIN t = 1..c /\ \A i \in 1..c : t[i] \in R
  <2>1. DOMAIN calls = 1..c /\ c \in Nat
    OBVIOUS
  <2>2. DOMAIN t = 1..c
    BY <2>1 DEF ToolUses
  <2> HIDE DEF t
  <2> QED  BY <2>1, <2>2
<1>2. \A i \in 1..c : t[i].type = "tool_use"
  <2>1. DOMAIN calls = 1..c
    OBVIOUS
  <2> QED  BY <2>1 DEF ToolUses
<1>3. t \in Seq(R) /\ Len(t) = c /\ t = [i \in 1..c |-> t[i]]
  <2>1. t = [i \in 1..c |-> t[i]]
    BY <1>1 DEF ToolUses
  <2> HIDE DEF t, R, c
  <2> QED  BY <1>1, <2>1
<1>4. u \in Seq(R) /\ a \in {0, 1} /\ (a = 0 => u = <<>>) /\ (a = 1 => u = <<x>>)
  <2>1. x \in R
    OBVIOUS
  <2> HIDE DEF R, x
  <2>2. <<>> \in Seq(R) /\ <<x>> \in Seq(R) /\ Len(<<>>) = 0 /\ Len(<<x>>) = 1
    BY <2>1
  <2>3. u = <<>> \/ u = <<x>>
    BY DEF Uttered, x
  <2> HIDE DEF u
  <2>4. CASE u = <<>>
    BY <2>2, <2>4
  <2>5. CASE u = <<x>>
    BY <2>2, <2>5
  <2> QED  BY <2>3, <2>4, <2>5
<1>5. \A i \in 1..a : u[i].type = "text"
  <2>1. x.type = "text" /\ <<x>>[1] = x
    OBVIOUS
  <2> HIDE DEF u, x, a
  <2>2. \A i \in 1..a : i = 1 /\ a = 1
    BY <1>4
  <2> QED  BY <1>4, <2>1, <2>2
<1> HIDE DEF u, t, c, a, x, R, z
<1>6. /\ z \in Seq(R) /\ Len(z) = a + c
      /\ \A i \in 1..a : z[i] = u[i]
      /\ \A i \in 1..c : z[a + i] = t[i]
  <2>1. /\ u \o t \in Seq(R) /\ Len(u \o t) = Len(u) + Len(t)
        /\ \A i \in 1..Len(u) : (u \o t)[i] = u[i]
        /\ \A i \in 1..Len(t) : (u \o t)[Len(u) + i] = t[i]
    <3>1. u \in Seq(R) /\ t \in Seq(R)
      BY <1>3, <1>4
    <3> QED  BY <3>1, TwoParts
  <2> QED  BY <1>3, <2>1 DEF z, a
<1>7. a \in Nat /\ DOMAIN z = 1..(a + c)
  BY <1>1, <1>4, <1>6
<1>8. \A i \in 1..(a + c) : i \in 1..a \/ (i \in (a + 1)..(a + c) /\ i - a \in 1..c /\ a + (i - a) = i)
  BY <1>1, <1>7
<1>9. \A i \in 1..(a + c) : /\ i \in 1..a <=> z[i].type = "text"
                            /\ i \in (a + 1)..(a + c) <=> z[i].type = "tool_use"
  <2> TAKE i \in 1..(a + c)
  <2>1. "text" # "tool_use"
    OBVIOUS
  <2>2. ~(i \in 1..a /\ i \in (a + 1)..(a + c))
    BY <1>1, <1>7
  <2>3. i \in 1..a => z[i].type = "text"
    BY <1>5, <1>6
  <2>4. i \in (a + 1)..(a + c) => z[i].type = "tool_use"
    BY <1>2, <1>6, <1>8, <2>2
  <2> QED  BY <1>8, <2>1, <2>2, <2>3, <2>4
<1>10. \A i : (i \in 1..a \/ i \in (a + 1)..(a + c)) => i \in 1..(a + c)
  BY <1>1, <1>7
<1>11. {i \in DOMAIN z : z[i].type = "tool_use"} = (a + 1)..(a + c)
  BY <1>7, <1>9, <1>10
<1>12. {i \in DOMAIN z : z[i].type = "text"} = 1..a
  BY <1>7, <1>9, <1>10
<1>13. OfType(z, "tool_use") = [k \in 1..c |-> z[a + k]]
  <2>1. Selected(z, (a + 1)..(a + c)) = [k \in 1..c |-> z[a + k]]
    BY <1>1, <1>7, SelectedStretch
  <2> QED  BY <1>11, <2>1 DEF OfType
<1>14. OfType(z, "text") = [k \in 1..a |-> z[k]]
  <2>1. Selected(z, 1..a) = [k \in 1..a |-> z[k]]
    BY <1>7, SelectedStart
  <2> QED  BY <1>12, <2>1 DEF OfType
<1>15. OfType(z, "tool_use") = t
  BY <1>3, <1>6, <1>13
<1>16. OfType(z, "text") = u
  <2>1. \A k \in 1..a : z[k] = u[k]
    BY <1>6, <1>7
  <2>2. u = [k \in 1..a |-> u[k]]
    BY <1>4 DEF a
  <2> QED  BY <1>14, <2>1, <2>2
<1> QED  BY <1>15, <1>16 DEF z, u, t, ContentOf

\* Arguments that were not cut short parse.
LEMMA WholeArgumentsParse ==
  ASSUME NEW turn \in ServerTurns, NEW s \in [DOMAIN turn -> Nat], NEW i \in UsePlaces(turn),
         s[i] <= Len(turn[i].parts) + 1,
         Streamed(turn, s, i) # <<>>, Last(Streamed(turn, s, i)) = CloseBrace
  PROVE  ParsesAsJson(Streamed(turn, s, i))
<1> DEFINE p == turn[i].parts
           q == Streamed(turn, s, i)
<1>1. i \in DOMAIN turn /\ turn[i].kind = "tool_use"
  BY DEF UsePlaces
<1>2. /\ q \in Seq(Range(p))
      /\ \A k \in DOMAIN q : q[k] = p[k] /\ k \in DOMAIN p
  <2>1. /\ Streamed(turn, s, i) \in Seq(Range(turn[i].parts))
        /\ s[i] = 0 => Streamed(turn, s, i) = <<>>
        /\ s[i] > 0 => Len(Streamed(turn, s, i)) = s[i] - 1
        /\ \A k \in DOMAIN Streamed(turn, s, i) :
             Streamed(turn, s, i)[k] = turn[i].parts[k] /\ k \in DOMAIN turn[i].parts
    BY <1>1, StreamedIs
  <2> QED  BY <2>1
<1>3. \A k \in DOMAIN p : p[k] = OpenBrace <=> k = 1
  BY <1>1, AnthropicAssumption
<1> HIDE DEF p, q
<1>4. q # <<>> /\ DOMAIN q = 1..Len(q) /\ Len(q) \in Nat /\ 1 \in DOMAIN q
  <2>1. q # <<>>
    BY DEF q
  <2> QED  BY <1>2, <2>1
<1>5. Head(q) = OpenBrace
  <2>1. q[1] = OpenBrace
    BY <1>2, <1>3, <1>4
  <2> QED  BY <1>2, <1>4, <2>1
<1>6. \A k \in 2..Len(q) : q[k] # OpenBrace
  <2> TAKE k \in 2..Len(q)
  <2>1. k \in DOMAIN q /\ k # 1
    BY <1>4
  <2> QED  BY <1>2, <1>3, <2>1
<1>7. Last(q) = CloseBrace
  BY DEF q
<1> QED  BY <1>4, <1>5, <1>6, <1>7 DEF ParsesAsJson, q

\* The messages of a reply: what it said, and one result for each call.
ResultFor(id) == [role |-> "user", content |-> << [type |-> "tool_result", id |-> id] >>]
Reports(ms, place, text, calls) ==
  /\ ms[place].content = ContentOf(text, calls)
  /\ \A k \in 1..Len(calls) : ms[place + k] = ResultFor(calls[k].id)

LEMMA AmongNothing == \A parts : Among(<<>>, parts) = <<>>
<1> TAKE parts
<1>1. {i \in DOMAIN <<>> : <<>>[i] \in Range(parts)} = {}
  OBVIOUS
<1> QED  BY <1>1, SelectedOfNone DEF Among

LEMMA ReplyIsTold ==
  ASSUME NEW turn \in ServerTurns, NEW n \in 0..Len(turn), NEW s, Counts(turn, s, n),
         NEW text, TextIsOf(text, turn, s),
         NEW ms, NEW place, Reports(ms, place, text, CallsStarted(turn, s, n))
  PROVE  LET uses == OfType(ms[place].content, "tool_use")
             c == Len(CallsStarted(turn, s, n))
         IN /\ TellsReply(ms, place, Sent(turn, s, n))
            /\ c \in Nat /\ Len(uses) = c /\ DOMAIN uses = 1..c
<1> DEFINE I == UpTo(UsePlaces(turn), n)
           c == Cardinality(I)
           b == Sent(turn, s, n)
           cs == CallsStarted(turn, s, n)
           uses == OfType(ms[place].content, "tool_use")
           spoken == OfType(ms[place].content, "text")
           calls == OfKind(b, "tool_use")
<1>1. /\ c \in Nat /\ Enumerates(I)
      /\ cs = [k \in 1..c |-> [id |-> IdOf(turn, Nth(I, k)), args |-> Streamed(turn, s, Nth(I, k))]]
      /\ \A k \in 1..c : Nth(I, k) \in UsePlaces(turn) /\ Nth(I, k) \in DOMAIN turn /\ Nth(I, k) <= n
  <2>1. n \in Nat
    BY TurnIs
  <2> QED  BY <2>1, CallsStartedAre
<1>2. calls = [k \in 1..c |-> b[Nth(I, k)]]
  BY CallsOfSent
<1>3. \A i \in 1..n : b[i] = [kind |-> turn[i].kind, id |-> turn[i].id, parts |-> Streamed(turn, s, i)]
  BY SentIs
<1>4. s \in [DOMAIN turn -> Nat] /\ \A i \in DOMAIN turn : s[i] <= Len(turn[i].parts) + 1
  BY DEF Counts
<1>5. DOMAIN turn = 1..Len(turn) /\ Len(turn) \in Nat /\ n \in Nat
  BY TurnIs
<1>6. DOMAIN b = 1..n
  BY DEF Sent
<1> HIDE DEF I, c, b, cs
<1> DEFINE C == {cs[k] : k \in 1..c}
<1>7. cs \in Seq(C) /\ Len(cs) = c /\ DOMAIN cs = 1..c
  <2>1. cs = [k \in 1..c |-> cs[k]] /\ \A k \in 1..c : cs[k] \in C
    BY <1>1
  <2> HIDE DEF C
  <2> QED  BY <1>1, <2>1
<1> HIDE DEF C
<1>8. uses = ToolUses(cs) /\ spoken = Uttered(text)
  BY <1>7, ContentIs DEF Reports, cs
<1> HIDE DEF uses, spoken, calls
<1>9. /\ uses = [k \in 1..c |-> [type |-> "tool_use", id |-> cs[k].id, input |-> SafeParseJson(cs[k].args)]]
      /\ DOMAIN uses = 1..c /\ Len(uses) = c
  <2>1. uses = [k \in 1..c |-> [type |-> "tool_use", id |-> cs[k].id, input |-> SafeParseJson(cs[k].args)]]
    BY <1>7, <1>8 DEF ToolUses
  <2> HIDE DEF uses
  <2> QED  BY <1>1, <2>1
<1>10. DOMAIN calls = 1..c /\ Len(calls) = c
  BY <1>1, <1>2
<1>11. \A k \in 1..c :
         /\ Nth(I, k) \in 1..n /\ Nth(I, k) \in UsePlaces(turn) /\ Nth(I, k) \in DOMAIN turn
         /\ uses[k].id = IdOf(turn, Nth(I, k))
         /\ uses[k].input = SafeParseJson(Streamed(turn, s, Nth(I, k)))
         /\ calls[k].id = turn[Nth(I, k)].id
         /\ calls[k].parts = Streamed(turn, s, Nth(I, k))
         /\ cs[k].id = IdOf(turn, Nth(I, k))
  <2> TAKE k \in 1..c
  <2>1. Nth(I, k) \in 1..n /\ Nth(I, k) \in UsePlaces(turn) /\ Nth(I, k) \in DOMAIN turn
    BY <1>1, <1>5
  <2>2. cs[k] = [id |-> IdOf(turn, Nth(I, k)), args |-> Streamed(turn, s, Nth(I, k))]
    BY <1>1
  <2>3. calls[k] = [kind |-> turn[Nth(I, k)].kind, id |-> turn[Nth(I, k)].id,
                    parts |-> Streamed(turn, s, Nth(I, k))]
    BY <1>2, <1>3, <2>1
  <2> QED  BY <1>9, <2>1, <2>2, <2>3
<1>12. \A i, j \in 1..c : uses[i].id = uses[j].id => i = j
  <2> TAKE i, j \in 1..c
  <2>1. uses[i].id = uses[j].id => Nth(I, i) = Nth(I, j)
    BY <1>11, UsesHaveTheirIds
  <2>2. Rank(I, Nth(I, i)) = i /\ Rank(I, Nth(I, j)) = j
    BY <1>1 DEF Enumerates, c
  <2> QED  BY <2>1, <2>2
<1>13. \A k \in 1..c :
         /\ calls[k].id \in {NoId, uses[k].id}
         /\ uses[k].input \in {calls[k].parts, NoArguments}
         /\ calls[k].parts # <<>> /\ Last(calls[k].parts) = CloseBrace => uses[k].input = calls[k].parts
         /\ ms[place + k] = [role |-> "user", content |-> << [type |-> "tool_result", id |-> uses[k].id] >>]
  <2> TAKE k \in 1..c
  <2>1. calls[k].id \in {NoId, uses[k].id}
    BY <1>11 DEF IdOf
  <2>2. uses[k].input \in {calls[k].parts, NoArguments}
    BY <1>11 DEF SafeParseJson
  <2>3. calls[k].parts # <<>> /\ Last(calls[k].parts) = CloseBrace => uses[k].input = calls[k].parts
    <3> DEFINE q == Streamed(turn, s, Nth(I, k))
    <3>1. q # <<>> /\ Last(q) = CloseBrace => ParsesAsJson(q)
      <4>1. Nth(I, k) \in UsePlaces(turn) /\ s[Nth(I, k)] <= Len(turn[Nth(I, k)].parts) + 1
        BY <1>4, <1>11
      <4> QED  BY <1>4, <4>1, WholeArgumentsParse
    <3> HIDE DEF q
    <3>2. calls[k].parts = q /\ uses[k].input = SafeParseJson(q)
      BY <1>11 DEF q
    <3> QED  BY <3>1, <3>2 DEF SafeParseJson
  <2>4. ms[place + k] = ResultFor(cs[k].id)
    BY <1>7 DEF Reports, cs
  <2> QED  BY <1>11, <2>1, <2>2, <2>3, <2>4 DEF ResultFor
<1>14. \A x \in Range(OfKind(b, "text")) : x.parts # <<>> =>
         spoken # <<>> /\ Among(spoken[1].text, x.parts) = x.parts
  <2> SUFFICES ASSUME NEW x \in Range(OfKind(b, "text")), x.parts # <<>>
               PROVE  spoken # <<>> /\ Among(spoken[1].text, x.parts) = x.parts
    OBVIOUS
  <2> DEFINE J == {i \in DOMAIN b : b[i].kind = "text"}
  <2>1. PICK k \in 1..Cardinality(J) : x = b[Nth(J, k)]
    BY DEF OfKind, Selected, Range
  <2>2. J \in SUBSET (1..n)
    BY <1>6
  <2>3. Nth(J, k) \in J
    <3> HIDE DEF J
    <3>1. Enumerates(J)
      BY <1>5, <2>2, PlacesAreEnumerated
    <3> QED  BY <3>1 DEF Enumerates
  <2> DEFINE i == Nth(J, k)
  <2>4. i \in 1..n /\ b[i].kind = "text"
    BY <2>2, <2>3
  <2> HIDE DEF i, J
  <2>5. i \in TextBlocks(turn) /\ x.parts = Streamed(turn, s, i)
    <3>1. b[i] = [kind |-> turn[i].kind, id |-> turn[i].id, parts |-> Streamed(turn, s, i)]
      BY <1>3, <2>4
    <3>2. turn[i].kind = "text" /\ b[i].parts = Streamed(turn, s, i)
      BY <2>4, <3>1
    <3>3. i \in DOMAIN turn
      BY <1>5, <2>4
    <3> QED  BY <2>1, <3>2, <3>3 DEF TextBlocks, i
  <2>6. Among(text, x.parts) = x.parts
    BY <2>5 DEF TextIsOf
  <2>7. text # <<>>
    BY <2>6, AmongNothing
  <2>8. spoken = << [type |-> "text", text |-> text] >>
    BY <1>8, <2>7 DEF Uttered
  <2> QED  BY <2>6, <2>8
<1>15. TellsReply(ms, place, b)
  BY <1>9, <1>10, <1>12, <1>13, <1>14 DEF TellsReply, uses, spoken, calls
<1> QED  BY <1>1, <1>7, <1>9, <1>15 DEF b, cs, uses

-----------------------------------------------------------------------------
(* The conversation goes on, and the next request has what the last one had. *)

IsConversation(conv) ==
  /\ conv \in Seq(Range(conv)) /\ Len(conv) > 0
  /\ \A i \in 1..Len(conv) : conv[i].role = "system" <=> i = 1

\* The rules stand apart from the messages.
LEMMA RequestIs ==
  ASSUME NEW conv, IsConversation(conv), NEW L \in Nat, Len(conv) = L + 1
  PROVE  ToAnthropicRequest(conv).messages = [i \in 1..L |-> Converted(conv[1 + i])]
<1>1. conv \in Seq(Range(conv)) /\ DOMAIN conv = 1..(1 + L)
  BY DEF IsConversation
<1>2. {i \in DOMAIN conv : conv[i].role # "system"} = (1 + 1)..(1 + L)
  <2>1. \A i \in 1..(1 + L) : conv[i].role = "system" <=> i = 1
    BY DEF IsConversation
  <2>2. \A i \in 1..(1 + L) : i # 1 <=> i \in (1 + 1)..(1 + L)
    OBVIOUS
  <2>3. \A i \in (1 + 1)..(1 + L) : i \in 1..(1 + L)
    OBVIOUS
  <2> QED  BY <1>1, <2>1, <2>2, <2>3
<1> DEFINE rest == Selected(conv, {i \in DOMAIN conv : conv[i].role # "system"})
<1>3. rest = [k \in 1..L |-> conv[1 + k]]
  <2>1. \A a \in Nat : Selected(conv, (a + 1)..(a + L)) = [k \in 1..L |-> conv[a + k]]
    BY SelectedStretch
  <2>2. 1 \in Nat
    OBVIOUS
  <2>3. Selected(conv, (1 + 1)..(1 + L)) = [k \in 1..L |-> conv[1 + k]]
    BY <2>1, <2>2, Zenon
  <2> QED  BY <1>2, <2>3
<1>4. ToAnthropicRequest(conv).messages = [i \in DOMAIN rest |-> Converted(rest[i])]
  BY DEF ToAnthropicRequest
<1> HIDE DEF rest
<1>5. DOMAIN rest = 1..L /\ \A i \in 1..L : rest[i] = conv[1 + i]
  BY <1>3
<1> QED  BY <1>4, <1>5

\* A conversation with one reply more, and the results of its calls.
GoneOn(conv, a, calls) ==
  (conv \o <<a>>) \o [k \in DOMAIN calls |-> ToolMessage(calls[k].id)]

LEMMA ConversationGoesOn ==
  ASSUME NEW conv, IsConversation(conv), NEW a, a.role = "assistant",
         NEW S, NEW calls \in Seq(S),
         NEW more, more = GoneOn(conv, a, calls)
  PROVE  /\ IsConversation(more) /\ Len(more) = Len(conv) + 1 + Len(calls)
         /\ \A i \in 1..Len(conv) : more[i] = conv[i]
         /\ more[Len(conv) + 1] = a
         /\ \A k \in 1..Len(calls) : more[Len(conv) + 1 + k] = ToolMessage(calls[k].id)
<1> DEFINE n == Len(conv)
           c == Len(calls)
           R == Range(conv) \cup {a} \cup {ToolMessage(calls[k].id) : k \in DOMAIN calls}
           b == conv \o <<a>>
           results == [k \in DOMAIN calls |-> ToolMessage(calls[k].id)]
<1>1. n \in Nat /\ n > 0 /\ c \in Nat /\ DOMAIN calls = 1..c
  BY DEF IsConversation
<1>2. conv \in Seq(R) /\ <<a>> \in Seq(R) /\ Len(<<a>>) = 1 /\ <<a>>[1] = a
  <2>1. conv \in Seq(Range(conv)) /\ Range(conv) \subseteq R /\ a \in R
    BY DEF IsConversation
  <2> HIDE DEF R
  <2> QED  BY <2>1, SeqMonotonic
<1>3. results \in Seq(R) /\ Len(results) = c /\ \A k \in 1..c : results[k] = ToolMessage(calls[k].id)
  <2>1. results = [k \in 1..c |-> ToolMessage(calls[k].id)]
    BY <1>1
  <2>2. \A k \in 1..c : ToolMessage(calls[k].id) \in R
    BY <1>1
  <2> HIDE DEF R
  <2> QED  BY <1>1, <2>1, <2>2
<1> HIDE DEF R, n, c, b, results
<1>4. b \in Seq(R) /\ Len(b) = n + 1 /\ (\A i \in 1..n : b[i] = conv[i]) /\ b[n + 1] = a
  <2>1. /\ conv \o <<a>> \in Seq(R) /\ Len(conv \o <<a>>) = Len(conv) + Len(<<a>>)
        /\ \A i \in 1..Len(conv) : (conv \o <<a>>)[i] = conv[i]
        /\ \A i \in 1..Len(<<a>>) : (conv \o <<a>>)[Len(conv) + i] = <<a>>[i]
    BY <1>2, TwoParts
  <2>2. 1 \in 1..Len(<<a>>)
    BY <1>2
  <2> QED  BY <1>2, <2>1, <2>2 DEF b, n
<1>5. /\ more \in Seq(R) /\ Len(more) = (n + 1) + c
      /\ \A i \in 1..(n + 1) : more[i] = b[i]
      /\ \A k \in 1..c : more[(n + 1) + k] = results[k]
  <2>1. /\ b \o results \in Seq(R) /\ Len(b \o results) = Len(b) + Len(results)
        /\ \A i \in 1..Len(b) : (b \o results)[i] = b[i]
        /\ \A i \in 1..Len(results) : (b \o results)[Len(b) + i] = results[i]
    <3>1. b \in Seq(R) /\ results \in Seq(R)
      BY <1>3, <1>4
    <3> QED  BY <3>1, TwoParts
  <2>2. more = b \o results
    BY DEF b, results, GoneOn
  <2> QED  BY <1>3, <1>4, <2>1, <2>2
<1>6. /\ \A i \in 1..n : more[i] = conv[i]
      /\ more[n + 1] = a
      /\ \A k \in 1..c : more[(n + 1) + k] = ToolMessage(calls[k].id)
  <2>1. n + 1 \in 1..(n + 1) /\ \A i \in 1..n : i \in 1..(n + 1)
    BY <1>1
  <2> QED  BY <1>3, <1>4, <1>5, <2>1
<1>7. \A i \in 1..((n + 1) + c) : more[i].role = "system" <=> i = 1
  <2> TAKE i \in 1..((n + 1) + c)
  <2>1. CASE i \in 1..n
    <3>1. conv[i].role = "system" <=> i = 1
      BY <2>1 DEF IsConversation, n
    <3>2. more[i] = conv[i]
      BY <1>6, <2>1
    <3> QED  BY <3>1, <3>2
  <2>2. CASE i = n + 1
    <3>1. a.role # "system"
      OBVIOUS
    <3>2. more[i] = a
      BY <1>6, <2>2
    <3>3. i # 1
      BY <1>1, <2>2
    <3> QED  BY <3>1, <3>2, <3>3
  <2>3. CASE i > n + 1
    <3>1. i - (n + 1) \in 1..c /\ (n + 1) + (i - (n + 1)) = i /\ i # 1
      BY <1>1, <2>3
    <3>2. more[(n + 1) + (i - (n + 1))] = ToolMessage(calls[i - (n + 1)].id)
      BY <1>6, <3>1
    <3>3. \A id : ToolMessage(id).role = "tool"
      BY DEF ToolMessage
    <3>4. more[i].role = "tool"
      BY <3>1, <3>2, <3>3
    <3> QED  BY <3>1, <3>4
  <2>4. i \in 1..n \/ i = n + 1 \/ i > n + 1
    BY <1>1
  <2> QED  BY <2>1, <2>2, <2>3, <2>4
<1>8. more \in Seq(Range(more))
  BY <1>5, SeqOfRange
<1>9. IsConversation(more)
  <2>1. (n + 1) + c > 0
    BY <1>1
  <2> QED  BY <1>5, <1>7, <1>8, <2>1 DEF IsConversation
<1> QED  BY <1>5, <1>6, <1>9 DEF n, c

\* A reply that was told, with its results among the messages there are.
IsTold(ms, L, place, turn) ==
  LET uses == OfType(ms[place].content, "tool_use")
  IN /\ TellsReply(ms, place, turn)
     /\ Len(uses) \in Nat /\ DOMAIN uses = 1..Len(uses)
     /\ place \in 1..L /\ place + Len(uses) <= L

LEMMA ToldStays ==
  ASSUME NEW L \in Nat, NEW M \in Nat, L <= M, NEW ms, NEW more, AgreeUpTo(more, ms, L),
         NEW place, NEW turn, IsTold(ms, L, place, turn)
  PROVE  IsTold(more, M, place, turn)
<1> DEFINE uses == OfType(ms[place].content, "tool_use")
           c == Len(uses)
<1>1. place \in 1..L /\ more[place] = ms[place]
  BY DEF IsTold, AgreeUpTo
<1>2. c \in Nat /\ DOMAIN uses = 1..c /\ place + c <= L
  BY DEF IsTold
<1>3. \A i \in DOMAIN uses : more[place + i] = ms[place + i]
  <2> HIDE DEF uses, c
  <2> TAKE i \in DOMAIN uses
  <2>1. place + i \in 1..L
    BY <1>1, <1>2
  <2> QED  BY <2>1 DEF AgreeUpTo
<1>4. TellsReply(ms, place, turn)
  BY DEF IsTold
<1>5. TellsReply(more, place, turn)
  BY <1>1, <1>3, <1>4 DEF TellsReply
<1>6. place \in 1..M /\ place + c <= M
  <2> HIDE DEF c
  <2> QED  BY <1>1, <1>2
<1> QED  BY <1>1, <1>2, <1>5, <1>6 DEF IsTold

\* Every reply is told, and nothing else is.
Speaking(ms, L) == {i \in 1..L : ms[i].role = "assistant"}
Retold(ms, L, told) ==
  /\ Cardinality(Speaking(ms, L)) = Len(told)
  /\ \A k \in 1..Len(told) : IsTold(ms, L, Nth(Speaking(ms, L), k), told[k])

LEMMA RetoldGrows ==
  ASSUME NEW L \in Nat, NEW c \in Nat, NEW ms, NEW more, AgreeUpTo(more, ms, L),
         more[L + 1].role = "assistant",
         \A k \in 1..c : more[(L + 1) + k].role # "assistant",
         NEW S, NEW told \in Seq(S), NEW turn \in S,
         Retold(ms, L, told),
         IsTold(more, (L + 1) + c, L + 1, turn)
  PROVE  Retold(more, (L + 1) + c, Append(told, turn))
<1> DEFINE I == Speaking(ms, L)
           J == Speaking(more, (L + 1) + c)
           M == (L + 1) + c
           n == Len(told)
           b == Append(told, turn)
<1>1. M \in Nat /\ L <= M /\ n \in Nat
  OBVIOUS
<1>2. /\ b \in Seq(S) /\ Len(b) = n + 1 /\ b[n + 1] = turn
      /\ \A k \in 1..n : b[k] = told[k]
  BY AppendProperties
<1>3. I \in SUBSET (1..L)
  BY DEF Speaking
<1>4. J = I \cup {L + 1}
  <2>1. \A i \in 1..M : i \in 1..L \/ i = L + 1 \/ (i - (L + 1) \in 1..c /\ (L + 1) + (i - (L + 1)) = i)
    OBVIOUS
  <2>2. \A i \in 1..L : i \in 1..M /\ more[i] = ms[i]
    BY DEF AgreeUpTo
  <2>3. L + 1 \in 1..M
    OBVIOUS
  <2>4. \A i \in 1..L : i \in J <=> i \in I
    BY <2>2 DEF Speaking
  <2>5. L + 1 \in J
    BY <2>3 DEF Speaking
  <2>6. \A i \in J : i \in 1..L \/ i = L + 1
    <3> SUFFICES ASSUME NEW i \in J, ~(i \in 1..L \/ i = L + 1)
                 PROVE  FALSE
      OBVIOUS
    <3>1. i \in 1..M /\ more[i].role = "assistant"
      BY DEF Speaking
    <3>2. i - (L + 1) \in 1..c /\ (L + 1) + (i - (L + 1)) = i
      BY <2>1, <3>1
    <3> QED  BY <3>1, <3>2
  <2>7. \A i \in I : i \in 1..L
    BY <1>3
  <2> HIDE DEF I, J, M
  <2> QED  BY <2>4, <2>5, <2>6, <2>7
<1> HIDE DEF I, J, M, n, b
<1>5. /\ Cardinality(I) \in Nat /\ Cardinality(J) = Cardinality(I) + 1
      /\ \A k \in 1..Cardinality(I) : Nth(J, k) = Nth(I, k) /\ Nth(I, k) \in I
      /\ Nth(J, Cardinality(I) + 1) = L + 1
  BY <1>3, <1>4, PlacesGrow
<1>6. Cardinality(I) = n /\ \A k \in 1..n : IsTold(ms, L, Nth(I, k), told[k])
  BY DEF Retold, I, n
<1>7. \A k \in 1..n : IsTold(more, M, Nth(J, k), b[k])
  <2> TAKE k \in 1..n
  <2>1. IsTold(ms, L, Nth(I, k), told[k])
    BY <1>6
  <2>2. IsTold(more, M, Nth(I, k), told[k])
    BY <1>1, <2>1, ToldStays
  <2> QED  BY <1>2, <1>5, <1>6, <2>2
<1>8. IsTold(more, M, Nth(J, n + 1), b[n + 1])
  BY <1>2, <1>5, <1>6 DEF M
<1>9. \A k \in 1..(n + 1) : k \in 1..n \/ k = n + 1
  BY <1>1
<1>10. \A k \in 1..Len(b) : IsTold(more, M, Nth(J, k), b[k])
  BY <1>2, <1>7, <1>8, <1>9
<1>11. Cardinality(J) = Len(b)
  BY <1>2, <1>5, <1>6
<1> QED  BY <1>10, <1>11 DEF Retold, J, M, b

LEMMA ConvertedIs ==
  ASSUME NEW m
  PROVE  /\ m.role = "tool" => Converted(m) = ResultFor(m.id)
         /\ m.role # "tool" /\ m.calls # <<>> =>
              Converted(m) = [role |-> "assistant", content |-> ContentOf(m.content, m.calls)]
         /\ m.role # "tool" /\ m.calls = <<>> => Converted(m) = [role |-> m.role, content |-> m.content]
  BY DEF Converted, ResultFor, ContentOf, Uttered

SaidBy(text, calls) == [role |-> "assistant", content |-> text, calls |-> calls]

\* What the next request says, when the loop asks again.
AsksAfter(conv, more, text, calls) ==
  LET L == Len(conv) - 1
      c == Len(calls)
      ms == ToAnthropicRequest(conv).messages
      said == ToAnthropicRequest(more).messages
  IN /\ IsConversation(more) /\ Len(more) - 1 = (L + 1) + c /\ L \in Nat
     /\ AgreeUpTo(said, ms, L)
     /\ said[L + 1].role = "assistant"
     /\ \A k \in 1..c : said[(L + 1) + k].role # "assistant"
     /\ Reports(said, L + 1, text, calls)

LEMMA AskingAgain ==
  ASSUME NEW conv, IsConversation(conv), NEW text, NEW S, NEW calls \in Seq(S), calls # <<>>,
         NEW more, more = GoneOn(conv, SaidBy(text, calls), calls)
  PROVE  AsksAfter(conv, more, text, calls)
<1> DEFINE L == Len(conv) - 1
           c == Len(calls)
           ms == ToAnthropicRequest(conv).messages
           said == ToAnthropicRequest(more).messages
           a == SaidBy(text, calls)
<1>1. a.role = "assistant" /\ a.role # "tool" /\ a.content = text /\ a.calls = calls
  BY DEF SaidBy
<1>2. L \in Nat /\ Len(conv) = L + 1 /\ c \in Nat
  BY DEF IsConversation
<1>3. /\ IsConversation(more) /\ Len(more) = Len(conv) + 1 + Len(calls)
      /\ \A i \in 1..Len(conv) : more[i] = conv[i]
      /\ more[Len(conv) + 1] = a
      /\ \A k \in 1..Len(calls) : more[Len(conv) + 1 + k] = ToolMessage(calls[k].id)
  <2> HIDE DEF L, c, ms, said, a
  <2>1. a.role = "assistant" /\ more = GoneOn(conv, a, calls)
    BY <1>1 DEF a
  <2> QED  BY <2>1, ConversationGoesOn
<1>4. ms = [i \in 1..L |-> Converted(conv[1 + i])]
  <2> HIDE DEF L
  <2> QED  BY <1>2, RequestIs
<1> HIDE DEF L, c, a
<1> DEFINE M == (L + 1) + c
<1>5. M \in Nat /\ Len(more) = M + 1
  BY <1>2, <1>3 DEF c
<1>6. said = [i \in 1..M |-> Converted(more[1 + i])]
  <2> HIDE DEF M
  <2>1. IsConversation(more)
    BY <1>3
  <2>2. ToAnthropicRequest(more).messages = [i \in 1..M |-> Converted(more[1 + i])]
    BY <1>5, <2>1, RequestIs
  <2> QED  BY <2>2
<1> HIDE DEF ms, said
<1>7. AgreeUpTo(said, ms, L)
  <2> SUFFICES ASSUME NEW i \in 1..L
               PROVE  said[i] = ms[i]
    BY DEF AgreeUpTo
  <2>1. i \in 1..M /\ 1 + i \in 1..Len(conv)
    BY <1>2
  <2>2. more[1 + i] = conv[1 + i]
    BY <1>3, <2>1
  <2> QED  BY <1>4, <1>6, <2>1, <2>2
<1>8. said[L + 1] = [role |-> "assistant", content |-> ContentOf(text, calls)]
  <2>1. L + 1 \in 1..M /\ 1 + (L + 1) = Len(conv) + 1
    BY <1>2
  <2>2. said[L + 1] = Converted(a)
    BY <1>3, <1>6, <2>1
  <2>3. Converted(a) = [role |-> "assistant", content |-> ContentOf(a.content, a.calls)]
    BY <1>1, ConvertedIs
  <2> QED  BY <1>1, <2>2, <2>3
<1>9. \A k \in 1..c : said[(L + 1) + k] = ResultFor(calls[k].id)
  <2> TAKE k \in 1..c
  <2>1. (L + 1) + k \in 1..M /\ 1 + ((L + 1) + k) = Len(conv) + 1 + k
    BY <1>2
  <2>2. more[Len(conv) + 1 + k] = ToolMessage(calls[k].id)
    BY <1>3 DEF c
  <2>3. said[(L + 1) + k] = Converted(ToolMessage(calls[k].id))
    BY <1>6, <2>1, <2>2
  <2>4. ToolMessage(calls[k].id).role = "tool" /\ ToolMessage(calls[k].id).id = calls[k].id
    BY DEF ToolMessage
  <2>5. Converted(ToolMessage(calls[k].id)) = ResultFor(ToolMessage(calls[k].id).id)
    BY <2>4, ConvertedIs
  <2> QED  BY <2>3, <2>4, <2>5
<1>10. \A k \in 1..c : said[(L + 1) + k].role # "assistant"
  <2>1. \A id : ResultFor(id).role = "user"
    BY DEF ResultFor
  <2> QED  BY <1>9, <2>1
<1>11. Reports(said, L + 1, text, calls)
  BY <1>8, <1>9 DEF Reports, c
<1>12. Len(more) - 1 = (L + 1) + c
  BY <1>2, <1>5
<1>13. said[L + 1].role = "assistant"
  BY <1>8
<1> QED  BY <1>2, <1>3, <1>7, <1>10, <1>11, <1>12, <1>13 DEF AsksAfter, L, c, ms, said

\* Nothing has been sent of a reply that starts.
LEMMA ReplyStarts ==
  ASSUME NEW turn \in ServerTurns, NEW s, s = [i \in DOMAIN turn |-> 0]
  PROVE  /\ Counts(turn, s, 0) /\ TextIsOf(<<>>, turn, s)
         /\ BlocksStarted(turn, 0) = <<>> /\ CallsStarted(turn, s, 0) = <<>>
<1>1. DOMAIN turn = 1..Len(turn) /\ Len(turn) \in Nat
      /\ \A i \in DOMAIN turn : Len(turn[i].parts) \in Nat
  BY TurnIs
<1>2. Counts(turn, s, 0)
  BY <1>1 DEF Counts
<1>3. \A i \in TextBlocks(turn) : Streamed(turn, s, i) = <<>>
  <2> TAKE i \in TextBlocks(turn)
  <2>1. i \in DOMAIN turn
    BY DEF TextBlocks
  <2>2. s[i] = 0 /\ s[i] <= Len(turn[i].parts) + 1 /\ s \in [DOMAIN turn -> Nat]
    BY <1>1, <2>1
  <2> QED  BY <2>1, <2>2, StreamedIs
<1>4. TextIsOf(<<>>, turn, s)
  <2>1. <<>> \in Seq(Range(<<>>)) /\ DOMAIN <<>> = {}
    OBVIOUS
  <2> QED  BY <1>3, <2>1, AmongNothing DEF TextIsOf
<1>5. BlocksStarted(turn, 0) = <<>>
  BY DEF BlocksStarted
<1>6. UpTo(UsePlaces(turn), 0) = {}
  BY <1>1 DEF UpTo, UsePlaces
<1>7. CallsStarted(turn, s, 0) = <<>>
  BY <1>6, SelectedOfNone DEF CallsStarted
<1> QED  BY <1>2, <1>4, <1>5, <1>7

\* A delta, of a text or of a call.
LEMMA DeltaArrives ==
  ASSUME NEW turn \in ServerTurns, NEW n \in Nat, NEW s, Counts(turn, s, n),
         NEW text, TextIsOf(text, turn, s),
         NEW i \in DOMAIN turn, s[i] \in 1..Len(turn[i].parts),
         NEW t, t = OneMore(s, i)
  PROVE  /\ Counts(turn, t, n) /\ i <= n
         /\ turn[i].kind = "text" =>
              /\ TextIsOf(Append(text, turn[i].parts[s[i]]), turn, t)
              /\ CallsStarted(turn, t, n) = CallsStarted(turn, s, n)
         /\ turn[i].kind = "tool_use" =>
              /\ TextIsOf(text, turn, t)
              /\ CallsStarted(turn, t, n) =
                   Added(CallsStarted(turn, s, n), IdOf(turn, i), turn[i].parts[s[i]])
<1>1. s \in [DOMAIN turn -> Nat] /\ \A j \in DOMAIN turn : Len(turn[j].parts) \in Nat
  BY TurnIs DEF Counts
<1>2. /\ t \in [DOMAIN turn -> Nat] /\ t[i] = s[i] + 1
      /\ Streamed(turn, t, i) = Append(Streamed(turn, s, i), turn[i].parts[s[i]])
      /\ \A j \in DOMAIN turn : j # i => Streamed(turn, t, j) = Streamed(turn, s, j) /\ t[j] = s[j]
  BY <1>1, StreamedGrows
<1>3. \A j \in DOMAIN turn : s[j] <= Len(turn[j].parts) + 1 /\ (s[j] > 0 <=> j <= n)
  BY DEF Counts
<1>4. i <= n
  BY <1>1, <1>3
<1>5. Counts(turn, t, n)
  <2>1. \A j \in DOMAIN turn : t[j] <= Len(turn[j].parts) + 1 /\ (t[j] > 0 <=> j <= n)
    <3> TAKE j \in DOMAIN turn
    <3>1. CASE j = i
      BY <1>1, <1>2, <1>4, <3>1
    <3>2. CASE j # i
      BY <1>2, <1>3, <3>2
    <3> QED  BY <3>1, <3>2
  <2> QED  BY <1>2, <2>1 DEF Counts
<1>6. ASSUME turn[i].kind = "text"
      PROVE  /\ TextIsOf(Append(text, turn[i].parts[s[i]]), turn, t)
             /\ CallsStarted(turn, t, n) = CallsStarted(turn, s, n)
  <2>1. i \in TextBlocks(turn)
    BY <1>6 DEF TextBlocks
  <2>2. TextIsOf(Append(text, turn[i].parts[s[i]]), turn, t)
    BY <2>1, TextStreams
  <2> DEFINE I == UpTo(UsePlaces(turn), n)
             c == Cardinality(I)
  <2>3. /\ CallsStarted(turn, s, n) =
             [k \in 1..c |-> [id |-> IdOf(turn, Nth(I, k)), args |-> Streamed(turn, s, Nth(I, k))]]
        /\ CallsStarted(turn, t, n) =
             [k \in 1..c |-> [id |-> IdOf(turn, Nth(I, k)), args |-> Streamed(turn, t, Nth(I, k))]]
        /\ \A k \in 1..c : Nth(I, k) \in UsePlaces(turn) /\ Nth(I, k) \in DOMAIN turn
    BY CallsStartedAre
  <2> HIDE DEF I, c
  <2>4. i \notin UsePlaces(turn)
    BY <1>6 DEF UsePlaces
  <2>5. \A k \in 1..c : Streamed(turn, t, Nth(I, k)) = Streamed(turn, s, Nth(I, k))
    BY <1>2, <2>3, <2>4
  <2>6. CallsStarted(turn, t, n) = CallsStarted(turn, s, n)
    BY <2>3, <2>5
  <2> QED  BY <2>2, <2>6
<1>7. ASSUME turn[i].kind = "tool_use"
      PROVE  /\ TextIsOf(text, turn, t)
             /\ CallsStarted(turn, t, n) =
                  Added(CallsStarted(turn, s, n), IdOf(turn, i), turn[i].parts[s[i]])
  <2>1. i \in UsePlaces(turn)
    BY <1>7 DEF UsePlaces
  <2>2. CallsStarted(turn, t, n) =
          Added(CallsStarted(turn, s, n), IdOf(turn, i), turn[i].parts[s[i]])
    BY <2>1, CallStreams
  <2>3. \A j \in TextBlocks(turn) : Streamed(turn, t, j) = Streamed(turn, s, j)
    <3>1. \A j \in TextBlocks(turn) : j \in DOMAIN turn /\ j # i
      BY <1>7 DEF TextBlocks
    <3> QED  BY <1>2, <3>1
  <2>4. TextIsOf(text, turn, t)
    BY <2>3 DEF TextIsOf
  <2> QED  BY <2>2, <2>4
<1> QED  BY <1>4, <1>5, <1>6, <1>7

-----------------------------------------------------------------------------
(* The invariant of Anthropic's stream.                                      *)

Retells(conv, req, told) ==
  /\ IsConversation(conv)
  /\ req = ToAnthropicRequest(conv)
  /\ told \in Seq(Range(told))
  /\ Retold(req.messages, Len(conv) - 1, told)

AnthropicInv ==
  /\ reply \in ServerTurns
  /\ \E n \in 0..Len(reply) : IsStreamed(n)
  /\ finishReason \in {"stop", "tool_use"} => WholeReplySent
  /\ Retells(conversation, request, replied)

LEMMA RetellingStarts == Retells(Opening, ToAnthropicRequest(Opening), <<>>)
<1> DEFINE o == Opening
           ms == ToAnthropicRequest(o).messages
<1>1. /\ Len(o) = 2 /\ o[1].role = "system" /\ o[2].role = "user" /\ o[2].calls = <<>>
      /\ o \in Seq({o[1], o[2]})
  BY DEF Opening
<1> HIDE DEF o
<1>2. IsConversation(o)
  <2>1. o \in Seq(Range(o))
    BY <1>1, SeqOfRange
  <2>2. \A i \in 1..2 : o[i].role = "system" <=> i = 1
    BY <1>1
  <2> QED  BY <1>1, <2>1, <2>2 DEF IsConversation
<1>3. ms = [i \in 1..1 |-> Converted(o[1 + i])]
  <2> HIDE DEF ms
  <2>1. 1 \in Nat /\ Len(o) = 1 + 1
    BY <1>1
  <2>2. \A k \in Nat : Len(o) = k + 1 =>
          ToAnthropicRequest(o).messages = [i \in 1..k |-> Converted(o[1 + i])]
    BY <1>2, RequestIs
  <2>3. ToAnthropicRequest(o).messages = [i \in 1..1 |-> Converted(o[1 + i])]
    BY <2>1, <2>2, Zenon
  <2> QED  BY <2>3 DEF ms
<1> HIDE DEF ms
<1>4. Converted(o[2]).role = "user"
  <2>1. Converted(o[2]) = [role |-> o[2].role, content |-> o[2].content]
    BY <1>1, ConvertedIs
  <2> QED  BY <1>1, <2>1
<1>5. \A i \in 1..1 : ms[i].role # "assistant"
  BY <1>3, <1>4
<1>6. Speaking(ms, 1) = {}
  BY <1>5 DEF Speaking
<1>7. Retold(ms, 1, <<>>)
  <2>1. Cardinality({}) = 0 /\ Len(<<>>) = 0
    BY FS_EmptySet
  <2> QED  BY <1>6, <2>1 DEF Retold
<1>8. <<>> \in Seq(Range(<<>>)) /\ Len(o) - 1 = 1
  BY <1>1
<1> QED  BY <1>2, <1>7, <1>8 DEF Retells, o, ms

\* The reply was told, whatever was sent of it.
LEMMA RetellingGoesOn ==
  ASSUME NEW conv, NEW req, NEW told, Retells(conv, req, told),
         NEW turn \in ServerTurns, NEW n \in 0..Len(turn), NEW s, Counts(turn, s, n),
         NEW text, TextIsOf(text, turn, s),
         NEW calls, calls = CallsStarted(turn, s, n), calls # <<>>,
         NEW more, more = GoneOn(conv, SaidBy(text, calls), calls)
  PROVE  Retells(more, ToAnthropicRequest(more), Append(told, Sent(turn, s, n)))
<1> DEFINE L == Len(conv) - 1
           c == Len(calls)
           ms == ToAnthropicRequest(conv).messages
           said == ToAnthropicRequest(more).messages
           b == Sent(turn, s, n)
           S == Range(told) \cup {b}
<1>1. /\ IsConversation(conv) /\ told \in Seq(Range(told)) /\ Retold(ms, L, told)
  BY DEF Retells
<1>2. calls \in Seq(Range(calls))
  <2> DEFINE I == UpTo(UsePlaces(turn), n)
             k == Cardinality(I)
             f(i) == [id |-> IdOf(turn, Nth(I, i)), args |-> Streamed(turn, s, Nth(I, i))]
             F == {f(i) : i \in 1..k}
  <2>1. k \in Nat /\ calls = [i \in 1..k |-> f(i)]
    <3>1. n \in Nat
      BY TurnIs
    <3> QED  BY <3>1, CallsStartedAre
  <2>2. \A i \in 1..k : f(i) \in F
    OBVIOUS
  <2> HIDE DEF k, f, F
  <2>3. calls \in Seq(F)
    BY <2>1, <2>2
  <2> QED  BY <2>3, SeqOfRange
<1>3. /\ IsConversation(more) /\ Len(more) - 1 = (L + 1) + c /\ L \in Nat
      /\ AgreeUpTo(said, ms, L)
      /\ said[L + 1].role = "assistant"
      /\ \A k \in 1..c : said[(L + 1) + k].role # "assistant"
      /\ Reports(said, L + 1, text, calls)
  <2> HIDE DEF L, c, ms, said, b, S
  <2>1. AsksAfter(conv, more, text, calls)
    BY <1>1, <1>2, AskingAgain
  <2> QED  BY <2>1 DEF AsksAfter, L, c, ms, said
<1> HIDE DEF L, ms, said, b, S, c
<1>4. /\ TellsReply(said, L + 1, b)
      /\ LET uses == OfType(said[L + 1].content, "tool_use")
         IN c \in Nat /\ Len(uses) = c /\ DOMAIN uses = 1..c
  <2>1. Reports(said, L + 1, text, CallsStarted(turn, s, n))
    BY <1>3
  <2> QED  BY <2>1, ReplyIsTold DEF b, c
<1>5. IsTold(said, (L + 1) + c, L + 1, b)
  <2>1. L + 1 \in 1..((L + 1) + c) /\ (L + 1) + c <= (L + 1) + c /\ c \in Nat
    BY <1>3, <1>4
  <2> QED  BY <1>4, <2>1 DEF IsTold
<1>6. told \in Seq(S) /\ b \in S
  <2>1. Range(told) \subseteq S /\ b \in S
    BY DEF S
  <2> QED  BY <1>1, <2>1, SeqMonotonic
<1>7. Retold(said, (L + 1) + c, Append(told, b))
  <2>1. c \in Nat /\ L \in Nat
    BY <1>3, <1>4
  <2> QED  BY <1>1, <1>3, <1>5, <1>6, <2>1, RetoldGrows
<1>8. Append(told, b) \in Seq(Range(Append(told, b)))
  BY <1>6, AppendProperties, SeqOfRange
<1>9. Retold(said, Len(more) - 1, Append(told, b))
  BY <1>3, <1>7
<1> QED  BY <1>3, <1>8, <1>9 DEF Retells, said, b

LEMMA AnthropicInvInit == AnthropicInit => AnthropicInv
<1> SUFFICES ASSUME AnthropicInit
             PROVE  AnthropicInv
  OBVIOUS
<1> USE DEF AnthropicInit
<1>1. /\ Counts(reply, sent, 0) /\ TextIsOf(<<>>, reply, sent)
      /\ BlocksStarted(reply, 0) = <<>> /\ CallsStarted(reply, sent, 0) = <<>>
  BY ReplyStarts
<1>2. IsStreamed(0)
  BY <1>1 DEF IsStreamed
<1>3. 0 \in 0..Len(reply)
  BY TurnIs
<1>4. Retells(conversation, request, replied)
  BY RetellingStarts
<1> QED  BY <1>2, <1>3, <1>4 DEF AnthropicInv

LEMMA AnthropicInvNext == AnthropicInv /\ [AnthropicNext]_anthropicVars => AnthropicInv'
<1> SUFFICES ASSUME AnthropicInv, [AnthropicNext]_anthropicVars
             PROVE  AnthropicInv'
  OBVIOUS
<1>1. /\ reply \in ServerTurns
      /\ finishReason \in {"stop", "tool_use"} => WholeReplySent
      /\ Retells(conversation, request, replied)
  BY DEF AnthropicInv
<1>2. PICK n \in 0..Len(reply) : IsStreamed(n)
  BY DEF AnthropicInv
<1>3. /\ Counts(reply, sent, n)
      /\ blocksByIndex = BlocksStarted(reply, n)
      /\ collected = [text |-> collected.text, calls |-> CallsStarted(reply, sent, n)]
      /\ TextIsOf(collected.text, reply, sent)
  BY <1>2 DEF IsStreamed
<1>4. n \in Nat /\ n <= Len(reply) /\ Len(reply) \in Nat /\ DOMAIN reply = 1..Len(reply)
  BY <1>1, TurnIs
<1>5. /\ sent \in [DOMAIN reply -> Nat]
      /\ \A i \in DOMAIN reply : sent[i] <= Len(reply[i].parts) + 1 /\ (sent[i] > 0 <=> i <= n)
  BY <1>3 DEF Counts
<1>6. ASSUME UNCHANGED <<reply, sent, blocksByIndex, collected, conversation, request, replied>>,
             finishReason' \in {"stop", "tool_use"} => WholeReplySent
      PROVE  AnthropicInv'
  <2>1. IsStreamed(n)'
    BY <1>2, <1>6 DEF IsStreamed
  <2>2. (finishReason \in {"stop", "tool_use"} => WholeReplySent)'
    BY <1>6 DEF WholeReplySent
  <2>3. Retells(conversation, request, replied)'
    BY <1>1, <1>6
  <2> QED  BY <1>1, <1>4, <1>6, <2>1, <2>2, <2>3 DEF AnthropicInv
<1>7. CASE UNCHANGED anthropicVars
  BY <1>1, <1>6, <1>7 DEF anthropicVars
<1>8. CASE NoResponse \/ ErrorEvent \/ StreamDrops
  <2>1. /\ UNCHANGED <<reply, sent, blocksByIndex, collected, conversation, request, replied>>
        /\ finishReason' = "error"
    BY <1>8 DEF NoResponse, ErrorEvent, StreamDrops
  <2> QED  BY <1>6, <2>1
<1>9. CASE MessageDelta
  <2>1. UNCHANGED <<reply, sent, blocksByIndex, collected, conversation, request, replied>>
    BY <1>9 DEF MessageDelta
  <2>2. PICK reason \in {"end_turn", "tool_use", "max_tokens", "refusal"} :
          /\ reason \in {"end_turn", "tool_use"} => WholeReplySent
          /\ finishReason' = MapStopReason(reason)
    BY <1>9 DEF MessageDelta
  <2>3. finishReason' \in {"stop", "tool_use"} => WholeReplySent
    BY <2>2 DEF MapStopReason
  <2> QED  BY <1>6, <2>1, <2>3
<1>10. ASSUME NEW i \in DOMAIN reply, ContentBlockStart(i)
       PROVE  AnthropicInv'
  <2> USE <1>10
  <2>1. /\ finishReason = "none" /\ finishReason' = "none" /\ reply' = reply
        /\ UNCHANGED <<conversation, request, replied>>
        /\ sent[i] = 0 /\ \A j \in 1..(i - 1) : sent[j] > 0
        /\ sent' = [sent EXCEPT ![i] = 1]
        /\ blocksByIndex' = Append(blocksByIndex, [kind |-> reply[i].kind, id |-> IdOf(reply, i)])
        /\ collected' = IF reply[i].kind = "text" THEN collected
             ELSE [collected EXCEPT !.calls = Append(@, [id |-> IdOf(reply, i), args |-> <<>>])]
    BY DEF ContentBlockStart, IsStreaming
  <2>2. i = n + 1 /\ n < Len(reply)
    <3>1. ~(i <= n) /\ i \in Nat /\ i >= 1 /\ i <= Len(reply)
      BY <1>4, <1>5, <2>1
    <3>2. i > 1 => i - 1 <= n
      <4> SUFFICES ASSUME i > 1
                   PROVE  i - 1 <= n
        OBVIOUS
      <4>1. i - 1 \in DOMAIN reply /\ i - 1 \in 1..(i - 1)
        BY <1>4, <3>1
      <4> QED  BY <1>5, <2>1, <4>1
    <3> QED  BY <1>4, <3>1, <3>2
  <2> DEFINE t == OneStarted(sent, n)
             x == [id |-> IdOf(reply, n + 1), args |-> <<>>]
  <2>3. /\ Counts(reply, t, n + 1) /\ TextIsOf(collected.text, reply, t)
        /\ BlocksStarted(reply, n + 1) =
             Append(BlocksStarted(reply, n), [kind |-> reply[n + 1].kind, id |-> IdOf(reply, n + 1)])
        /\ CallsStarted(reply, t, n + 1) =
             IF reply[n + 1].kind = "tool_use"
             THEN Append(CallsStarted(reply, sent, n), x)
             ELSE CallsStarted(reply, sent, n)
    BY <1>1, <1>3, <1>4, <2>2, BlockStarts
  <2>4. sent' = t
    BY <2>1, <2>2 DEF OneStarted
  <2>5. reply[n + 1].kind \in {"text", "tool_use"}
    BY <1>1, <2>2, AnthropicAssumption
  <2> HIDE DEF t, x
  <2>6. collected' = [text |-> collected.text, calls |-> CallsStarted(reply, t, n + 1)]
    <3>1. collected' = IF reply[n + 1].kind = "text" THEN collected
                       ELSE [collected EXCEPT !.calls = Append(@, x)]
      BY <2>1, <2>2 DEF x
    <3>2. CASE reply[n + 1].kind = "text"
      BY <1>3, <2>3, <3>1, <3>2
    <3>3. CASE reply[n + 1].kind = "tool_use"
      <4> DEFINE old == CallsStarted(reply, sent, n)
                 w == collected.text
      <4>1. collected = [text |-> w, calls |-> old]
        BY <1>3
      <4>2. CallsStarted(reply, t, n + 1) = Append(old, x)
        BY <2>3, <3>3
      <4>3. collected' = [collected EXCEPT !.calls = Append(@, x)]
        BY <3>1, <3>3
      <4> HIDE DEF old, w
      <4>4. collected' = [text |-> w, calls |-> Append(old, x)]
        BY <4>1, <4>3
      <4> QED  BY <4>2, <4>4 DEF w
    <3> QED  BY <2>5, <3>2, <3>3
  <2>7. collected'.text = collected.text
    BY <2>6
  <2>8. blocksByIndex' = BlocksStarted(reply, n + 1)
    BY <1>3, <2>1, <2>2, <2>3
  <2>9. IsStreamed(n + 1)'
    BY <2>1, <2>3, <2>4, <2>6, <2>7, <2>8 DEF IsStreamed
  <2>10. n + 1 \in 0..Len(reply)'
    BY <1>4, <2>1, <2>2
  <2>11. Retells(conversation, request, replied)'
    BY <1>1, <2>1
  <2> QED  BY <1>1, <2>1, <2>9, <2>10, <2>11 DEF AnthropicInv
<1>11. ASSUME NEW i \in DOMAIN reply, ContentBlockDelta(i)
       PROVE  AnthropicInv'
  <2> USE <1>11
  <2> DEFINE x == reply[i].parts[sent[i]]
             t == OneMore(sent, i)
             old == CallsStarted(reply, sent, n)
             w == collected.text
             id == IdOf(reply, i)
  <2>1. /\ finishReason = "none" /\ finishReason' = "none" /\ reply' = reply
        /\ UNCHANGED <<blocksByIndex, conversation, request, replied>>
        /\ sent[i] \in 1..Len(reply[i].parts)
        /\ sent' = t
        /\ Collects(blocksByIndex[i], x)
    BY DEF ContentBlockDelta, IsStreaming, BlockAt, OneMore
  <2>2. /\ Counts(reply, t, n) /\ i <= n
        /\ reply[i].kind = "text" =>
             /\ TextIsOf(Append(w, x), reply, t)
             /\ CallsStarted(reply, t, n) = old
        /\ reply[i].kind = "tool_use" =>
             /\ TextIsOf(w, reply, t)
             /\ CallsStarted(reply, t, n) = Added(old, id, x)
    <3> HIDE DEF t, w
    <3>1. t = OneMore(sent, i) /\ TextIsOf(w, reply, sent)
      BY <1>3 DEF t, w
    <3> QED  BY <1>1, <1>3, <1>4, <2>1, <3>1, DeltaArrives
  <2>3. blocksByIndex[i] = [kind |-> reply[i].kind, id |-> id]
    BY <1>3, <1>4, <2>2 DEF BlocksStarted
  <2>4. collected = [text |-> w, calls |-> old]
    BY <1>3
  <2>5. reply[i].kind \in {"text", "tool_use"}
    BY <1>1, AnthropicAssumption
  <2> HIDE DEF x, t, old, w, id
  <2>6. PICK v : /\ collected' = [text |-> v, calls |-> CallsStarted(reply, t, n)]
                 /\ TextIsOf(v, reply, t)
    <3>1. CASE reply[i].kind = "text"
      <4>1. collected' = [collected EXCEPT !.text = Append(@, x)]
        BY <2>1, <2>3, <3>1 DEF Collects
      <4>2. collected' = [text |-> Append(w, x), calls |-> old]
        BY <2>4, <4>1
      <4> QED  BY <2>2, <3>1, <4>2
    <3>2. CASE reply[i].kind = "tool_use"
      <4>1. collected' = [collected EXCEPT !.calls = Added(@, id, x)]
        <5>1. blocksByIndex[i].kind # "text" /\ blocksByIndex[i].id = id
          BY <2>3, <3>2
        <5> QED  BY <2>1, <5>1 DEF Collects
      <4>2. collected' = [text |-> w, calls |-> Added(old, id, x)]
        BY <2>4, <4>1
      <4> QED  BY <2>2, <3>2, <4>2
    <3> QED  BY <2>5, <3>1, <3>2
  <2>7. collected'.text = v
    BY <2>6
  <2>8. IsStreamed(n)'
    BY <1>3, <2>1, <2>2, <2>6, <2>7 DEF IsStreamed
  <2>9. n \in 0..Len(reply)'
    BY <1>4, <2>1
  <2>10. Retells(conversation, request, replied)'
    BY <1>1, <2>1
  <2> QED  BY <1>1, <2>1, <2>8, <2>9, <2>10 DEF AnthropicInv
<1>12. CASE AsksAgain
  <2> USE <1>12
  <2> DEFINE calls == CallsStarted(reply, sent, n)
             text == collected.text
             b == Sent(reply, sent, n)
             more == GoneOn(conversation, SaidBy(text, calls), calls)
  <2>1. collected = [text |-> text, calls |-> calls] /\ collected.calls = calls
    BY <1>3
  <2>2. /\ collected.calls # <<>>
        /\ conversation' = conversation
             \o << [role |-> "assistant", content |-> collected.text, calls |-> collected.calls] >>
             \o [k \in DOMAIN collected.calls |-> ToolMessage(collected.calls[k].id)]
        /\ request' = ToAnthropicRequest(conversation')
        /\ replied' = Append(replied, [i \in DOMAIN blocksByIndex |->
                        [reply[i] EXCEPT !.parts = SubSeq(@, 1, sent[i] - 1)]])
    BY DEF AsksAgain
  <2>3. [i \in DOMAIN blocksByIndex |-> [reply[i] EXCEPT !.parts = SubSeq(@, 1, sent[i] - 1)]] = b
    <3>1. DOMAIN blocksByIndex = 1..n
      BY <1>3 DEF BlocksStarted
    <3> QED  BY <3>1 DEF Sent, Streamed
  <2>4. conversation' = more
    <3> HIDE DEF calls, text
    <3> QED  BY <2>1, <2>2 DEF GoneOn, SaidBy
  <2> HIDE DEF calls, text, b, more
  <2>5. Retells(more, ToAnthropicRequest(more), Append(replied, b))
    <3>1. /\ calls = CallsStarted(reply, sent, n) /\ calls # <<>>
          /\ TextIsOf(text, reply, sent)
      BY <1>3, <2>1, <2>2 DEF calls, text
    <3>2. more = GoneOn(conversation, SaidBy(text, calls), calls)
      BY DEF more
    <3> QED  BY <1>1, <1>3, <3>1, <3>2, RetellingGoesOn DEF b
  <2>6. Retells(conversation, request, replied)'
    BY <2>2, <2>3, <2>4, <2>5
  <2>7. PICK turn \in ServerTurns : StartsReply(turn)
    BY DEF AsksAgain
  <2>8. /\ reply' = turn /\ sent' = [i \in DOMAIN turn |-> 0] /\ blocksByIndex' = <<>>
        /\ collected' = [text |-> <<>>, calls |-> <<>>] /\ finishReason' = "none"
    BY <2>7 DEF StartsReply
  <2>9. /\ Counts(turn, sent', 0) /\ TextIsOf(<<>>, turn, sent')
        /\ BlocksStarted(turn, 0) = <<>> /\ CallsStarted(turn, sent', 0) = <<>>
    BY <2>8, ReplyStarts
  <2>10. IsStreamed(0)'
    BY <2>8, <2>9 DEF IsStreamed
  <2>11. 0 \in 0..Len(reply)' /\ reply' \in ServerTurns
    BY <2>8, TurnIs
  <2> QED  BY <2>6, <2>8, <2>10, <2>11 DEF AnthropicInv
<1> QED  BY <1>7, <1>8, <1>9, <1>10, <1>11, <1>12 DEF AnthropicNext

LEMMA InvTellsTheReplies == AnthropicInv => RequestTellsTheReplies
<1> SUFFICES ASSUME AnthropicInv
             PROVE  RequestTellsTheReplies
  OBVIOUS
<1> DEFINE L == Len(conversation) - 1
           ms == request.messages
<1>1. /\ IsConversation(conversation) /\ request = ToAnthropicRequest(conversation)
      /\ replied \in Seq(Range(replied)) /\ Retold(ms, L, replied)
  BY DEF AnthropicInv, Retells
<1>2. L \in Nat /\ Len(conversation) = L + 1
  BY <1>1 DEF IsConversation
<1>3. DOMAIN ms = 1..L
  <2> HIDE DEF L
  <2>1. ToAnthropicRequest(conversation).messages = [i \in 1..L |-> Converted(conversation[1 + i])]
    BY <1>1, <1>2, RequestIs
  <2> QED  BY <1>1, <2>1
<1> HIDE DEF L, ms
<1>4. {i \in DOMAIN ms : ms[i].role = "assistant"} = Speaking(ms, L)
  BY <1>3 DEF Speaking
<1>5. DOMAIN replied = 1..Len(replied)
  BY <1>1
<1>6. /\ Cardinality(Speaking(ms, L)) = Len(replied)
      /\ \A k \in DOMAIN replied : TellsReply(ms, Nth(Speaking(ms, L), k), replied[k])
  BY <1>1, <1>5 DEF Retold, IsTold
<1>7. finishReason \in {"stop", "tool_use"} => WholeReplySent
  BY DEF AnthropicInv
<1> QED  BY <1>4, <1>6, <1>7 DEF RequestTellsTheReplies, ms

\* What the server is told of its replies in the requests of a conversation is
\* what it streamed of them, whatever blocks they have, whatever order the deltas
\* came in and whatever cut them off.
THEOREM AnthropicRequestsTellTheReplies == AnthropicSpec => []RequestTellsTheReplies
<1>1. AnthropicInit => AnthropicInv
  BY AnthropicInvInit
<1>2. AnthropicInv /\ [AnthropicNext]_anthropicVars => AnthropicInv'
  BY AnthropicInvNext
<1>3. AnthropicInv => RequestTellsTheReplies
  BY InvTellsTheReplies
<1> QED  BY <1>1, <1>2, <1>3, PTL DEF AnthropicSpec

-----------------------------------------------------------------------------
(* The naked reply: where its lines are.                                     *)

AnyLine(b) == Range(b.content) \cup
  {Named(b.name), BlankLine, Prose, Fence(b.fence, b.len, b.name),
   Fence(b.fence, b.len, "js"), Fence(b.fence, b.len, NoName)}

LEMMA NakedBlockIs ==
  ASSUME NEW b \in NakedBlocks
  PROVE  /\ b = [name |-> b.name, by |-> b.by, gap |-> b.gap, fence |-> b.fence,
                len |-> b.len, content |-> b.content]
         /\ b.by \in {"info", "label", "none"} /\ b.gap \in Nat
         /\ b.content \in Seq(Range(b.content))
  BY WholeFileAssumption

LEMMA GapOfBlanks ==
  ASSUME NEW g \in Nat, NEW S, BlankLine \in S
  PROVE  [i \in 1..g |-> BlankLine] \in Seq(S) /\ Len([i \in 1..g |-> BlankLine]) = g
  OBVIOUS

\* The heading of a block ends in its fence, and no other line of it is one.
HeadingEnds(b) ==
  LET h == Heading(b)  n == Len(Heading(b))
  IN /\ h \in Seq(AnyLine(b)) /\ n \in Nat \ {0}
     /\ h[n] = Fence(b.fence, b.len, IF b.by = "info" THEN b.name ELSE "js")
     /\ \A o \in 1..(n - 1) : ~Opens(h[o])
     /\ b.by = "info" => n = 1
     /\ b.by = "none" => n = 2 /\ h[1] = Prose
     /\ b.by = "label" => n = b.gap + 2 /\ h[1] = Named(b.name) /\ \A o \in 2..(n - 1) : h[o] = BlankLine

LEMMA HeadingIs ==
  ASSUME NEW b \in NakedBlocks
  PROVE  HeadingEnds(b)
<1> DEFINE S == AnyLine(b)
           f == Fence(b.fence, b.len, "js")
           blanks == [i \in 1..b.gap |-> BlankLine]
<1>1. b.by \in {"info", "label", "none"} /\ b.gap \in Nat
  BY NakedBlockIs
<1>2. Named(b.name) \in S /\ BlankLine \in S /\ Prose \in S /\ f \in S /\ Fence(b.fence, b.len, b.name) \in S
  BY DEF AnyLine
<1>3. ~Opens(Named(b.name)) /\ ~Opens(Prose) /\ ~Opens(BlankLine)
  BY DEF Opens, Named, Prose, BlankLine
<1>4. CASE b.by = "info"
  <2>1. Heading(b) = <<Fence(b.fence, b.len, b.name)>>
    BY <1>4 DEF Heading
  <2> HIDE DEF S
  <2>2. Heading(b) \in Seq(S) /\ Len(Heading(b)) = 1 /\ Heading(b)[1] = Fence(b.fence, b.len, b.name)
    BY <1>2, <2>1
  <2> QED  BY <1>4, <2>2 DEF HeadingEnds, S
<1>5. CASE b.by = "none"
  <2>1. Heading(b) = <<Prose, f>>
    BY <1>5 DEF Heading
  <2> HIDE DEF S, f
  <2>2. /\ Heading(b) \in Seq(S) /\ Len(Heading(b)) = 2
        /\ Heading(b)[1] = Prose /\ Heading(b)[2] = f
    BY <1>2, <2>1
  <2>3. \A o \in 1..(2 - 1) : ~Opens(Heading(b)[o])
    BY <1>3, <2>2
  <2> QED  BY <1>5, <2>2, <2>3 DEF HeadingEnds, S, f
<1>6. CASE b.by = "label"
  <2> DEFINE g == b.gap
             a == <<Named(b.name)>> \o blanks
             h == a \o <<f>>
  <2>1. Heading(b) = h
    BY <1>6 DEF Heading
  <2>2. g \in Nat /\ blanks \in Seq(S) /\ Len(blanks) = g /\ \A i \in 1..g : blanks[i] = BlankLine
    BY <1>1, <1>2, GapOfBlanks
  <2> HIDE DEF S, f, blanks, g
  <2>3. /\ <<Named(b.name)>> \in Seq(S) /\ Len(<<Named(b.name)>>) = 1 /\ <<Named(b.name)>>[1] = Named(b.name)
        /\ <<f>> \in Seq(S) /\ Len(<<f>>) = 1 /\ <<f>>[1] = f
    BY <1>2
  <2>4. /\ a \in Seq(S) /\ Len(a) = 1 + g
        /\ \A i \in 1..(1 + g) : a[i] = IF i <= 1 THEN <<Named(b.name)>>[i] ELSE blanks[i - 1]
    BY <2>2, <2>3, ConcatProperties
  <2> HIDE DEF a
  <2>5. /\ h \in Seq(S) /\ Len(h) = (1 + g) + 1
        /\ \A i \in 1..((1 + g) + 1) : h[i] = IF i <= 1 + g THEN a[i] ELSE <<f>>[i - (1 + g)]
    BY <2>3, <2>4, ConcatProperties
  <2> HIDE DEF h
  <2>6. h[1] = Named(b.name)
    <3>1. 1 \in 1..((1 + g) + 1) /\ 1 <= 1 + g /\ 1 \in 1..(1 + g)
      BY <2>2
    <3> QED  BY <2>3, <2>4, <2>5, <3>1
  <2>7. h[g + 2] = f
    <3>1. g + 2 \in 1..((1 + g) + 1) /\ ~(g + 2 <= 1 + g) /\ (g + 2) - (1 + g) = 1
      BY <2>2
    <3>2. h[g + 2] = <<f>>[(g + 2) - (1 + g)]
      BY <2>5, <3>1
    <3> QED  BY <2>3, <3>1, <3>2
  <2>8. \A o \in 2..(g + 1) : h[o] = BlankLine
    <3> TAKE o \in 2..(g + 1)
    <3>1. o \in 1..((1 + g) + 1) /\ o <= 1 + g /\ o \in 1..(1 + g) /\ ~(o <= 1) /\ o - 1 \in 1..g
      BY <2>2
    <3> QED  BY <2>2, <2>4, <2>5, <3>1
  <2>9. \A o \in 1..(g + 1) : ~Opens(h[o])
    <3> TAKE o \in 1..(g + 1)
    <3>1. o = 1 \/ o \in 2..(g + 1)
      BY <2>2
    <3> QED  BY <1>3, <2>6, <2>8, <3>1
  <2>10. Len(h) = g + 2 /\ g + 2 \in Nat \ {0} /\ (g + 2) - 1 = g + 1
    BY <2>2, <2>5
  <2> QED  BY <1>6, <2>1, <2>5, <2>6, <2>7, <2>8, <2>9, <2>10 DEF HeadingEnds, S, f, g
<1> QED  BY <1>1, <1>4, <1>5, <1>6

\* What is written of a block: heading, content, and the fence that closes it.
WrittenAs(b) ==
  LET w == Written(b)  n == Len(Heading(b))  c == Len(b.content)
  IN /\ w \in Seq(AnyLine(b)) /\ Len(w) = n + c + 1 /\ n \in Nat \ {0} /\ c \in Nat
     /\ \A o \in 1..n : w[o] = Heading(b)[o]
     /\ \A o \in 1..c : w[n + o] = b.content[o]
     /\ w[n + c + 1] = Fence(b.fence, b.len, NoName)

LEMMA WrittenIs ==
  ASSUME NEW b \in NakedBlocks
  PROVE  WrittenAs(b)
<1> DEFINE S == AnyLine(b)
           f == Fence(b.fence, b.len, NoName)
           h == Heading(b)
           t == b.content
           n == Len(h)
           c == Len(t)
           a == h \o t
           w == a \o <<f>>
<1>1. h \in Seq(S) /\ n \in Nat \ {0}
  BY HeadingIs DEF HeadingEnds
<1>2. t \in Seq(S) /\ c \in Nat
  <2>1. t \in Seq(Range(t)) /\ Range(t) \subseteq S
    BY NakedBlockIs DEF AnyLine
  <2> HIDE DEF S, t
  <2> QED  BY <2>1
<1>3. f \in S
  BY DEF AnyLine
<1>4. Written(b) = w
  BY DEF Written
<1> HIDE DEF S, f, h, t, n, c
<1>5. a \in Seq(S) /\ Len(a) = n + c /\ \A i \in 1..(n + c) : a[i] = IF i <= n THEN h[i] ELSE t[i - n]
  BY <1>1, <1>2, ConcatProperties DEF n, c
<1>6. <<f>> \in Seq(S) /\ Len(<<f>>) = 1 /\ <<f>>[1] = f
  BY <1>3
<1> HIDE DEF a
<1>7. /\ w \in Seq(S) /\ Len(w) = (n + c) + 1
      /\ \A i \in 1..((n + c) + 1) : w[i] = IF i <= n + c THEN a[i] ELSE <<f>>[i - (n + c)]
  BY <1>5, <1>6, ConcatProperties
<1> HIDE DEF w
<1>8. ASSUME NEW o \in 1..n PROVE w[o] = h[o]
  <2>1. o \in 1..((n + c) + 1) /\ o <= n + c /\ o \in 1..(n + c) /\ o <= n
    BY <1>1, <1>2
  <2> QED  BY <1>5, <1>7, <2>1
<1>9. ASSUME NEW o \in 1..c PROVE w[n + o] = t[o]
  <2>1. /\ n + o \in 1..((n + c) + 1) /\ n + o <= n + c /\ n + o \in 1..(n + c) /\ ~(n + o <= n)
        /\ (n + o) - n = o
    BY <1>1, <1>2
  <2> QED  BY <1>5, <1>7, <2>1
<1>10. w[n + c + 1] = f
  <2>1. /\ n + c + 1 \in 1..((n + c) + 1) /\ ~(n + c + 1 <= n + c)
        /\ (n + c + 1) - (n + c) = 1
    BY <1>1, <1>2
  <2> QED  BY <1>6, <1>7, <2>1
<1>11. (n + c) + 1 = n + c + 1
  BY <1>1, <1>2
<1> QED  BY <1>1, <1>2, <1>4, <1>7, <1>8, <1>9, <1>10, <1>11 DEF WrittenAs, S, f, h, t, n, c

AllLines == UNION {AnyLine(b) : b \in NakedBlocks}
WrittenEach(bs) == [i \in DOMAIN bs |-> Written(bs[i])]
FirstWritten(bs, k) == WrittenReply(SubSeq(bs, 1, k))
Start(bs, k) == Len(FirstWritten(bs, k))

LEMMA WrittenIsLines == \A b \in NakedBlocks : Written(b) \in Seq(AllLines)
<1> TAKE b \in NakedBlocks
<1>1. Written(b) \in Seq(AnyLine(b)) /\ AnyLine(b) \subseteq AllLines
  BY WrittenIs DEF WrittenAs, AllLines
<1> HIDE DEF AnyLine, AllLines
<1> QED  BY <1>1

LEMMA NothingWritten == \A bs : FirstWritten(bs, 0) = <<>>
<1> TAKE bs
<1>1. SubSeq(bs, 1, 0) = <<>>
  OBVIOUS
<1>2. WrittenEach(<<>>) = <<>>
  BY DEF WrittenEach
<1>3. FlattenSeq(<<>>) = <<>>
  BY DEF FlattenSeq
<1> QED  BY <1>1, <1>2, <1>3 DEF FirstWritten, WrittenReply, WrittenEach

LEMMA OneBlockMore ==
  ASSUME NEW bs \in Seq(NakedBlocks), NEW k \in 0..(Len(bs) - 1)
  PROVE  FirstWritten(bs, k + 1) = FirstWritten(bs, k) \o Written(bs[k + 1])
<1> DEFINE s == SubSeq(bs, 1, k)
           t == SubSeq(bs, 1, k + 1)
           x == Written(bs[k + 1])
           a == WrittenEach(s)
<1>1. /\ k \in Nat /\ \A i \in 1..(k + 1) : bs[i] \in NakedBlocks
  OBVIOUS
<1>2. s \in Seq(NakedBlocks) /\ Len(s) = k /\ \A i \in 1..k : s[i] = bs[i]
  BY <1>1
<1>3. t \in Seq(NakedBlocks) /\ Len(t) = k + 1 /\ \A i \in 1..(k + 1) : t[i] = bs[i]
  BY <1>1
<1>4. x \in Seq(AllLines)
  BY <1>1, WrittenIsLines
<1> HIDE DEF s, t, x
<1>5. a = [i \in 1..k |-> Written(bs[i])]
  BY <1>2 DEF WrittenEach
<1>6. \A i \in 1..k : Written(bs[i]) \in Seq(AllLines)
  BY <1>1, WrittenIsLines
<1> HIDE DEF a
<1>7. a \in Seq(Seq(AllLines)) /\ Len(a) = k
  BY <1>1, <1>5, <1>6
<1>8. WrittenEach(t) = [i \in 1..(k + 1) |-> Written(bs[i])]
  BY <1>1, <1>3 DEF WrittenEach
<1>9. WrittenEach(t) = Append(a, x)
  <2>1. /\ Append(a, x) \in Seq(Seq(AllLines)) /\ Len(Append(a, x)) = k + 1
        /\ \A i \in 1..k : Append(a, x)[i] = a[i]
        /\ Append(a, x)[k + 1] = x
    BY <1>4, <1>7, AppendProperties
  <2> DEFINE b == Append(a, x)
  <2> HIDE DEF b
  <2>2. b = [i \in 1..(k + 1) |-> b[i]]
    <3>1. b \in Seq(Seq(AllLines)) /\ Len(b) = k + 1
      BY <2>1 DEF b
    <3> QED  BY <1>1, <3>1
  <2>3. \A i \in 1..(k + 1) : b[i] = Written(bs[i])
    <3> TAKE i \in 1..(k + 1)
    <3>1. CASE i \in 1..k
      BY <1>5, <2>1, <3>1 DEF b
    <3>2. CASE i = k + 1
      BY <2>1, <3>2 DEF b, x
    <3> QED  BY <1>1, <3>1, <3>2
  <2> QED  BY <1>8, <2>2, <2>3 DEF b
<1>10. FlattenSeq(Append(a, x)) = FlattenSeq(a) \o x
  BY <1>4, <1>7, FlattenAppends
<1> QED  BY <1>9, <1>10 DEF FirstWritten, WrittenReply, WrittenEach, s, t, x, a

\* Where each of the first m blocks is written.
LaidOut(bs, m) ==
  /\ FirstWritten(bs, m) \in Seq(AllLines) /\ Start(bs, m) \in Nat
  /\ \A k \in 1..m :
       LET w == Written(bs[k])
       IN /\ Start(bs, k - 1) \in Nat
          /\ Start(bs, k) = Start(bs, k - 1) + Len(w)
          /\ Start(bs, k) <= Start(bs, m)
          /\ \A o \in 1..Len(w) : FirstWritten(bs, m)[Start(bs, k - 1) + o] = w[o]

LEMMA LayoutGrows ==
  ASSUME NEW bs \in Seq(NakedBlocks), NEW m \in 0..(Len(bs) - 1), LaidOut(bs, m)
  PROVE  LaidOut(bs, m + 1)
<1> DEFINE f == FirstWritten(bs, m)
           g == FirstWritten(bs, m + 1)
           x == Written(bs[m + 1])
           p == Start(bs, m)
           q == Start(bs, m + 1)
           l == Len(x)
<1>1. m \in Nat /\ bs[m + 1] \in NakedBlocks
  OBVIOUS
<1>2. f \in Seq(AllLines) /\ p \in Nat /\ p = Len(f)
  BY DEF LaidOut, Start
<1>3. x \in Seq(AllLines) /\ l \in Nat
  BY <1>1, WrittenIsLines
<1>4. g = f \o x
  BY OneBlockMore
<1>5. q = Len(g)
  BY DEF Start
<1> HIDE DEF f, g, x, p, q, l
<1>6. /\ g \in Seq(AllLines) /\ q = p + l
      /\ \A i \in 1..(p + l) : g[i] = IF i <= p THEN f[i] ELSE x[i - p]
  BY <1>2, <1>3, <1>4, <1>5, ConcatProperties DEF l
<1>7. q \in Nat /\ p <= q
  BY <1>2, <1>3, <1>6
<1>8. ASSUME NEW o \in 1..l PROVE g[p + o] = x[o]
  <2>1. p + o \in 1..(p + l) /\ ~(p + o <= p) /\ (p + o) - p = o
    BY <1>2, <1>3
  <2> QED  BY <1>6, <2>1
<1>9. ASSUME NEW k \in 1..(m + 1)
      PROVE  LET w == Written(bs[k])
             IN /\ Start(bs, k - 1) \in Nat
                /\ Start(bs, k) = Start(bs, k - 1) + Len(w)
                /\ Start(bs, k) <= q
                /\ \A o \in 1..Len(w) : g[Start(bs, k - 1) + o] = w[o]
  <2>1. CASE k \in 1..m
    <3> DEFINE w == Written(bs[k])
               a == Start(bs, k - 1)
               b == Start(bs, k)
    <3>1. /\ a \in Nat /\ b = a + Len(w) /\ b <= p
          /\ \A o \in 1..Len(w) : f[a + o] = w[o]
      BY <2>1 DEF LaidOut, f, p
    <3>2. Len(w) \in Nat
      <4>1. bs[k] \in NakedBlocks
        BY <2>1
      <4>2. w \in Seq(AllLines)
        BY <4>1, WrittenIsLines
      <4> HIDE DEF w
      <4> QED  BY <4>2
    <3> HIDE DEF w, a, b
    <3>3. b <= q
      BY <1>2, <1>3, <1>6, <3>1, <3>2
    <3>4. ASSUME NEW o \in 1..Len(w) PROVE g[a + o] = w[o]
      <4>1. a + o \in 1..(p + l) /\ a + o <= p
        BY <1>2, <1>3, <3>1, <3>2
      <4> QED  BY <1>6, <3>1, <4>1
    <3> QED  BY <3>1, <3>3, <3>4 DEF w, a, b
  <2>2. CASE k = m + 1
    <3>1. k - 1 = m
      BY <1>1, <2>2
    <3>2. q <= q
      BY <1>7
    <3> QED  BY <1>2, <1>6, <1>8, <2>2, <3>1, <3>2 DEF p, q, x, l
  <2> QED  BY <1>1, <2>1, <2>2
<1> QED  BY <1>6, <1>7, <1>9 DEF LaidOut, g, q

LEMMA LayoutIs ==
  ASSUME NEW bs \in Seq(NakedBlocks)
  PROVE  \A m \in 0..Len(bs) : LaidOut(bs, m)
<1> DEFINE T == {m \in Nat : m <= Len(bs) => LaidOut(bs, m)}
<1>1. 0 \in T
  <2>1. FirstWritten(bs, 0) = <<>>
    BY NothingWritten
  <2>2. <<>> \in Seq(AllLines) /\ Len(<<>>) = 0
    OBVIOUS
  <2>3. Start(bs, 0) = 0
    BY <2>1, <2>2 DEF Start
  <2>4. \A k \in 1..0 : FALSE
    OBVIOUS
  <2>5. LaidOut(bs, 0)
    <3>1. FirstWritten(bs, 0) \in Seq(AllLines)
      BY <2>1, <2>2, Zenon
    <3>2. Start(bs, 0) \in Nat
      BY <2>3
    <3> QED  BY <2>4, <3>1, <3>2, Zenon DEF LaidOut
  <2> QED  BY <2>5
<1>2. ASSUME NEW n \in Nat, n \in T PROVE n + 1 \in T
  <2>1. CASE n + 1 <= Len(bs)
    <3>1. n \in 0..(Len(bs) - 1) /\ n <= Len(bs)
      BY <2>1
    <3>2. LaidOut(bs, n)
      BY <1>2, <3>1
    <3>3. LaidOut(bs, n + 1)
      BY <3>1, <3>2, LayoutGrows
    <3> QED  BY <3>3
  <2>2. CASE ~(n + 1 <= Len(bs))
    BY <2>2
  <2> QED  BY <2>1, <2>2
<1> HIDE DEF T
<1>3. \A n \in Nat : n \in T
  BY <1>1, <1>2, AllNumbers
<1> QED  BY <1>3 DEF T

\* What arrived is a part of the reply, and no more is read of it.
LinesInv ==
  /\ sections \in NakedReplies /\ at \in 0..Len(lines)
  /\ \E n \in 0..Len(WrittenReply(sections)) : lines = SubSeq(WrittenReply(sections), 1, n)

LEMMA SectionsAre ==
  ASSUME NEW bs \in NakedReplies
  PROVE  /\ bs \in Seq(NakedBlocks) /\ Len(bs) \in Nat
         /\ \A m \in 0..Len(bs) : LaidOut(bs, m)
         /\ FirstWritten(bs, Len(bs)) = WrittenReply(bs)
         /\ Start(bs, 0) = 0
<1>1. bs \in Seq(NakedBlocks)
  BY WholeFileAssumption
<1>2. SubSeq(bs, 1, Len(bs)) = bs /\ Len(bs) \in Nat
  BY <1>1, SubSeqFull
<1>3. Start(bs, 0) = 0
  <2>1. FirstWritten(bs, 0) = <<>> /\ Len(<<>>) = 0
    BY NothingWritten
  <2> QED  BY <2>1 DEF Start
<1> QED  BY <1>1, <1>2, <1>3, LayoutIs DEF FirstWritten

LEMMA LinesAre ==
  ASSUME LinesInv
  PROVE  /\ sections \in Seq(NakedBlocks) /\ Len(sections) \in Nat
         /\ Len(lines) \in Nat /\ at \in 0..Len(lines)
         /\ Len(lines) <= Start(sections, Len(sections))
         /\ \A i \in 1..Len(lines) : lines[i] = WrittenReply(sections)[i]
<1> DEFINE w == WrittenReply(sections)
<1>1. /\ sections \in Seq(NakedBlocks) /\ Len(sections) \in Nat
      /\ LaidOut(sections, Len(sections)) /\ FirstWritten(sections, Len(sections)) = w
  BY SectionsAre DEF LinesInv
<1>2. w \in Seq(AllLines) /\ Start(sections, Len(sections)) = Len(w)
  BY <1>1 DEF LaidOut, Start
<1>3. PICK n \in 0..Len(w) : lines = SubSeq(w, 1, n)
  BY DEF LinesInv
<1> HIDE DEF w
<1>4. Len(w) \in Nat /\ \A i \in 1..Len(w) : w[i] \in AllLines
  BY <1>2
<1>5. n \in Nat /\ 1 \in Nat /\ \A i \in 1..n : w[i] \in AllLines
  BY <1>4
<1>6. Len(lines) = n /\ \A i \in 1..n : lines[i] = w[i]
  BY <1>3, <1>5, SubSeqProperties
<1> QED  BY <1>1, <1>2, <1>4, <1>5, <1>6 DEF LinesInv, w

\* Where the fence of a block is, and the lines around it.
OpensAt(k) == Start(sections, k - 1) + Len(Heading(sections[k]))
Placed(k) ==
  LET b == sections[k]
      s == Start(sections, k - 1)
      h == Len(Heading(b))
      c == Len(b.content)
  IN /\ b \in NakedBlocks /\ s \in Nat /\ h \in Nat \ {0} /\ c \in Nat
     /\ Start(sections, k) = s + h + c + 1
     /\ \A o \in 1..h : s + o <= Len(lines) => lines[s + o] = Heading(b)[o]
     /\ \A o \in 1..c : s + h + o <= Len(lines) => lines[s + h + o] = b.content[o]
     /\ s + h + c + 1 <= Len(lines) => lines[s + h + c + 1] = Fence(b.fence, b.len, NoName)

LEMMA BlockIsPlaced ==
  ASSUME LinesInv, NEW k \in 1..Len(sections)
  PROVE  Placed(k)
<1> DEFINE b == sections[k]
           s == Start(sections, k - 1)
           h == Len(Heading(b))
           c == Len(b.content)
           w == Written(b)
           l == Len(w)
           n == Len(lines)
<1>1. sections \in Seq(NakedBlocks) /\ Len(sections) \in Nat /\ n \in Nat
  BY LinesAre
<1>2. b \in NakedBlocks
  BY <1>1
<1>3. /\ l = h + c + 1 /\ h \in Nat \ {0} /\ c \in Nat
      /\ \A o \in 1..h : w[o] = Heading(b)[o]
      /\ \A o \in 1..c : w[h + o] = b.content[o]
      /\ w[h + c + 1] = Fence(b.fence, b.len, NoName)
  <2>1. WrittenAs(b)
    BY <1>2, WrittenIs
  <2> QED  BY <2>1 DEF WrittenAs
<1>4. /\ s \in Nat /\ Start(sections, k) = s + l
      /\ \A o \in 1..l : WrittenReply(sections)[s + o] = w[o]
  <2>1. LaidOut(sections, Len(sections)) /\ FirstWritten(sections, Len(sections)) = WrittenReply(sections)
    BY <1>1, SectionsAre DEF LinesInv
  <2> QED  BY <2>1 DEF LaidOut
<1> HIDE DEF s, h, c, w, l, n
<1>5. ASSUME NEW o \in 1..l, s + o <= n PROVE lines[s + o] = w[o]
  <2>1. s + o \in 1..n
    BY <1>1, <1>3, <1>4, <1>5
  <2>2. lines[s + o] = WrittenReply(sections)[s + o]
    BY <2>1, LinesAre DEF n
  <2> QED  BY <1>4, <2>2
<1>6. ASSUME NEW o \in 1..h, s + o <= n PROVE lines[s + o] = Heading(b)[o]
  <2>1. o \in 1..l
    BY <1>3
  <2> QED  BY <1>3, <1>5, <1>6, <2>1
<1>7. ASSUME NEW o \in 1..c, s + h + o <= n PROVE lines[s + h + o] = b.content[o]
  <2>1. h + o \in 1..l /\ s + (h + o) = s + h + o
    BY <1>3, <1>4
  <2> QED  BY <1>3, <1>5, <1>7, <2>1
<1>8. ASSUME s + h + c + 1 <= n PROVE lines[s + h + c + 1] = Fence(b.fence, b.len, NoName)
  <2>1. h + c + 1 \in 1..l /\ s + (h + c + 1) = s + h + c + 1
    BY <1>3, <1>4
  <2> QED  BY <1>3, <1>5, <1>8, <2>1
<1>9. Start(sections, k) = s + h + c + 1
  BY <1>3, <1>4
<1> QED  BY <1>2, <1>3, <1>4, <1>6, <1>7, <1>8, <1>9 DEF Placed, s, h, c, n

-----------------------------------------------------------------------------
(* The label of a block.                                                     *)

LEMMA GreatestIs ==
  ASSUME NEW S, NEW k \in S, \A j \in S : j \in Nat /\ k >= j
  PROVE  Max(S) = k
<1>1. Max(S) \in S /\ \A j \in S : Max(S) >= j
  <2>1. \E x \in S : \A y \in S : x >= y
    OBVIOUS
  <2> QED  BY <2>1 DEF Max
<1>2. Max(S) >= k /\ k >= Max(S) /\ k \in Nat /\ Max(S) \in Nat
  BY <1>1
<1> QED  BY <1>2

LEMMA LastAbove ==
  ASSUME NEW i \in Nat, NEW k \in 1..(i - 1), k >= i - 4, lines[k] # BlankLine,
         \A j \in (k + 1)..(i - 1) : lines[j] = BlankLine
  PROVE  PathFromLinesAbove(i) = PathFromLabelLine(lines[k])
<1> DEFINE above == {j \in 1..(i - 1) : j >= i - 4 /\ lines[j] # BlankLine}
<1>1. k \in above
  OBVIOUS
<1>2. \A j \in above : j \in Nat /\ k >= j
  OBVIOUS
<1>3. PathFromLinesAbove(i) = IF above = {} THEN NoPath ELSE PathFromLabelLine(lines[Max(above)])
  BY DEF PathFromLinesAbove, LabelLookbackLines
<1> HIDE DEF above
<1>4. Max(above) = k
  BY <1>1, <1>2, GreatestIs
<1> QED  BY <1>1, <1>3, <1>4

LEMMA NoneAbove ==
  ASSUME NEW i \in Nat, \A j \in 1..(i - 1) : j >= i - 4 => lines[j] = BlankLine
  PROVE  PathFromLinesAbove(i) = NoPath
<1> DEFINE above == {j \in 1..(i - 1) : j >= i - 4 /\ lines[j] # BlankLine}
<1>1. above = {}
  OBVIOUS
<1> QED  BY <1>1 DEF PathFromLinesAbove, LabelLookbackLines

LEMMA LabelsAre ==
  /\ \A c, n : PathFromLabelLine(Fence(c, n, NoName)) = NoPath /\ Fence(c, n, NoName) # BlankLine
  /\ PathFromLabelLine(Prose) = NoPath /\ Prose # BlankLine
  /\ \A n : PathFromLabelLine(Named(n)) = Meaning[n] /\ Named(n) # BlankLine
<1>1. ASSUME NEW c, NEW n
      PROVE  PathFromLabelLine(Fence(c, n, NoName)) = NoPath /\ Fence(c, n, NoName) # BlankLine
  <2>1. Fence(c, n, NoName).kind = "fence" /\ Fence(c, n, NoName).info = NoName /\ BlankLine.kind = "blank"
    BY DEF Fence, BlankLine
  <2> QED  BY <2>1, WholeFileAssumption DEF PathFromLabelLine
<1>2. PathFromLabelLine(Prose) = NoPath /\ Prose # BlankLine
  <2>1. Prose.kind = "prose" /\ BlankLine.kind = "blank"
    BY DEF Prose, BlankLine
  <2> QED  BY <2>1 DEF PathFromLabelLine
<1>3. ASSUME NEW n
      PROVE  PathFromLabelLine(Named(n)) = Meaning[n] /\ Named(n) # BlankLine
  <2>1. Named(n).kind = "name" /\ Named(n).name = n /\ BlankLine.kind = "blank"
    BY DEF Named, BlankLine
  <2> QED  BY <2>1 DEF PathFromLabelLine
<1> QED  BY <1>1, <1>2, <1>3

\* A block is written to the path it is meant for.
LEMMA PathIsMeant ==
  ASSUME LinesInv, NEW k \in 1..Len(sections), OpensAt(k) <= Len(lines)
  PROVE  PathOf(OpensAt(k)) = MeantFor(sections[k])
<1> DEFINE b == sections[k]
           s == Start(sections, k - 1)
           h == Len(Heading(b))
           i == OpensAt(k)
           n == Len(lines)
           hd == Heading(b)
<1>1. /\ b \in NakedBlocks /\ s \in Nat /\ h \in Nat \ {0}
      /\ \A o \in 1..h : s + o <= n => lines[s + o] = hd[o]
  BY BlockIsPlaced DEF Placed
<1>2. i = s + h
  BY DEF OpensAt
<1>3. n \in Nat
  BY LinesAre
<1>4. HeadingEnds(b)
  BY <1>1, HeadingIs
<1>5. b.by \in {"info", "label", "none"} /\ b.gap \in Nat
  BY <1>1, NakedBlockIs
<1>6. lines[i].info = IF b.by = "info" THEN b.name ELSE "js"
  <2>1. hd[h].info = IF b.by = "info" THEN b.name ELSE "js"
    BY <1>4 DEF HeadingEnds, Fence
  <2> HIDE DEF b, s, h, n, hd, i
  <2>2. h \in 1..h /\ s + h <= n
    BY <1>1, <1>2 DEF n, i
  <2> QED  BY <1>1, <1>2, <2>1, <2>2
<1>7. PathOf(i) = IF Meaning[lines[i].info] # NoPath THEN Meaning[lines[i].info] ELSE PathFromLinesAbove(i)
  BY DEF PathOf
<1>8. Meaning["js"] = NoPath
  BY WholeFileAssumption
<1>9. i <= n /\ i \in Nat
  BY <1>1, <1>2
<1>10. CASE b.by = "info"
  <2>1. h = 1 /\ i = s + 1
    BY <1>2, <1>4, <1>10 DEF HeadingEnds
  <2>2. MeantFor(b) = Meaning[b.name]
    BY <1>10 DEF MeantFor
  <2>3. PathFromLinesAbove(i) = NoPath
    <3>1. CASE k = 1
      <4>1. s = 0
        BY <3>1, SectionsAre DEF LinesInv
      <4>2. \A j \in 1..(i - 1) : FALSE
        BY <2>1, <4>1
      <4> QED  BY <1>9, <4>2, NoneAbove
    <3>2. CASE k # 1
      <4> DEFINE p == k - 1
                 a == sections[p]
                 t == Start(sections, p - 1)
                 g == Len(Heading(a))
                 c == Len(a.content)
      <4>1. p \in 1..Len(sections)
        BY <3>2
      <4>2. Placed(p)
        BY <4>1, BlockIsPlaced
      <4>3. /\ t \in Nat /\ g \in Nat /\ c \in Nat /\ s = t + g + c + 1
            /\ t + g + c + 1 <= n => lines[t + g + c + 1] = Fence(a.fence, a.len, NoName)
        BY <4>2 DEF Placed
      <4> HIDE DEF a, t, g, c, s, i, n
      <4>4. lines[s] = Fence(a.fence, a.len, NoName)
        BY <1>3, <1>9, <2>1, <4>3
      <4>5. lines[s] # BlankLine /\ PathFromLabelLine(lines[s]) = NoPath
        BY <4>4, LabelsAre
      <4>6. s \in 1..(i - 1) /\ s >= i - 4
        BY <2>1, <4>3
      <4>7. \A j \in (s + 1)..(i - 1) : lines[j] = BlankLine
        BY <2>1, <4>3
      <4>8. PathFromLinesAbove(i) = PathFromLabelLine(lines[s])
        BY <1>9, <4>5, <4>6, <4>7, LastAbove
      <4> QED  BY <4>5, <4>8
    <3> QED  BY <3>1, <3>2
  <2> QED  BY <1>6, <1>7, <1>10, <2>2, <2>3
<1>11. CASE b.by = "none"
  <2>1. h = 2 /\ i = s + 2 /\ hd[1] = Prose
    BY <1>2, <1>4, <1>11 DEF HeadingEnds
  <2>2. MeantFor(b) = NoPath
    BY <1>11 DEF MeantFor
  <2> HIDE DEF s, h, i, n, hd
  <2>3. lines[s + 1] = Prose
    <3>1. 1 \in 1..h /\ s + 1 <= n
      BY <1>1, <1>3, <1>9, <2>1
    <3> QED  BY <1>1, <2>1, <3>1
  <2>4. s + 1 \in 1..(i - 1) /\ s + 1 >= i - 4
    BY <1>1, <2>1
  <2>5. \A j \in (s + 1 + 1)..(i - 1) : lines[j] = BlankLine
    BY <1>1, <2>1
  <2>6. PathFromLinesAbove(i) = PathFromLabelLine(lines[s + 1])
    BY <1>9, <2>3, <2>4, <2>5, LabelsAre, LastAbove
  <2>7. PathFromLinesAbove(i) = NoPath
    BY <2>3, <2>6, LabelsAre
  <2> QED  BY <1>6, <1>7, <1>8, <1>11, <2>2, <2>7 DEF i
<1>12. CASE b.by = "label"
  <2> DEFINE g == b.gap
  <2>0. /\ h = g + 2 /\ hd[1] = Named(b.name)
        /\ \A o \in 2..(h - 1) : hd[o] = BlankLine
    BY <1>4, <1>12 DEF HeadingEnds
  <2>3. g \in Nat
    BY <1>5
  <2>1. /\ h = g + 2 /\ i = s + g + 2 /\ hd[1] = Named(b.name)
        /\ \A o \in 2..(h - 1) : hd[o] = BlankLine
    <3> HIDE DEF s, h, i, n, hd, g
    <3>1. i = s + g + 2
      BY <1>1, <1>2, <2>0, <2>3
    <3> QED  BY <2>0, <3>1
  <2>2. MeantFor(b) = IF g < 4 THEN Meaning[b.name] ELSE NoPath
    BY <1>12 DEF MeantFor
  <2> HIDE DEF s, h, i, n, hd, g
  <2>4. lines[s + 1] = Named(b.name)
    <3>1. 1 \in 1..h /\ s + 1 <= n
      BY <1>1, <1>3, <1>9, <2>1, <2>3
    <3> QED  BY <1>1, <2>1, <3>1
  <2>5. ASSUME NEW j \in (s + 2)..(i - 1) PROVE lines[j] = BlankLine
    <3> DEFINE o == j - s
    <3>1. o \in 2..(h - 1) /\ o \in 1..h /\ s + o = j /\ j <= n
      BY <1>1, <1>3, <1>9, <2>1, <2>3
    <3> HIDE DEF o
    <3>2. lines[s + o] = hd[o] /\ hd[o] = BlankLine
      BY <1>1, <2>1, <3>1
    <3> QED  BY <3>1, <3>2
  <2>6. CASE g < 4
    <3>1. s + 1 \in 1..(i - 1) /\ s + 1 >= i - 4 /\ s + 1 + 1 = s + 2
      BY <1>1, <2>1, <2>3, <2>6
    <3>2. \A j \in (s + 1 + 1)..(i - 1) : lines[j] = BlankLine
      BY <2>5, <3>1
    <3>3. PathFromLinesAbove(i) = PathFromLabelLine(lines[s + 1])
      BY <1>9, <2>4, <3>1, <3>2, LabelsAre, LastAbove
    <3>4. PathFromLinesAbove(i) = Meaning[b.name]
      BY <2>4, <3>3, LabelsAre
    <3> QED  BY <1>6, <1>7, <1>8, <1>12, <2>2, <2>6, <3>4 DEF i
  <2>7. CASE ~(g < 4)
    <3>0. s \in Nat /\ i \in Nat /\ i - 4 >= s + 2
      BY <1>1, <2>1, <2>3, <2>7
    <3>1. \A j \in 1..(i - 1) : j >= i - 4 => j \in (s + 2)..(i - 1)
      BY <3>0
    <3>2. \A j \in 1..(i - 1) : j >= i - 4 => lines[j] = BlankLine
      BY <2>5, <3>1
    <3>3. PathFromLinesAbove(i) = NoPath
      BY <1>9, <3>2, NoneAbove
    <3> QED  BY <1>6, <1>7, <1>8, <1>12, <2>2, <2>7, <3>3 DEF i
  <2> QED  BY <2>6, <2>7
<1> QED  BY <1>5, <1>10, <1>11, <1>12

-----------------------------------------------------------------------------
(* What was parsed of the first blocks.                                      *)

IsLast(j, path, m) ==
  /\ j \in 1..m /\ MeantFor(sections[j]) = path
  /\ \A i \in (j + 1)..m : MeantFor(sections[i]) # path
FileContent(j) == FileOfBody(Arrived(j).content)
FileTells(file, m) ==
  /\ file = [path |-> file.path, content |-> file.content]
  /\ file.path # NoPath
  /\ \E j \in 1..m : IsLast(j, file.path, m) /\ file.content = FileContent(j)
HasFile(files, path) == \E i \in DOMAIN files : files[i].path = path
FilesTell(files, m) ==
  /\ files \in Seq(Range(files))
  /\ \A i \in DOMAIN files : FileTells(files[i], m)
  /\ \A j \in 1..m : MeantFor(sections[j]) # NoPath => HasFile(files, MeantFor(sections[j]))
Unlabeled(m) == {j \in 1..m : MeantFor(sections[j]) = NoPath}
ParsedTells(p, m) ==
  /\ FilesTell(p.files, m)
  /\ p.totalBlocks = m
  /\ p.unlabeledBlocks = Cardinality(Unlabeled(m))

LEMMA IsAnySeq ==
  ASSUME NEW n \in Nat, NEW s, s = [k \in 1..n |-> s[k]]
  PROVE  s \in Seq(Range(s)) /\ Len(s) = n /\ DOMAIN s = 1..n
<1>1. DOMAIN s = 1..n
  OBVIOUS
<1>2. \A k \in 1..n : s[k] \in Range(s)
  BY <1>1 DEF Range
<1>3. s \in [1..n -> Range(s)]
  BY <1>2
<1>4. s \in Seq(Range(s))
  BY <1>3
<1> QED  BY <1>1, <1>4

LEMMA AppendsToAny ==
  ASSUME NEW s, NEW x, s \in Seq(Range(s))
  PROVE  LET t == Append(s, x)  n == Len(s)
         IN /\ n \in Nat /\ DOMAIN s = 1..n /\ DOMAIN t = 1..(n + 1) /\ Len(t) = n + 1
            /\ (\A k \in 1..n : t[k] = s[k]) /\ t[n + 1] = x
            /\ t \in Seq(Range(t)) /\ Range(t) = Range(s) \cup {x}
<1> DEFINE S == Range(s) \cup {x}
           t == Append(s, x)
           n == Len(s)
<1>1. s \in Seq(S) /\ x \in S
  <2>1. Range(s) \subseteq S /\ x \in S
    OBVIOUS
  <2> HIDE DEF S
  <2> QED  BY <2>1
<1>2. n \in Nat /\ DOMAIN s = 1..n
  OBVIOUS
<1> HIDE DEF S, n
<1>3. /\ t \in Seq(S) /\ Len(t) = n + 1
      /\ (\A k \in 1..n : t[k] = s[k]) /\ t[n + 1] = x
  BY <1>1, AppendProperties DEF n
<1> HIDE DEF t
<1>4. t = [k \in 1..(n + 1) |-> t[k]]
  BY <1>2, <1>3
<1>5. t \in Seq(Range(t)) /\ DOMAIN t = 1..(n + 1)
  <2>1. n + 1 \in Nat
    BY <1>2
  <2> HIDE <1>3
  <2> QED  BY <1>4, <2>1, IsAnySeq
<1>6. Range(t) = Range(s) \cup {x}
  <2>1. \A k \in 1..(n + 1) : k \in 1..n \/ k = n + 1
    BY <1>2
  <2>2. 1..n \subseteq 1..(n + 1) /\ n + 1 \in 1..(n + 1)
    BY <1>2
  <2> QED  BY <1>2, <1>3, <1>5, <2>1, <2>2, Zenon DEF Range
<1> QED  BY <1>2, <1>3, <1>5, <1>6 DEF t, n

LEMMA LastOfMore ==
  ASSUME NEW m \in Nat, NEW path
  PROVE  /\ MeantFor(sections[m + 1]) = path => IsLast(m + 1, path, m + 1)
         /\ MeantFor(sections[m + 1]) # path => \A j \in 1..m : IsLast(j, path, m) => IsLast(j, path, m + 1)
<1>1. m + 1 \in 1..(m + 1) /\ \A i \in (m + 1 + 1)..(m + 1) : FALSE
  OBVIOUS
<1>2. ASSUME NEW j \in 1..m
      PROVE  /\ j \in 1..(m + 1)
             /\ \A i \in (j + 1)..(m + 1) : i \in (j + 1)..m \/ i = m + 1
  OBVIOUS
<1>3. MeantFor(sections[m + 1]) = path => IsLast(m + 1, path, m + 1)
  BY <1>1 DEF IsLast
<1>4. ASSUME MeantFor(sections[m + 1]) # path, NEW j \in 1..m, IsLast(j, path, m)
      PROVE  IsLast(j, path, m + 1)
  BY <1>2, <1>4, Zenon DEF IsLast
<1> QED  BY <1>3, <1>4

LEMMA FileStaysTold ==
  ASSUME NEW m \in Nat, NEW file, FileTells(file, m), MeantFor(sections[m + 1]) # file.path
  PROVE  FileTells(file, m + 1)
<1>1. PICK j \in 1..m : IsLast(j, file.path, m) /\ file.content = FileContent(j)
  BY DEF FileTells
<1>2. IsLast(j, file.path, m + 1)
  BY <1>1, LastOfMore
<1>3. j \in 1..(m + 1)
  OBVIOUS
<1> QED  BY <1>1, <1>2, <1>3, Zenon DEF FileTells

LEMMA NewFileIsTold ==
  ASSUME NEW m \in Nat, NEW path, MeantFor(sections[m + 1]) = path, path # NoPath
  PROVE  FileTells([path |-> path, content |-> FileContent(m + 1)], m + 1)
<1> DEFINE file == [path |-> path, content |-> FileContent(m + 1)]
<1>1. file.path = path /\ file.content = FileContent(m + 1) /\ file = [path |-> file.path, content |-> file.content]
  OBVIOUS
<1> HIDE DEF file
<1>2. IsLast(m + 1, path, m + 1) /\ m + 1 \in 1..(m + 1)
  BY LastOfMore
<1>3. FileTells(file, m + 1)
  BY <1>1, <1>2, Zenon DEF FileTells
<1> QED  BY <1>3 DEF file

\* The files with a path have the new content, the others stay.
LEMMA FileIsSet ==
  ASSUME NEW m \in Nat, NEW files, FilesTell(files, m),
         NEW path, MeantFor(sections[m + 1]) = path, path # NoPath
  PROVE  FilesTell(SetFile(files, path, FileContent(m + 1)), m + 1)
<1> DEFINE x == FileContent(m + 1)
           new == SetFile(files, path, x)
           n == Len(files)
           file == [path |-> path, content |-> x]
<1>1. /\ files \in Seq(Range(files))
      /\ \A i \in DOMAIN files : FileTells(files[i], m)
      /\ \A j \in 1..m : MeantFor(sections[j]) # NoPath => HasFile(files, MeantFor(sections[j]))
  BY DEF FilesTell
<1>2. n \in Nat /\ DOMAIN files = 1..n
  BY <1>1
<1>3. FileTells(file, m + 1)
  BY NewFileIsTold
<1>4. file.path = path
  OBVIOUS
<1>5. ASSUME NEW j \in 1..(m + 1)
      PROVE  j \in 1..m \/ MeantFor(sections[j]) = path
  OBVIOUS
<1> HIDE DEF n, x
<1>6. CASE HasFile(files, path)
  <2> DEFINE f == [k \in DOMAIN files |-> IF files[k].path # path THEN files[k]
                                         ELSE [files[k] EXCEPT !.content = x]]
  <2>1. new = f
    BY <1>6 DEF SetFile, HasFile
  <2>2. ASSUME NEW k \in 1..n
        PROVE  /\ f[k].path = files[k].path
               /\ FileTells(f[k], m + 1)
    <3>1. FileTells(files[k], m)
      BY <1>1, <1>2
    <3>2. f[k] = IF files[k].path # path THEN files[k] ELSE [files[k] EXCEPT !.content = x]
      BY <1>2
    <3>3. files[k] = [path |-> files[k].path, content |-> files[k].content]
      BY <3>1 DEF FileTells
    <3> HIDE DEF f
    <3>4. CASE files[k].path # path
      BY <3>1, <3>2, <3>4, FileStaysTold
    <3>5. CASE files[k].path = path
      <4>1. [files[k] EXCEPT !.content = x] = file
        BY <3>3, <3>5
      <4>2. f[k] = file
        BY <3>2, <3>5, <4>1
      <4> QED  BY <1>3, <1>4, <3>5, <4>2
    <3> QED  BY <3>4, <3>5
  <2>3. f = [k \in 1..n |-> f[k]]
    BY <1>2
  <2> HIDE DEF f
  <2>4. f \in Seq(Range(f)) /\ DOMAIN f = 1..n
    BY <1>2, <2>3, IsAnySeq
  <2>5. \A p : HasFile(files, p) => HasFile(f, p)
    BY <1>2, <2>2, <2>4, Zenon DEF HasFile
  <2>6. \A j \in 1..(m + 1) : MeantFor(sections[j]) # NoPath => HasFile(f, MeantFor(sections[j]))
    BY <1>1, <1>5, <1>6, <2>5, Zenon
  <2>7. FilesTell(f, m + 1)
    BY <2>2, <2>4, <2>6, Zenon DEF FilesTell
  <2> QED  BY <2>1, <2>7 DEF x
<1>7. CASE ~HasFile(files, path)
  <2> DEFINE f == Append(files, file)
  <2>1. new = f
    BY <1>7 DEF SetFile, HasFile
  <2> HIDE DEF file
  <2>2. /\ DOMAIN f = 1..(n + 1) /\ (\A k \in 1..n : f[k] = files[k]) /\ f[n + 1] = file
        /\ f \in Seq(Range(f))
    BY <1>1, AppendsToAny DEF n
  <2> HIDE DEF f
  <2>3. ASSUME NEW k \in 1..n PROVE FileTells(f[k], m + 1)
    <3>1. FileTells(files[k], m) /\ files[k].path # path
      BY <1>1, <1>2, <1>7 DEF HasFile
    <3> QED  BY <2>2, <3>1, FileStaysTold
  <2>4. \A k \in 1..(n + 1) : k \in 1..n \/ k = n + 1
    BY <1>2
  <2>5. n + 1 \in 1..(n + 1) /\ 1..n \subseteq 1..(n + 1)
    BY <1>2
  <2>6. \A k \in DOMAIN f : FileTells(f[k], m + 1)
    BY <1>3, <2>2, <2>3, <2>4, Zenon
  <2>7. \A p : HasFile(files, p) => HasFile(f, p)
    BY <1>2, <2>2, <2>5, Zenon DEF HasFile
  <2>8. HasFile(f, path)
    BY <1>4, <2>2, <2>5, Zenon DEF HasFile, file
  <2>9. \A j \in 1..(m + 1) : MeantFor(sections[j]) # NoPath => HasFile(f, MeantFor(sections[j]))
    BY <1>1, <1>5, <2>7, <2>8, Zenon
  <2>10. FilesTell(f, m + 1)
    BY <2>2, <2>6, <2>9, Zenon DEF FilesTell
  <2> QED  BY <2>1, <2>10 DEF x
<1> QED  BY <1>6, <1>7

LEMMA FilesStayTold ==
  ASSUME NEW m \in Nat, NEW files, FilesTell(files, m), MeantFor(sections[m + 1]) = NoPath
  PROVE  FilesTell(files, m + 1)
<1>1. \A i \in DOMAIN files : FileTells(files[i], m) /\ files[i].path # NoPath
  BY Zenon DEF FilesTell, FileTells
<1>2. \A i \in DOMAIN files : FileTells(files[i], m + 1)
  BY <1>1, FileStaysTold
<1>3. \A j \in 1..(m + 1) : j \in 1..m \/ j = m + 1
  OBVIOUS
<1> QED  BY <1>2, <1>3, Zenon DEF FilesTell

LEMMA UnlabeledGrows ==
  ASSUME NEW m \in Nat
  PROVE  /\ Cardinality(Unlabeled(m)) \in Nat
         /\ Cardinality(Unlabeled(m + 1)) =
              Cardinality(Unlabeled(m)) + IF MeantFor(sections[m + 1]) = NoPath THEN 1 ELSE 0
<1>1. \A j \in 1..(m + 1) : j \in 1..m \/ j = m + 1
  OBVIOUS
<1>2. m + 1 \in 1..(m + 1) /\ 1..m \subseteq 1..(m + 1) /\ m + 1 \notin 1..m
  OBVIOUS
<1>3. IsFiniteSet(Unlabeled(m)) /\ Cardinality(Unlabeled(m)) \in Nat /\ m + 1 \notin Unlabeled(m)
  <2>1. IsFiniteSet(1..m)
    BY FS_Interval
  <2>2. Unlabeled(m) \subseteq 1..m
    BY DEF Unlabeled
  <2>3. IsFiniteSet(Unlabeled(m))
    BY <2>1, <2>2, FS_Subset
  <2>4. Cardinality(Unlabeled(m)) \in Nat
    BY <2>3, FS_CardinalityType
  <2> QED  BY <1>2, <2>2, <2>3, <2>4
<1>4. CASE MeantFor(sections[m + 1]) = NoPath
  <2>1. Unlabeled(m + 1) = Unlabeled(m) \cup {m + 1}
    BY <1>1, <1>2, <1>4 DEF Unlabeled
  <2>2. Cardinality(Unlabeled(m + 1)) = Cardinality(Unlabeled(m)) + 1
    BY <1>3, <2>1, FS_AddElement
  <2> QED  BY <1>3, <1>4, <2>2
<1>5. CASE MeantFor(sections[m + 1]) # NoPath
  <2>1. Unlabeled(m + 1) = Unlabeled(m)
    BY <1>1, <1>2, <1>5 DEF Unlabeled
  <2> QED  BY <1>3, <1>5, <2>1
<1> QED  BY <1>4, <1>5

\* A block that ends with what arrived of it is told.
LEMMA BlockIsTold ==
  ASSUME NEW m \in Nat, ParsedTells(parsed, m), EndsBlock,
         block.path = MeantFor(sections[m + 1]), FileOfBody(block.body) = FileContent(m + 1)
  PROVE  ParsedTells(parsed', m + 1)
<1> DEFINE path == block.path
           u == Cardinality(Unlabeled(m))
<1>1. /\ parsed'.files = IF path = NoPath THEN parsed.files
                         ELSE SetFile(parsed.files, path, FileOfBody(block.body))
      /\ parsed'.unlabeledBlocks = parsed.unlabeledBlocks + IF path = NoPath THEN 1 ELSE 0
      /\ parsed'.totalBlocks = parsed.totalBlocks + 1
  BY DEF EndsBlock
<1>2. FilesTell(parsed.files, m) /\ parsed.totalBlocks = m /\ parsed.unlabeledBlocks = u
  BY DEF ParsedTells
<1>3. Cardinality(Unlabeled(m + 1)) = u + IF path = NoPath THEN 1 ELSE 0
  BY UnlabeledGrows
<1>4. FilesTell(parsed'.files, m + 1)
  <2>1. CASE path = NoPath
    BY <1>1, <1>2, <2>1, FilesStayTold
  <2>2. CASE path # NoPath
    <3>1. parsed'.files = SetFile(parsed.files, path, FileContent(m + 1))
      BY <1>1, <2>2
    <3>2. MeantFor(sections[m + 1]) = path
      OBVIOUS
    <3> HIDE DEF path
    <3>3. FilesTell(SetFile(parsed.files, path, FileContent(m + 1)), m + 1)
      BY <1>2, <2>2, <3>2, FileIsSet
    <3> QED  BY <3>1, <3>3
  <2> QED  BY <2>1, <2>2
<1> HIDE DEF u, path
<1> QED  BY <1>1, <1>2, <1>3, <1>4 DEF ParsedTells

-----------------------------------------------------------------------------
(* How far it was read.                                                      *)

LEMMA BlocksInOrder ==
  ASSUME NEW bs \in NakedReplies, NEW k \in 1..Len(bs), NEW j \in 1..(k - 1)
  PROVE  Start(bs, j) <= Start(bs, k - 1)
<1>1. k - 1 \in 0..Len(bs)
  BY SectionsAre
<1> QED  BY <1>1, SectionsAre DEF LaidOut

\* m blocks were read, and the next has not begun.
Between(m) ==
  /\ block = NoBlock
  /\ m < Len(sections) => at < OpensAt(m + 1)
  /\ m > 0 => OpensAt(m) <= at
  /\ Start(sections, m) <= at \/ at = Len(lines)

\* m blocks were read, and c lines of the next.
Opened(b, c) ==
  [fence |-> b.fence, len |-> b.len, path |-> MeantFor(b), body |-> SubSeq(b.content, 1, c)]
Within(m) ==
  /\ m < Len(sections)
  /\ \E c \in 0..Len(sections[m + 1].content) :
       at = OpensAt(m + 1) + c /\ block = Opened(sections[m + 1], c)

Wholesome == \A k \in DOMAIN sections : ~ClosesEarly(sections[k])

LEMMA OpenedIsBlock ==
  ASSUME NEW b \in NakedBlocks, NEW c \in 0..Len(b.content)
  PROVE  /\ Opened(b, c) # NoBlock
         /\ Opened(b, c).path = MeantFor(b) /\ Opened(b, c).body = SubSeq(b.content, 1, c)
         /\ Opened(b, c).fence = b.fence /\ Opened(b, c).len = b.len
         /\ \A x : Closes(x, Opened(b, c)) <=> Closes(x, b)
<1>1. MeantFor(b) \in {NoPath, Meaning[b.name]}
  BY DEF MeantFor
<1>2. \A p \in {NoPath, Meaning[b.name]} :
        NoBlock # [fence |-> b.fence, len |-> b.len, path |-> p, body |-> SubSeq(b.content, 1, c)]
  BY WholeFileAssumption
<1>3. Opened(b, c) # NoBlock
  BY <1>1, <1>2 DEF Opened
<1>4. /\ Opened(b, c).path = MeantFor(b) /\ Opened(b, c).body = SubSeq(b.content, 1, c)
      /\ Opened(b, c).fence = b.fence /\ Opened(b, c).len = b.len
  BY DEF Opened
<1>5. \A x : Closes(x, Opened(b, c)) <=> Closes(x, b)
  BY <1>4 DEF Closes
<1> QED  BY <1>3, <1>4, <1>5

\* The lines of the heading do not open a block, but for the last.
LEMMA HeadingOpens ==
  ASSUME LinesInv, NEW m \in 0..(Len(sections) - 1), NEW i \in 1..Len(lines),
         Start(sections, m) < i, i <= OpensAt(m + 1)
  PROVE  /\ Opens(lines[i]) <=> i = OpensAt(m + 1)
         /\ i = OpensAt(m + 1) => lines[i].char = sections[m + 1].fence /\ lines[i].len = sections[m + 1].len
<1> DEFINE k == m + 1
           b == sections[k]
           s == Start(sections, m)
           h == Len(Heading(b))
           hd == Heading(b)
           n == Len(lines)
           o == i - s
<1>1. k \in 1..Len(sections) /\ k - 1 = m
  BY LinesAre
<1>2. /\ b \in NakedBlocks /\ s \in Nat /\ h \in Nat \ {0}
      /\ \A x \in 1..h : s + x <= n => lines[s + x] = hd[x]
  BY <1>1, BlockIsPlaced DEF Placed
<1>3. OpensAt(k) = s + h
  BY <1>1 DEF OpensAt
<1>4. HeadingEnds(b)
  BY <1>2, HeadingIs
<1>5. /\ hd[h] = Fence(b.fence, b.len, IF b.by = "info" THEN b.name ELSE "js")
      /\ \A x \in 1..(h - 1) : ~Opens(hd[x])
  BY <1>4 DEF HeadingEnds
<1>6. n \in Nat
  BY LinesAre
<1>7. Opens(hd[h]) /\ hd[h].char = b.fence /\ hd[h].len = b.len
  BY <1>5 DEF Opens, Fence
<1> HIDE DEF b, s, h, hd, n, k
<1>8. o \in 1..h /\ s + o = i /\ i <= n /\ (o = h <=> i = s + h) /\ (o # h => o \in 1..(h - 1))
  BY <1>1, <1>2, <1>3, <1>6 DEF k, n, s
<1> HIDE DEF o
<1>9. lines[i] = hd[o]
  BY <1>2, <1>8
<1>10. Opens(lines[i]) <=> i = OpensAt(k)
  BY <1>3, <1>5, <1>7, <1>8, <1>9
<1>11. i = OpensAt(k) => lines[i].char = b.fence /\ lines[i].len = b.len
  BY <1>3, <1>7, <1>8, <1>9
<1> QED  BY <1>10, <1>11 DEF k, b

\* Between two blocks there is a line to read only if there is another block.
LEMMA NextIsHeading ==
  ASSUME LinesInv, NEW m \in 0..Len(sections), Between(m), at < Len(lines)
  PROVE  /\ m \in 0..(Len(sections) - 1) /\ at + 1 \in 1..Len(lines)
         /\ Start(sections, m) < at + 1 /\ at + 1 <= OpensAt(m + 1)
         /\ Start(sections, m) \in Nat /\ OpensAt(m + 1) \in Nat
<1>1. /\ Len(sections) \in Nat /\ Len(lines) \in Nat /\ at \in 0..Len(lines)
      /\ Len(lines) <= Start(sections, Len(sections))
  BY LinesAre
<1>2. Start(sections, m) <= at
  BY <1>1 DEF Between
<1>3. Start(sections, m) \in Nat
  BY SectionsAre DEF LinesInv, LaidOut
<1>4. m # Len(sections)
  BY <1>1, <1>2, <1>3
<1>5. m \in 0..(Len(sections) - 1) /\ m < Len(sections) /\ m + 1 \in 1..Len(sections) /\ m + 1 - 1 = m
  BY <1>1, <1>4
<1>6. at < OpensAt(m + 1)
  BY <1>5 DEF Between
<1>7. OpensAt(m + 1) \in Nat
  <2>1. Placed(m + 1)
    BY <1>5, BlockIsPlaced
  <2>2. Len(Heading(sections[m + 1])) \in Nat /\ Start(sections, m + 1 - 1) \in Nat
    BY <2>1 DEF Placed
  <2> QED  BY <2>2 DEF OpensAt
<1> QED  BY <1>1, <1>2, <1>3, <1>5, <1>6, <1>7

\* Where a block within is.
LEMMA WithinIs ==
  ASSUME LinesInv, NEW m \in 0..(Len(sections) - 1)
  PROVE  /\ m + 1 \in 1..Len(sections) /\ m + 1 \in DOMAIN sections
         /\ sections[m + 1] \in NakedBlocks
         /\ OpensAt(m + 1) \in Nat /\ Len(sections[m + 1].content) \in Nat
         /\ Start(sections, m + 1) = OpensAt(m + 1) + Len(sections[m + 1].content) + 1
         /\ Start(sections, m) < OpensAt(m + 1) /\ Start(sections, m) \in Nat
         /\ \A o \in 1..Len(sections[m + 1].content) :
              OpensAt(m + 1) + o <= Len(lines) => lines[OpensAt(m + 1) + o] = sections[m + 1].content[o]
         /\ Start(sections, m + 1) <= Len(lines) =>
              lines[Start(sections, m + 1)] = Fence(sections[m + 1].fence, sections[m + 1].len, NoName)
<1> DEFINE k == m + 1
           b == sections[k]
           s == Start(sections, m)
           h == Len(Heading(b))
           c == Len(b.content)
<1>1. k \in 1..Len(sections) /\ k - 1 = m /\ k \in DOMAIN sections
  BY LinesAre
<1>2. /\ b \in NakedBlocks /\ s \in Nat /\ h \in Nat \ {0} /\ c \in Nat
      /\ Start(sections, k) = s + h + c + 1
      /\ \A o \in 1..c : s + h + o <= Len(lines) => lines[s + h + o] = b.content[o]
      /\ s + h + c + 1 <= Len(lines) => lines[s + h + c + 1] = Fence(b.fence, b.len, NoName)
  BY <1>1, BlockIsPlaced DEF Placed
<1>3. OpensAt(k) = s + h
  BY <1>1 DEF OpensAt
<1> HIDE DEF b, s, h, c, k
<1>4. OpensAt(k) \in Nat /\ s < OpensAt(k)
  BY <1>2, <1>3
<1>5. Start(sections, k) = OpensAt(k) + c + 1
  BY <1>2, <1>3
<1> QED  BY <1>1, <1>2, <1>3, <1>4, <1>5 DEF k, b, s, c

LEMMA LesserOfTwo ==
  ASSUME NEW x \in Nat, NEW y \in Nat, x <= y
  PROVE  Min({x, y}) = x /\ Min({y, x}) = x
<1> DEFINE S == {x, y}
           z == Min(S)
<1>1. z \in S /\ \A u \in S : z =< u
  <2>1. \E u \in S : \A v \in S : u =< v
    BY DEF S
  <2> HIDE DEF S
  <2> QED  BY <2>1 DEF Min
<1>2. z \in {x, y} /\ z <= x
  BY <1>1
<1>3. {y, x} = S
  OBVIOUS
<1> HIDE DEF z
<1>4. z = x
  BY <1>2
<1> QED  BY <1>3, <1>4 DEF z

\* What arrived of a block.
LEMMA ArrivedIs ==
  ASSUME LinesInv, NEW k \in 1..Len(sections), NEW c \in 0..Len(sections[k].content),
         \/ c = Len(sections[k].content) /\ OpensAt(k) + c <= Len(lines)
         \/ OpensAt(k) + c = Len(lines)
  PROVE  FileContent(k) = FileOfBody(SubSeq(sections[k].content, 1, c))
<1> DEFINE b == sections[k]
           l == Len(b.content)
           s == Start(sections, k - 1)
           h == Len(Heading(b))
           n == Len(lines)
           d == n - s - h
<1>1. /\ b \in NakedBlocks /\ s \in Nat /\ h \in Nat /\ l \in Nat
  BY BlockIsPlaced DEF Placed
<1>2. n \in Nat
  BY LinesAre
<1>3. LinesBefore(k) = s
  BY DEF LinesBefore, Start, FirstWritten
<1>4. OpensAt(k) = s + h
  BY DEF OpensAt
<1>5. b = [name |-> b.name, by |-> b.by, gap |-> b.gap, fence |-> b.fence,
           len |-> b.len, content |-> b.content]
  BY <1>1, NakedBlockIs
<1>6. Arrived(k).content = SubSeq(b.content, 1, Min({l, d}))
  <2>1. Arrived(k) = [b EXCEPT !.content = SubSeq(b.content, 1, Min({l, d}))]
    BY <1>3 DEF Arrived
  <2> HIDE DEF l, d, b
  <2> QED  BY <1>5, <2>1
<1> HIDE DEF b, l, s, h, n
<1>7. \/ c = l /\ l <= d /\ d \in Nat
      \/ c = d /\ d <= l /\ d \in Nat
  BY <1>1, <1>2, <1>4 DEF b, l, n
<1> HIDE DEF d
<1>8. Min({l, d}) = c
  <2>1. CASE c = l /\ l <= d /\ d \in Nat
    BY <1>1, <2>1, LesserOfTwo
  <2>2. CASE c = d /\ d <= l /\ d \in Nat
    BY <1>1, <2>2, LesserOfTwo
  <2> QED  BY <1>7, <2>1, <2>2
<1> QED  BY <1>6, <1>8 DEF FileContent, b

\* A block ended: what follows.
LEMMA EndedIsBetween ==
  ASSUME LinesInv, NEW m \in 0..(Len(sections) - 1), NEW c \in 0..Len(sections[m + 1].content),
         NEW a \in Nat,
         \/ c = Len(sections[m + 1].content) /\ a = Start(sections, m + 1)
         \/ a = OpensAt(m + 1) + c /\ a = Len(lines)
  PROVE  /\ m + 1 \in 0..Len(sections)
         /\ m + 1 < Len(sections) => a < OpensAt(m + 1 + 1)
         /\ OpensAt(m + 1) <= a
         /\ Start(sections, m + 1) <= a \/ a = Len(lines)
<1>1. Len(sections) \in Nat
  BY LinesAre
<1>2. /\ OpensAt(m + 1) \in Nat /\ Len(sections[m + 1].content) \in Nat
      /\ Start(sections, m + 1) = OpensAt(m + 1) + Len(sections[m + 1].content) + 1
  BY WithinIs
<1>3. a <= Start(sections, m + 1) /\ OpensAt(m + 1) <= a /\ Start(sections, m + 1) \in Nat
  BY <1>2
<1>4. m + 1 \in 0..Len(sections)
  BY <1>1
<1>5. ASSUME m + 1 < Len(sections) PROVE a < OpensAt(m + 1 + 1)
  <2>1. m + 1 \in 0..(Len(sections) - 1)
    BY <1>1, <1>5
  <2>2. Start(sections, m + 1) < OpensAt(m + 1 + 1) /\ OpensAt(m + 1 + 1) \in Nat
    BY <2>1, WithinIs
  <2> QED  BY <1>3, <2>2
<1>6. Start(sections, m + 1) <= a \/ a = Len(lines)
  BY <1>2
<1> QED  BY <1>3, <1>4, <1>5, <1>6

-----------------------------------------------------------------------------
(* A step reads a line of the block it is in.                                *)

\* What the model wrote and what arrived of it stay as they are, and so does
\* what was said of them.
Frozen == sections' = sections /\ lines' = lines

LEMMA FrozenKeeps ==
  ASSUME Frozen
  PROVE  /\ \A bs, k : Start(bs, k)' = Start(bs, k)
         /\ \A k : OpensAt(k)' = OpensAt(k)
         /\ \A p, m : ParsedTells(p, m)' <=> ParsedTells(p, m)
         /\ Wholesome' <=> Wholesome
  BY DEF Frozen, Start, FirstWritten, WrittenReply, OpensAt, ParsedTells, FilesTell, FileTells, IsLast, FileContent,
         Arrived, Wholesome, Unlabeled, LinesBefore

LEMMA FrozenTells ==
  ASSUME Frozen, NEW m
  PROVE  ParsedTells(parsed, m)' <=> ParsedTells(parsed', m)
  BY DEF Frozen, Start, FirstWritten, WrittenReply, OpensAt, ParsedTells, FilesTell, FileTells, IsLast, FileContent,
         Arrived, Wholesome, Unlabeled, LinesBefore

LEMMA ReadsALine ==
  ASSUME ReadsLine, LinesInv
  PROVE  /\ Frozen /\ at' = at + 1 /\ at' \in 1..Len(lines) /\ at < Len(lines) /\ at \in Nat /\ Len(lines) \in Nat
         /\ applied' = applied /\ outcome' = outcome /\ LinesInv'
<1>1. /\ at < Len(lines) /\ at' = at + 1 /\ Frozen /\ applied' = applied /\ outcome' = outcome
  BY DEF ReadsLine, Frozen
<1>2. Len(lines) \in Nat /\ at \in 0..Len(lines)
  BY LinesAre
<1>3. at' \in 1..Len(lines) /\ at' \in 0..Len(lines)
  BY <1>1, <1>2
<1>4. LinesInv'
  BY <1>1, <1>3 DEF LinesInv, Frozen
<1> QED  BY <1>1, <1>2, <1>3, <1>4

LEMMA SkipStaysBetween ==
  ASSUME LinesInv, NEW m \in 0..Len(sections), Between(m), SkipsLine
  PROVE  Between(m)' /\ parsed' = parsed
<1>1. ReadsLine /\ ~Opens(lines[at']) /\ block' = block /\ parsed' = parsed
  BY DEF SkipsLine
<1>2. /\ Frozen /\ at' = at + 1 /\ at < Len(lines) /\ at \in Nat /\ Len(lines) \in Nat /\ at' \in 1..Len(lines)
  BY <1>1, ReadsALine
<1>3. /\ m \in 0..(Len(sections) - 1) /\ Start(sections, m) < at' /\ at' <= OpensAt(m + 1)
      /\ Start(sections, m) \in Nat /\ OpensAt(m + 1) \in Nat
  BY <1>2, NextIsHeading
<1>4. at' # OpensAt(m + 1)
  BY <1>1, <1>2, <1>3, HeadingOpens
<1>5. at' < OpensAt(m + 1)
  BY <1>2, <1>3, <1>4
<1>6. m > 0 => OpensAt(m) <= at'
  <2>1. ASSUME m > 0 PROVE OpensAt(m) <= at'
    <3>1. m - 1 \in 0..(Len(sections) - 1) /\ m - 1 + 1 = m
      BY <1>3, <2>1
    <3>2. OpensAt(m) \in Nat
      BY <3>1, WithinIs
    <3>3. OpensAt(m) <= at
      BY <2>1 DEF Between
    <3> QED  BY <1>2, <3>2, <3>3
  <2> QED  BY <2>1
<1>7. Start(sections, m) <= at'
  BY <1>2, <1>3
<1>8. block' = NoBlock
  BY <1>1 DEF Between
<1>9. /\ Start(sections, m)' = Start(sections, m)
      /\ OpensAt(m + 1)' = OpensAt(m + 1) /\ OpensAt(m)' = OpensAt(m)
      /\ sections' = sections
  BY <1>2, FrozenKeeps DEF Frozen
<1> QED  BY <1>1, <1>5, <1>6, <1>7, <1>8, <1>9 DEF Between

LEMMA WithinNow ==
  ASSUME Frozen, NEW m \in 0..(Len(sections) - 1), Len(sections) \in Nat,
         NEW c \in 0..Len(sections[m + 1].content),
         at' = OpensAt(m + 1) + c, block' = Opened(sections[m + 1], c)
  PROVE  Within(m)'
<1>1. m < Len(sections)
  OBVIOUS
<1>2. OpensAt(m + 1)' = OpensAt(m + 1) /\ sections' = sections
  BY FrozenKeeps DEF Frozen
<1> QED  BY <1>1, <1>2 DEF Within, Opened

LEMMA OpeningGoesWithin ==
  ASSUME LinesInv, NEW m \in 0..Len(sections), Between(m), OpensBlock
  PROVE  m \in 0..(Len(sections) - 1) /\ Within(m)' /\ parsed' = parsed
<1>1. /\ ReadsLine /\ Opens(lines[at']) /\ parsed' = parsed
      /\ block' = [fence |-> lines[at'].char, len |-> lines[at'].len, path |-> PathOf(at'), body |-> <<>>]
  BY DEF OpensBlock
<1>2. /\ Frozen /\ at' = at + 1 /\ at < Len(lines) /\ at \in Nat /\ Len(lines) \in Nat /\ at' \in 1..Len(lines)
  BY <1>1, ReadsALine
<1>3. /\ m \in 0..(Len(sections) - 1) /\ Start(sections, m) < at' /\ at' <= OpensAt(m + 1)
      /\ Start(sections, m) \in Nat /\ OpensAt(m + 1) \in Nat
  BY <1>2, NextIsHeading
<1>4. /\ at' = OpensAt(m + 1)
      /\ lines[at'].char = sections[m + 1].fence /\ lines[at'].len = sections[m + 1].len
  BY <1>1, <1>2, <1>3, HeadingOpens
<1>5. m + 1 \in 1..Len(sections) /\ Len(sections[m + 1].content) \in Nat
  BY <1>3, WithinIs
<1>6. PathOf(at') = MeantFor(sections[m + 1])
  <2>1. OpensAt(m + 1) <= Len(lines)
    BY <1>2, <1>4
  <2> QED  BY <1>4, <1>5, <2>1, PathIsMeant
<1>7. SubSeq(sections[m + 1].content, 1, 0) = <<>>
  OBVIOUS
<1>8. block' = Opened(sections[m + 1], 0)
  BY <1>1, <1>4, <1>6, <1>7 DEF Opened
<1>9. 0 \in 0..Len(sections[m + 1].content) /\ at' = OpensAt(m + 1) + 0 /\ Len(sections) \in Nat
  BY <1>3, <1>4, <1>5, LinesAre
<1>10. Within(m)'
  BY <1>2, <1>3, <1>8, <1>9, WithinNow
<1> QED  BY <1>1, <1>3, <1>10

\* Within a block the next line is one of its content, or the fence that closes it.
LEMMA NextIsContent ==
  ASSUME LinesInv, Wholesome, NEW m \in 0..(Len(sections) - 1),
         NEW c \in 0..Len(sections[m + 1].content), at = OpensAt(m + 1) + c, at + 1 <= Len(lines)
  PROVE  /\ Closes(lines[at + 1], sections[m + 1]) <=> c = Len(sections[m + 1].content)
         /\ c = Len(sections[m + 1].content) => at + 1 = Start(sections, m + 1)
         /\ c # Len(sections[m + 1].content) =>
              c + 1 \in 0..Len(sections[m + 1].content) /\ lines[at + 1] = sections[m + 1].content[c + 1]
<1> DEFINE b == sections[m + 1]
           l == Len(b.content)
           a == OpensAt(m + 1)
<1>1. /\ m + 1 \in DOMAIN sections /\ b \in NakedBlocks /\ a \in Nat /\ l \in Nat
      /\ Start(sections, m + 1) = a + l + 1
      /\ \A o \in 1..l : a + o <= Len(lines) => lines[a + o] = b.content[o]
      /\ Start(sections, m + 1) <= Len(lines) => lines[Start(sections, m + 1)] = Fence(b.fence, b.len, NoName)
  BY WithinIs
<1>2. DOMAIN b.content = 1..l
  <2>1. b.content \in Seq(Range(b.content))
    BY <1>1, NakedBlockIs
  <2> QED  BY <2>1
<1>3. \A k \in 1..l : ~Closes(b.content[k], b)
  BY <1>1, <1>2 DEF Wholesome, ClosesEarly
<1>4. b.len \in Nat
  BY <1>1, WholeFileAssumption
<1>5. Closes(Fence(b.fence, b.len, NoName), b)
  BY <1>4 DEF Closes, Fence
<1> HIDE DEF b, l, a
<1>6. CASE c = l
  <2>1. at + 1 = Start(sections, m + 1)
    BY <1>1, <1>6 DEF a
  <2> QED  BY <1>1, <1>5, <1>6, <2>1 DEF b, l
<1>7. CASE c # l
  <2>1. c + 1 \in 1..l /\ c + 1 \in 0..l /\ at + 1 = a + (c + 1)
    BY <1>1, <1>7 DEF a, b, l
  <2>2. lines[at + 1] = b.content[c + 1]
    BY <1>1, <2>1
  <2> QED  BY <1>3, <1>7, <2>1, <2>2 DEF b, l
<1> QED  BY <1>6, <1>7

LEMMA OneLineMore ==
  ASSUME NEW s, s \in Seq(Range(s)), NEW c \in 0..Len(s), c # Len(s)
  PROVE  Append(SubSeq(s, 1, c), s[c + 1]) = SubSeq(s, 1, c + 1)
<1> DEFINE S == Range(s)
<1>1. s \in Seq(S) /\ Len(s) \in Nat
  OBVIOUS
<1> HIDE DEF S
<1>2. /\ c + 1 \in 1..Len(s) /\ c \in Nat /\ c + 1 \in Nat /\ 1 \in Nat
      /\ \A i \in 1..(c + 1) : s[i] \in S
  BY <1>1
<1>3. /\ SubSeq(s, 1, c) \in Seq(S) /\ Len(SubSeq(s, 1, c)) = c
      /\ \A i \in 1..c : SubSeq(s, 1, c)[i] = s[i]
  BY <1>1, <1>2
<1>4. /\ SubSeq(s, 1, c + 1) \in Seq(S) /\ Len(SubSeq(s, 1, c + 1)) = c + 1
      /\ \A i \in 1..(c + 1) : SubSeq(s, 1, c + 1)[i] = s[i]
  BY <1>1, <1>2
<1>5. s[c + 1] \in S
  BY <1>2
<1> DEFINE t == Append(SubSeq(s, 1, c), s[c + 1])
           u == SubSeq(s, 1, c + 1)
<1>6. /\ t \in Seq(S) /\ Len(t) = c + 1
      /\ (\A i \in 1..c : t[i] = SubSeq(s, 1, c)[i]) /\ t[c + 1] = s[c + 1]
  BY <1>3, <1>5, AppendProperties
<1> HIDE DEF t
<1>7. \A i \in 1..(c + 1) : i \in 1..c \/ i = c + 1
  BY <1>2
<1>8. \A i \in 1..(c + 1) : t[i] = u[i]
  BY <1>3, <1>4, <1>6, <1>7
<1> HIDE DEF u
<1>9. t = u
  <2>1. u \in Seq(S) /\ Len(u) = c + 1
    BY <1>4 DEF u
  <2> QED  BY <1>6, <1>8, <2>1, SeqEqual
<1> QED  BY <1>9 DEF t, u

LEMMA CollectingStaysWithin ==
  ASSUME LinesInv, Wholesome, NEW m \in 0..(Len(sections) - 1), Within(m), CollectsLine
  PROVE  Within(m)' /\ parsed' = parsed
<1> DEFINE b == sections[m + 1]
<1>1. /\ ReadsLine /\ ~Closes(lines[at'], block) /\ parsed' = parsed
      /\ block' = [block EXCEPT !.body = Append(block.body, lines[at'])]
  BY DEF CollectsLine
<1>2. /\ Frozen /\ at' = at + 1 /\ at \in Nat /\ Len(lines) \in Nat /\ at' \in 1..Len(lines)
  BY <1>1, ReadsALine
<1>3. PICK c \in 0..Len(b.content) : at = OpensAt(m + 1) + c /\ block = Opened(b, c)
  BY DEF Within
<1>4. /\ b \in NakedBlocks /\ OpensAt(m + 1) \in Nat /\ Len(b.content) \in Nat
  BY WithinIs
<1>5. ~Closes(lines[at'], b)
  <2> HIDE DEF b
  <2> QED  BY <1>1, <1>3, <1>4, OpenedIsBlock
<1>6. /\ c # Len(b.content) /\ c + 1 \in 0..Len(b.content) /\ lines[at'] = b.content[c + 1]
  <2>1. at + 1 <= Len(lines)
    BY <1>2
  <2> QED  BY <1>2, <1>3, <1>5, <2>1, NextIsContent
<1>7. b.content \in Seq(Range(b.content))
  BY <1>4, NakedBlockIs
<1> HIDE DEF b
<1>8. Append(SubSeq(b.content, 1, c), b.content[c + 1]) = SubSeq(b.content, 1, c + 1)
  BY <1>6, <1>7, OneLineMore
<1>9. block' = Opened(b, c + 1)
  BY <1>1, <1>3, <1>6, <1>8 DEF Opened
<1>10. at' = OpensAt(m + 1) + (c + 1)
  BY <1>2, <1>3, <1>4
<1>11. Len(sections) \in Nat
  BY LinesAre
<1>12. Within(m)'
  BY <1>2, <1>6, <1>9, <1>10, <1>11, WithinNow DEF b
<1> QED  BY <1>1, <1>12

\* A block ended, at its fence or where the reply does.
LEMMA EndingGoesBetween ==
  ASSUME LinesInv, NEW m \in 0..(Len(sections) - 1), ParsedTells(parsed, m), EndsBlock, Frozen,
         NEW c \in 0..Len(sections[m + 1].content), block = Opened(sections[m + 1], c),
         at' \in 0..Len(lines),
         \/ c = Len(sections[m + 1].content) /\ at' = Start(sections, m + 1)
         \/ at' = OpensAt(m + 1) + c /\ at' = Len(lines)
  PROVE  m + 1 \in 0..Len(sections) /\ Between(m + 1)' /\ ParsedTells(parsed, m + 1)'
<1> DEFINE b == sections[m + 1]
<1>1. /\ m + 1 \in 1..Len(sections) /\ b \in NakedBlocks /\ OpensAt(m + 1) \in Nat /\ Len(b.content) \in Nat
      /\ Start(sections, m + 1) = OpensAt(m + 1) + Len(b.content) + 1
  BY WithinIs
<1>2. Len(lines) \in Nat /\ at' \in Nat
  BY LinesAre
<1>3. /\ m + 1 \in 0..Len(sections)
      /\ m + 1 < Len(sections) => at' < OpensAt(m + 1 + 1)
      /\ OpensAt(m + 1) <= at'
      /\ Start(sections, m + 1) <= at' \/ at' = Len(lines)
  BY <1>2, EndedIsBetween
<1>4. FileContent(m + 1) = FileOfBody(SubSeq(b.content, 1, c))
  <2>1. \/ c = Len(b.content) /\ OpensAt(m + 1) + c <= Len(lines)
        \/ OpensAt(m + 1) + c = Len(lines)
    BY <1>1, <1>2
  <2> QED  BY <1>1, <2>1, ArrivedIs
<1>5. block.path = MeantFor(b) /\ block.body = SubSeq(b.content, 1, c)
  BY DEF Opened
<1>6. ParsedTells(parsed', m + 1)
  BY <1>4, <1>5, BlockIsTold
<1>7. ParsedTells(parsed, m + 1)'
  BY <1>6, FrozenTells
<1>8. block' = NoBlock
  BY DEF EndsBlock
<1>9. /\ Start(sections, m + 1)' = Start(sections, m + 1) /\ OpensAt(m + 1 + 1)' = OpensAt(m + 1 + 1)
      /\ OpensAt(m + 1)' = OpensAt(m + 1) /\ sections' = sections /\ lines' = lines
  BY FrozenKeeps DEF Frozen
<1>10. Between(m + 1)'
  BY <1>3, <1>8, <1>9 DEF Between
<1> QED  BY <1>3, <1>7, <1>10

-----------------------------------------------------------------------------
(* What was applied.                                                         *)

SafeAmong(files, n) == {files[i] : i \in {j \in 1..n : files[j].path \in SafePaths}}
AppliedInv ==
  /\ applied \in 0..Len(parsed.files)
  /\ applied > 0 => IsParsed
  /\ outcome = [written |-> outcome.written, rejected |-> outcome.rejected]
  /\ outcome.written \in Seq(Range(outcome.written))
  /\ Range(outcome.written) = SafeAmong(parsed.files, applied)
ReadInv(m) == ParsedTells(parsed, m) /\ (Between(m) \/ Within(m))
NakedInv ==
  /\ LinesInv
  /\ Wholesome => AppliedInv /\ \E m \in 0..Len(sections) : ReadInv(m)

LEMMA NothingTold ==
  ParsedTells([files |-> <<>>, unlabeledBlocks |-> 0, totalBlocks |-> 0], 0)
<1>1. DOMAIN <<>> = {} /\ <<>> \in Seq(Range(<<>>)) /\ \A j \in 1..0 : FALSE
  OBVIOUS
<1>2. FilesTell(<<>>, 0)
  BY <1>1, Zenon DEF FilesTell
<1>3. Unlabeled(0) = {}
  BY <1>1 DEF Unlabeled
<1>4. Cardinality(Unlabeled(0)) = 0
  BY <1>3, FS_EmptySet
<1> QED  BY <1>2, <1>4 DEF ParsedTells

LEMMA NakedInvInit == ReplyInit => NakedInv
<1> SUFFICES ASSUME ReplyInit PROVE NakedInv
  OBVIOUS
<1>1. /\ sections \in NakedReplies /\ at = 0 /\ block = NoBlock /\ applied = 0
      /\ \E n \in 0..Len(WrittenReply(sections)) : lines = SubSeq(WrittenReply(sections), 1, n)
      /\ parsed = [files |-> <<>>, unlabeledBlocks |-> 0, totalBlocks |-> 0]
      /\ outcome = [written |-> <<>>, rejected |-> {}]
  BY DEF ReplyInit
<1>2. Len(lines) \in Nat
  <2>1. LaidOut(sections, Len(sections)) /\ FirstWritten(sections, Len(sections)) = WrittenReply(sections)
    BY <1>1, SectionsAre
  <2>2. WrittenReply(sections) \in Seq(AllLines)
    BY <2>1 DEF LaidOut
  <2> DEFINE w == WrittenReply(sections)
  <2> HIDE DEF w
  <2>3. PICK n \in 0..Len(w) : lines = SubSeq(w, 1, n)
    BY <1>1 DEF w
  <2>4. w \in Seq(AllLines)
    BY <2>2 DEF w
  <2>5. n \in Nat /\ 1 \in Nat /\ \A i \in 1..n : w[i] \in AllLines
    BY <2>4
  <2>6. lines \in Seq(AllLines)
    BY <2>3, <2>5, SubSeqProperties
  <2> QED  BY <2>6
<1>3. LinesInv
  <2>1. at \in 0..Len(lines)
    BY <1>1, <1>2
  <2> QED  BY <1>1, <2>1 DEF LinesInv
<1>4. ParsedTells(parsed, 0)
  BY <1>1, NothingTold
<1>5. Start(sections, 0) = 0 /\ Len(sections) \in Nat
  BY <1>1, SectionsAre
<1>6. Between(0)
  <2>1. ASSUME 0 < Len(sections) PROVE at < OpensAt(0 + 1)
    <3>1. 0 \in 0..(Len(sections) - 1)
      BY <1>5, <2>1
    <3>2. Start(sections, 0) < OpensAt(0 + 1) /\ OpensAt(0 + 1) \in Nat
      BY <1>3, <3>1, WithinIs
    <3> QED  BY <1>1, <1>5, <3>2
  <2>2. Start(sections, 0) <= at
    BY <1>1, <1>5
  <2> QED  BY <1>1, <2>1, <2>2 DEF Between
<1>7. 0 \in 0..Len(sections)
  BY <1>5
<1>8. AppliedInv
  <2>1. /\ parsed.files = <<>> /\ outcome.written = <<>> /\ outcome.rejected = {} /\ applied = 0
    BY <1>1
  <2>2. /\ <<>> \in Seq(Range(<<>>)) /\ Range(<<>>) = {} /\ 0 \in 0..Len(<<>>) /\ ~(0 > 0)
    BY DEF Range
  <2>3. SafeAmong(parsed.files, 0) = {}
    BY DEF SafeAmong
  <2> QED  BY <1>1, <2>1, <2>2, <2>3 DEF AppliedInv
<1> QED  BY <1>3, <1>4, <1>6, <1>7, <1>8 DEF NakedInv, ReadInv

\* While the reply is being read nothing was applied, whatever is parsed next.
LEMMA NothingAppliedYet ==
  ASSUME AppliedInv, ~IsParsed, applied' = applied, outcome' = outcome, Len(parsed'.files) \in Nat
  PROVE  AppliedInv'
<1>1. applied = 0
  BY DEF AppliedInv
<1>2. SafeAmong(parsed.files, 0) = {} /\ SafeAmong(parsed'.files, 0) = {}
  BY DEF SafeAmong
<1>3. Range(outcome.written) = {}
  BY <1>1, <1>2 DEF AppliedInv
<1>4. applied' = 0 /\ applied' \in 0..Len(parsed'.files) /\ ~(applied' > 0)
  BY <1>1
<1>5. /\ outcome' = [written |-> outcome'.written, rejected |-> outcome'.rejected]
      /\ outcome'.written \in Seq(Range(outcome'.written))
      /\ Range(outcome'.written) = {}
  BY <1>3 DEF AppliedInv
<1> QED  BY <1>2, <1>4, <1>5 DEF AppliedInv

LEMMA ToldFilesAreCounted ==
  ASSUME NEW p, NEW m, ParsedTells(p, m)
  PROVE  Len(p.files) \in Nat /\ DOMAIN p.files = 1..Len(p.files)
<1>1. p.files \in Seq(Range(p.files))
  BY DEF ParsedTells, FilesTell
<1> QED  BY <1>1

LEMMA SafeGrows ==
  ASSUME NEW files, NEW n \in Nat
  PROVE  SafeAmong(files, n + 1) =
           SafeAmong(files, n) \cup IF files[n + 1].path \in SafePaths THEN {files[n + 1]} ELSE {}
<1>1. \A j \in 1..(n + 1) : j \in 1..n \/ j = n + 1
  OBVIOUS
<1>2. n + 1 \in 1..(n + 1) /\ 1..n \subseteq 1..(n + 1)
  OBVIOUS
<1> QED  BY <1>1, <1>2 DEF SafeAmong

LEMMA ApplyingKeeps ==
  ASSUME AppliedInv, ApplyFile, Len(parsed.files) \in Nat
  PROVE  AppliedInv'
<1> DEFINE n == applied
           files == parsed.files
           f == files[n + 1]
           w == outcome.written
<1>1. /\ IsParsed /\ n < Len(files) /\ applied' = n + 1
      /\ outcome' = IF f.path \in SafePaths THEN [outcome EXCEPT !.written = Append(w, f)]
                    ELSE [outcome EXCEPT !.rejected = outcome.rejected \cup {f.path}]
      /\ lines' = lines /\ at' = at /\ block' = block /\ parsed' = parsed
  BY DEF ApplyFile
<1>2. /\ n \in Nat /\ outcome = [written |-> w, rejected |-> outcome.rejected]
      /\ w \in Seq(Range(w)) /\ Range(w) = SafeAmong(files, n)
  BY DEF AppliedInv
<1>3. IsParsed'
  BY <1>1 DEF IsParsed
<1>4. applied' \in 0..Len(files)
  BY <1>1, <1>2
<1>5. SafeAmong(files, n + 1) = SafeAmong(files, n) \cup IF f.path \in SafePaths THEN {f} ELSE {}
  BY <1>2, SafeGrows
<1>6. CASE f.path \in SafePaths
  <2> DEFINE v == Append(w, f)
  <2>1. v \in Seq(Range(v)) /\ Range(v) = Range(w) \cup {f}
    BY <1>2, AppendsToAny
  <2> HIDE DEF v, f, w
  <2>2. outcome' = [written |-> v, rejected |-> outcome.rejected]
    BY <1>1, <1>2, <1>6 DEF v
  <2>3. outcome' = [written |-> outcome'.written, rejected |-> outcome'.rejected] /\ outcome'.written = v
    BY <2>2
  <2>4. Range(v) = SafeAmong(files, n + 1)
    BY <1>2, <1>5, <1>6, <2>1
  <2> QED  BY <1>1, <1>3, <1>4, <2>1, <2>3, <2>4 DEF AppliedInv
<1>7. CASE f.path \notin SafePaths
  <2> HIDE DEF f, w
  <2> DEFINE r == outcome.rejected \cup {f.path}
  <2> HIDE DEF r
  <2>5. outcome' = [outcome EXCEPT !.rejected = r]
    BY <1>1, <1>7 DEF r
  <2>1. outcome' = [written |-> w, rejected |-> r]
    BY <1>2, <2>5
  <2>2. outcome' = [written |-> outcome'.written, rejected |-> outcome'.rejected] /\ outcome'.written = w
    BY <2>1
  <2>3. Range(w) = SafeAmong(files, n + 1)
    BY <1>2, <1>5, <1>7
  <2> QED  BY <1>1, <1>2, <1>3, <1>4, <2>2, <2>3 DEF AppliedInv
<1> QED  BY <1>6, <1>7

LEMMA BetweenIsNotWithin ==
  ASSUME LinesInv, NEW m \in 0..Len(sections), Within(m)
  PROVE  m \in 0..(Len(sections) - 1) /\ block # NoBlock
<1>1. m \in 0..(Len(sections) - 1)
  BY LinesAre DEF Within
<1>2. sections[m + 1] \in NakedBlocks
  BY <1>1, WithinIs
<1> QED  BY <1>1, <1>2, OpenedIsBlock DEF Within

LEMMA NakedInvNext == NakedInv /\ [ReplyNext]_replyVars => NakedInv'
<1> SUFFICES ASSUME NakedInv, [ReplyNext]_replyVars PROVE NakedInv'
  OBVIOUS
<1>1. LinesInv
  BY DEF NakedInv
<1>2. Frozen
  BY DEF ReplyNext, SkipsLine, OpensBlock, CollectsLine, ClosesBlock, EndsUnterminated, ApplyFile, ReadsLine,
         replyVars, Frozen
<1>3. LinesInv'
  <2>1. CASE ReadsLine
    BY <1>1, <2>1, ReadsALine
  <2>2. CASE at' = at
    BY <1>1, <1>2, <2>2 DEF LinesInv, Frozen
  <2>3. ReadsLine \/ at' = at
    BY DEF ReplyNext, SkipsLine, OpensBlock, CollectsLine, ClosesBlock, EndsUnterminated, ApplyFile, replyVars
  <2> QED  BY <2>1, <2>2, <2>3
<1>4. SUFFICES ASSUME Wholesome PROVE AppliedInv' /\ \E m \in 0..Len(sections) : ReadInv(m)'
  <2>1. Wholesome' <=> Wholesome
    BY <1>2, FrozenKeeps
  <2>2. sections' = sections
    BY <1>2 DEF Frozen
  <2>3. (\E m \in 0..Len(sections) : ReadInv(m)') => (\E m \in 0..Len(sections) : ReadInv(m))'
    BY <2>2
  <2> QED  BY <1>3, <2>1, <2>3 DEF NakedInv
<1>5. AppliedInv
  BY <1>4 DEF NakedInv
<1>6. PICK m \in 0..Len(sections) : ReadInv(m)
  BY <1>4 DEF NakedInv
<1>7. ParsedTells(parsed, m) /\ (Between(m) \/ Within(m)) /\ Len(parsed.files) \in Nat
  BY <1>6, ToldFilesAreCounted DEF ReadInv
<1>8. Len(sections) \in Nat /\ Len(lines) \in Nat /\ at \in 0..Len(lines)
  BY <1>1, LinesAre
<1>9. ASSUME parsed' = parsed PROVE ParsedTells(parsed, m)'
  BY <1>2, <1>7, <1>9, FrozenTells
<1>10. ASSUME ReadsLine PROVE ~IsParsed /\ applied' = applied /\ outcome' = outcome
  BY <1>8, <1>10 DEF ReadsLine, IsParsed
<1>11. CASE SkipsLine
  <2>1. ReadsLine /\ block = NoBlock
    BY <1>11 DEF SkipsLine
  <2>2. Between(m)
    BY <1>1, <1>7, <2>1, BetweenIsNotWithin
  <2>3. Between(m)' /\ parsed' = parsed
    BY <1>1, <1>11, <2>2, SkipStaysBetween
  <2>4. AppliedInv'
    BY <1>5, <1>7, <1>10, <2>1, <2>3, NothingAppliedYet
  <2> QED  BY <1>9, <2>3, <2>4 DEF ReadInv
<1>12. CASE OpensBlock
  <2>1. ReadsLine /\ block = NoBlock
    BY <1>12 DEF OpensBlock
  <2>2. Between(m)
    BY <1>1, <1>7, <2>1, BetweenIsNotWithin
  <2>3. Within(m)' /\ parsed' = parsed
    BY <1>1, <1>12, <2>2, OpeningGoesWithin
  <2>4. AppliedInv'
    BY <1>5, <1>7, <1>10, <2>1, <2>3, NothingAppliedYet
  <2> QED  BY <1>9, <2>3, <2>4 DEF ReadInv
<1>13. CASE CollectsLine
  <2>1. ReadsLine /\ block # NoBlock
    BY <1>13 DEF CollectsLine
  <2>2. Within(m) /\ m \in 0..(Len(sections) - 1)
    BY <1>1, <1>7, <2>1, BetweenIsNotWithin DEF Between
  <2>3. Within(m)' /\ parsed' = parsed
    BY <1>1, <1>4, <1>13, <2>2, CollectingStaysWithin
  <2>4. AppliedInv'
    BY <1>5, <1>7, <1>10, <2>1, <2>3, NothingAppliedYet
  <2> QED  BY <1>9, <2>3, <2>4 DEF ReadInv
<1>14. ASSUME EndsBlock, Within(m), ~IsParsed, applied' = applied, outcome' = outcome, at' \in 0..Len(lines),
              \A c \in 0..Len(sections[m + 1].content) :
                at = OpensAt(m + 1) + c /\ block = Opened(sections[m + 1], c) =>
                  \/ c = Len(sections[m + 1].content) /\ at' = Start(sections, m + 1)
                  \/ at' = OpensAt(m + 1) + c /\ at' = Len(lines)
       PROVE  AppliedInv' /\ \E k \in 0..Len(sections) : ReadInv(k)'
  <2>1. m \in 0..(Len(sections) - 1)
    BY <1>1, <1>14, BetweenIsNotWithin
  <2>2. PICK c \in 0..Len(sections[m + 1].content) :
          at = OpensAt(m + 1) + c /\ block = Opened(sections[m + 1], c)
    BY <1>14 DEF Within
  <2>3. \/ c = Len(sections[m + 1].content) /\ at' = Start(sections, m + 1)
        \/ at' = OpensAt(m + 1) + c /\ at' = Len(lines)
    BY <1>14, <2>2
  <2>4. m + 1 \in 0..Len(sections) /\ Between(m + 1)' /\ ParsedTells(parsed, m + 1)'
    BY <1>1, <1>2, <1>7, <1>14, <2>1, <2>2, <2>3, EndingGoesBetween
  <2>5. ParsedTells(parsed', m + 1)
    BY <1>2, <2>4, FrozenTells
  <2>6. Len(parsed'.files) \in Nat
    BY <2>5, ToldFilesAreCounted
  <2>7. AppliedInv'
    BY <1>5, <1>14, <2>6, NothingAppliedYet
  <2> QED  BY <2>4, <2>7 DEF ReadInv
<1>15. CASE ClosesBlock
  <2>1. ReadsLine /\ block # NoBlock /\ Closes(lines[at'], block) /\ EndsBlock
    BY <1>15 DEF ClosesBlock
  <2>2. Within(m) /\ m \in 0..(Len(sections) - 1)
    BY <1>1, <1>7, <2>1, BetweenIsNotWithin DEF Between
  <2>3. at' = at + 1 /\ at' \in 1..Len(lines)
    BY <1>1, <2>1, ReadsALine
  <2>4. ASSUME NEW c \in 0..Len(sections[m + 1].content), at = OpensAt(m + 1) + c, block = Opened(sections[m + 1], c)
        PROVE  c = Len(sections[m + 1].content) /\ at' = Start(sections, m + 1)
    <3>1. sections[m + 1] \in NakedBlocks
      BY <1>1, <2>2, WithinIs
    <3>2. Closes(lines[at + 1], sections[m + 1])
      BY <2>1, <2>3, <2>4, <3>1, OpenedIsBlock
    <3>3. at + 1 <= Len(lines)
      BY <1>8, <2>3
    <3> QED  BY <1>1, <1>4, <2>2, <2>3, <2>4, <3>2, <3>3, NextIsContent
  <2>5. at' \in 0..Len(lines)
    BY <2>3
  <2> QED  BY <1>10, <1>14, <2>1, <2>2, <2>4, <2>5
<1>16. CASE EndsUnterminated
  <2>1. block # NoBlock /\ at = Len(lines) /\ EndsBlock /\ at' = at /\ applied' = applied /\ outcome' = outcome
    BY <1>16 DEF EndsUnterminated
  <2>2. Within(m)
    BY <1>7, <2>1 DEF Between
  <2>3. ~IsParsed /\ at' \in 0..Len(lines)
    BY <1>8, <2>1 DEF IsParsed
  <2>4. \A c \in 0..Len(sections[m + 1].content) : at = OpensAt(m + 1) + c => at' = OpensAt(m + 1) + c /\ at' = Len(lines)
    BY <2>1
  <2> QED  BY <1>14, <2>1, <2>2, <2>3, <2>4
<1>17. CASE parsed' = parsed /\ at' = at /\ block' = block
  <2>1. /\ \A k : Start(sections, k)' = Start(sections, k)
        /\ \A k : OpensAt(k)' = OpensAt(k)
        /\ sections' = sections /\ lines' = lines
    BY <1>2, FrozenKeeps DEF Frozen, Start
  <2>2. (Between(m)' <=> Between(m)) /\ (Within(m)' <=> Within(m))
    BY <1>17, <2>1 DEF Between, Within, Opened
  <2>3. ReadInv(m)'
    BY <1>7, <1>9, <1>17, <2>2 DEF ReadInv
  <2>4. AppliedInv'
    <3>1. CASE ApplyFile
      BY <1>5, <1>7, <3>1, ApplyingKeeps
    <3>2. CASE UNCHANGED replyVars
      BY <1>5, <3>2 DEF AppliedInv, IsParsed, replyVars
    <3>3. ApplyFile \/ UNCHANGED replyVars \/ ReadsLine \/ EndsUnterminated
      BY DEF ReplyNext, SkipsLine, OpensBlock, CollectsLine, ClosesBlock
    <3>4. ~ReadsLine /\ ~EndsUnterminated
      <4>1. ~ReadsLine
        BY <1>8, <1>17 DEF ReadsLine
      <4>2. ~EndsUnterminated
        BY <1>17 DEF EndsUnterminated, EndsBlock
      <4> QED  BY <4>1, <4>2
    <3> QED  BY <3>1, <3>2, <3>3, <3>4
  <2> QED  BY <2>3, <2>4
<1>18. CASE ApplyFile
  BY <1>17, <1>18 DEF ApplyFile
<1>19. CASE UNCHANGED replyVars
  BY <1>17, <1>19 DEF replyVars
<1> QED  BY <1>11, <1>12, <1>13, <1>15, <1>16, <1>18, <1>19 DEF ReplyNext

-----------------------------------------------------------------------------
(* What is written in the end.                                               *)

LEMMA OpensInOrder ==
  ASSUME LinesInv, NEW k \in 1..Len(sections), NEW j \in 1..k
  PROVE  OpensAt(j) <= OpensAt(k) /\ OpensAt(j) \in Nat /\ OpensAt(k) \in Nat
<1>1. Len(sections) \in Nat /\ sections \in NakedReplies
  BY LinesAre DEF LinesInv
<1>2. /\ j - 1 \in 0..(Len(sections) - 1) /\ (j - 1) + 1 = j
      /\ k - 1 \in 0..(Len(sections) - 1) /\ (k - 1) + 1 = k
  BY <1>1
<1>3. /\ OpensAt(j) \in Nat /\ Len(sections[j].content) \in Nat
      /\ Start(sections, j) = OpensAt(j) + Len(sections[j].content) + 1
  BY <1>2, WithinIs
<1>4. OpensAt(k) \in Nat /\ Start(sections, k - 1) < OpensAt(k) /\ Start(sections, k - 1) \in Nat
  BY <1>2, WithinIs
<1>5. CASE j = k
  BY <1>4, <1>5
<1>6. CASE j # k
  <2>1. j \in 1..(k - 1)
    BY <1>6
  <2>2. Start(sections, j) <= Start(sections, k - 1)
    BY <1>1, <2>1, BlocksInOrder
  <2> QED  BY <1>3, <1>4, <2>2
<1> QED  BY <1>5, <1>6

LEMMA BeganAre ==
  ASSUME LinesInv, NEW m \in 0..Len(sections), Between(m), at = Len(lines)
  PROVE  \A k \in 1..Len(sections) : Began(k) <=> k \in 1..m
<1> TAKE k \in 1..Len(sections)
<1>1. Began(k) <=> Len(lines) >= OpensAt(k)
  BY DEF Began, LinesBefore, OpensAt, Start, FirstWritten
<1>2. Len(sections) \in Nat /\ Len(lines) \in Nat
  BY LinesAre
<1>3. ASSUME k \in 1..m PROVE Len(lines) >= OpensAt(k)
  <2>1. m \in 1..Len(sections) /\ m > 0
    BY <1>2, <1>3
  <2>2. OpensAt(k) <= OpensAt(m) /\ OpensAt(k) \in Nat /\ OpensAt(m) \in Nat
    BY <1>3, <2>1, OpensInOrder
  <2>3. OpensAt(m) <= Len(lines)
    BY <2>1 DEF Between
  <2> QED  BY <1>2, <2>2, <2>3
<1>4. ASSUME k \notin 1..m PROVE ~(Len(lines) >= OpensAt(k))
  <2>1. m + 1 \in 1..k /\ m < Len(sections)
    BY <1>2, <1>4
  <2>2. OpensAt(m + 1) <= OpensAt(k) /\ OpensAt(m + 1) \in Nat /\ OpensAt(k) \in Nat
    BY <2>1, OpensInOrder
  <2>3. Len(lines) < OpensAt(m + 1)
    BY <2>1 DEF Between
  <2> QED  BY <1>2, <2>2, <2>3
<1> QED  BY <1>1, <1>3, <1>4

LEMMA InvDelivers == NakedInv => DeliversTheReply
<1> SUFFICES ASSUME NakedInv, IsApplied, \A k \in DOMAIN sections : ~ClosesEarly(sections[k])
             PROVE  Delivered
  BY DEF DeliversTheReply
<1> DEFINE files == parsed.files
           n == Len(files)
           w == outcome.written
<1>1. LinesInv /\ Wholesome /\ AppliedInv
  BY DEF NakedInv, Wholesome
<1>2. PICK m \in 0..Len(sections) : ReadInv(m)
  BY <1>1 DEF NakedInv
<1>3. at = Len(lines) /\ block = NoBlock /\ applied = n
  BY DEF IsApplied, IsParsed
<1>4. Between(m)
  BY <1>1, <1>2, <1>3, BetweenIsNotWithin DEF ReadInv
<1>5. Len(sections) \in Nat /\ DOMAIN sections = 1..Len(sections) /\ m \in Nat
  <2>1. sections \in Seq(NakedBlocks)
    BY <1>1, LinesAre
  <2> QED  BY <2>1
<1>6. \A k \in 1..Len(sections) : Began(k) <=> k \in 1..m
  BY <1>1, <1>3, <1>4, BeganAre
<1>7. 1..m \subseteq 1..Len(sections)
  BY <1>5
<1>8. \A p : MeantBlocks(p) = {k \in 1..m : MeantFor(sections[k]) = p}
  BY <1>5, <1>6, <1>7 DEF MeantBlocks
<1>9. FilesTell(files, m) /\ parsed.totalBlocks = m /\ parsed.unlabeledBlocks = Cardinality(Unlabeled(m))
  BY <1>2 DEF ReadInv, ParsedTells
<1>10. /\ w \in Seq(Range(w)) /\ Range(w) = SafeAmong(files, n)
       /\ files \in Seq(Range(files)) /\ n \in Nat /\ DOMAIN files = 1..n
  <2>1. /\ w \in Seq(Range(w)) /\ Range(w) = SafeAmong(files, n) /\ files \in Seq(Range(files))
    BY <1>1, <1>3, <1>9 DEF AppliedInv, FilesTell
  <2> HIDE DEF w, files
  <2> QED  BY <2>1 DEF n
<1>11. NoPath \notin SafePaths
  BY WholeFileAssumption
<1> HIDE DEF files, n, w
\* What is written is a file that was told.
<1>12. ASSUME NEW k \in DOMAIN w
       PROVE  w[k].path \in SafePaths /\ FileTells(w[k], m)
  <2>1. w[k] \in Range(w)
    BY DEF Range
  <2>2. PICK i \in 1..n : files[i].path \in SafePaths /\ w[k] = files[i]
    BY <1>10, <2>1 DEF SafeAmong
  <2> QED  BY <1>9, <1>10, <2>2 DEF FilesTell
<1>13. ASSUME NEW k \in DOMAIN w
       PROVE  /\ MeantBlocks(w[k].path) # {}
              /\ w[k].content = FileOfBody(Arrived(Max(MeantBlocks(w[k].path))).content)
  <2> DEFINE p == w[k].path
             M == MeantBlocks(p)
  <2>1. PICK j \in 1..m : IsLast(j, p, m) /\ w[k].content = FileContent(j)
    BY <1>12 DEF FileTells
  <2> HIDE DEF p
  <2>2. M = {i \in 1..m : MeantFor(sections[i]) = p}
    BY <1>8
  <2>3. j \in M
    BY <2>1, <2>2 DEF IsLast
  <2>4. \A i \in M : i \in Nat /\ j >= i
    <3> TAKE i \in M
    <3>1. i \in 1..m /\ MeantFor(sections[i]) = p
      BY <2>2
    <3>2. i \notin (j + 1)..m
      BY <2>1, <3>1 DEF IsLast
    <3> QED  BY <1>5, <3>1, <3>2
  <2> HIDE DEF M
  <2>5. Max(M) = j
    BY <2>3, <2>4, GreatestIs
  <2> QED  BY <2>1, <2>3, <2>5 DEF FileContent, M, p
<1>14. ASSUME NEW p \in SafePaths, MeantBlocks(p) # {}
       PROVE  \E k \in DOMAIN w : w[k].path = p
  <2>1. PICK j \in 1..m : MeantFor(sections[j]) = p
    BY <1>8, <1>14
  <2>2. HasFile(files, p)
    BY <1>9, <1>11, <2>1 DEF FilesTell
  <2>3. PICK i \in 1..n : files[i].path = p
    BY <1>10, <2>2 DEF HasFile
  <2>4. files[i] \in Range(w)
    BY <1>10, <2>3 DEF SafeAmong
  <2> QED  BY <2>3, <2>4 DEF Range
<1>15. {w[k].path : k \in DOMAIN w} = {p \in SafePaths : MeantBlocks(p) # {}}
  BY <1>12, <1>13, <1>14
<1>16. parsed.totalBlocks = Cardinality({k \in DOMAIN sections : Began(k)})
  <2>1. {k \in DOMAIN sections : Began(k)} = 1..m
    BY <1>5, <1>6, <1>7
  <2>2. Cardinality(1..m) = m
    BY <1>5, FS_Interval
  <2> QED  BY <1>9, <2>1, <2>2
<1>17. parsed.unlabeledBlocks = Cardinality(MeantBlocks(NoPath))
  BY <1>8, <1>9 DEF Unlabeled
<1> QED  BY <1>13, <1>15, <1>16, <1>17 DEF Delivered, w

\* Of a naked reply exactly the files it was meant to write are written, each as
\* its last block has it, wherever the reply was cut off (naked-arm.ts:303-360).
THEOREM NakedRepliesAreDelivered == ReplySpec => []DeliversTheReply
<1>1. ReplySpec => []NakedInv
  BY NakedInvInit, NakedInvNext, PTL DEF ReplySpec
<1>2. NakedInv => DeliversTheReply
  BY InvDelivers
<1> QED  BY <1>1, <1>2, PTL
=============================================================================
