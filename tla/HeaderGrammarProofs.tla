------------------------- MODULE HeaderGrammarProofs -------------------------
(***************************************************************************)
(* Theorems about the grammar of AgentHeader, for texts of any length:     *)
(* the parser of StructuredFields reads a text just when the grammar has a *)
(* reading of it, and there is no other.                                   *)
(*                                                                         *)
(* The grammar says where a part may end and leaves open which of these    *)
(* ends is meant; the parser takes the longest.  For each kind of part     *)
(* there are two lemmas.  "Sound": what the parser reads is a reading of   *)
(* the grammar.  "Complete": a reading of the grammar behind which         *)
(* anything can follow is the one that the parser has made.  What can      *)
(* follow (Follow, Separators) is in no set that a part goes on with, and  *)
(* this is why the longest is the only one.                                *)
(***************************************************************************)
EXTENDS AgentHeaderProofs

-----------------------------------------------------------------------------
(* Where characters of a set end *)

\* They may end anywhere up to the place where Skip() ends.
LEMMA EndsAre ==
    ASSUME NEW t \in Seq(Characters), NEW i \in 1..(Len(t) + 1), NEW S, End \notin S
    PROVE  /\ Skip(t, i, S) \in i..(Len(t) + 1) /\ Peek(t, Skip(t, i, S)) \notin S
           /\ Ends(t, i, S) = i..Skip(t, i, S)
           /\ \A j \in Ends(t, i, S) : Skip(t, j, S) = Skip(t, i, S)
           /\ \A j \in Ends(t, i, S) : Peek(t, j) \notin S => j = Skip(t, i, S)
<1> DEFINE last == Skip(t, i, S)
<1>1. last \in i..(Len(t) + 1) /\ Peek(t, last) \notin S /\ \A k \in i..(last - 1) : Peek(t, k) \in S
  BY SkipStops
<1> HIDE DEF last
<1>2. i \in Nat \ {0} /\ Len(t) \in Nat /\ last \in Nat
  BY <1>1
<1>3. \A k \in i..(last - 1) : k \in 1..Len(t) /\ t[k] \in S
  <2>1. \A k \in i..(last - 1) : k \in 1..Len(t)
    BY <1>1, <1>2
  <2> QED
    BY <1>1, <2>1, PeekIs
<1>4. ASSUME NEW j \in i..last PROVE j \in Ends(t, i, S)
  <2>1. j \in i..(Len(t) + 1) /\ \A k \in i..(j - 1) : k \in i..(last - 1)
    BY <1>1, <1>2
  <2> QED
    BY <1>3, <2>1 DEF Ends
<1>5. ASSUME NEW j \in Ends(t, i, S) PROVE j \in i..last
  <2>1. j \in i..(Len(t) + 1) /\ \A k \in i..(j - 1) : t[k] \in S
    BY DEF Ends
  <2>2. ASSUME last < j PROVE FALSE
    <3>1. last \in i..(j - 1) /\ last \in 1..Len(t)
      BY <1>1, <1>2, <2>1, <2>2
    <3> QED
      BY <1>1, <2>1, <3>1, PeekIs
  <2> QED
    BY <1>1, <1>2, <2>1, <2>2
<1>6. Ends(t, i, S) = i..last
  BY <1>4, <1>5
<1>7. ASSUME NEW j \in i..last PROVE Skip(t, j, S) = last
  <2>1. j \in 1..(Len(t) + 1) /\ last \in j..(Len(t) + 1)
    BY <1>1, <1>2
  <2>2. \A k \in j..(last - 1) : t[k] \in S
    BY <1>2, <1>3
  <2>3. StopsAt(t, j, S, last)
    BY <1>1, <2>1, <2>2 DEF StopsAt
  <2> QED
    BY <2>1, <2>3, SkipIs
<1>8. ASSUME NEW j \in i..last, Peek(t, j) \notin S PROVE j = last
  <2>1. j \notin i..(last - 1)
    BY <1>2, <1>3, <1>8, PeekIs
  <2> QED
    BY <1>1, <1>2, <2>1
<1> QED
  BY <1>1, <1>6, <1>7, <1>8 DEF last

\* A word may end anywhere behind its first character.
LEMMA WordsAre ==
    ASSUME NEW t \in Seq(Characters), NEW i \in 1..(Len(t) + 1), NEW S, End \notin S, KeyStarts \subseteq S
    PROVE  /\ WordEnds(t, i, S) # {} => Peek(t, i) \in KeyStarts
           /\ Peek(t, i) \in KeyStarts =>
                 /\ i \in 1..Len(t) /\ Skip(t, i, S) \in (i + 1)..(Len(t) + 1)
                 /\ WordEnds(t, i, S) = (i + 1)..Skip(t, i, S)
           /\ \A j \in WordEnds(t, i, S) : Peek(t, j) \notin S => j = Skip(t, i, S)
<1>1. CASE Peek(t, i) \notin KeyStarts
  BY <1>1 DEF WordEnds
<1>2. CASE Peek(t, i) \in KeyStarts
  <2> DEFINE last == Skip(t, i, S)
  <2>1. last \in i..(Len(t) + 1) /\ Peek(t, last) \notin S /\ Ends(t, i, S) = i..last
    BY EndsAre
  <2>2. last # i
    BY <1>2, <2>1
  <2>3. i \in 1..Len(t)
    BY <1>2, PeekIs
  <2>4. WordEnds(t, i, S) = (i..last) \ {i}
    BY <1>2, <2>1 DEF WordEnds
  <2>5. \A j \in Ends(t, i, S) : Peek(t, j) \notin S => j = last
    BY EndsAre
  <2>6. \A j \in WordEnds(t, i, S) : Peek(t, j) \notin S => j = last
    BY <2>1, <2>4, <2>5
  <2> HIDE DEF last
  <2>7. last \in (i + 1)..(Len(t) + 1)
    BY <2>1, <2>2
  <2>8. (i..last) \ {i} = (i + 1)..last
    BY <2>7
  <2> QED
    BY <1>2, <2>3, <2>4, <2>6, <2>7, <2>8 DEF last
<1> QED
  BY <1>1, <1>2

\* parse_key() reads the longest word there is.
LEMMA KeyIs ==
    ASSUME NEW t \in Seq(Characters), NEW i \in 1..(Len(t) + 1)
    PROVE  /\ KeyEnd(t, i) # 0 => KeyEnd(t, i) \in WordEnds(t, i, KeyCharacters)
           /\ \A k \in WordEnds(t, i, KeyCharacters) :
                 /\ k \in (i + 1)..(Len(t) + 1)
                 /\ Peek(t, k) \notin KeyCharacters => KeyEnd(t, i) = k
<1> DEFINE last == Skip(t, i, KeyCharacters)
<1>1. End \notin KeyCharacters /\ KeyStarts \subseteq KeyCharacters
  BY Alphabet
<1>2. CASE Peek(t, i) \notin KeyStarts
  BY <1>1, <1>2, WordsAre DEF KeyEnd
<1>3. CASE Peek(t, i) \in KeyStarts
  <2>1. KeyEnd(t, i) = last
    BY <1>3 DEF KeyEnd
  <2>2. last \in (i + 1)..(Len(t) + 1) /\ WordEnds(t, i, KeyCharacters) = (i + 1)..last
    BY <1>1, <1>3, WordsAre
  <2>3. \A k \in WordEnds(t, i, KeyCharacters) : Peek(t, k) \notin KeyCharacters => k = last
    BY <1>1, WordsAre
  <2> HIDE DEF last
  <2> QED
    BY <2>1, <2>2, <2>3
<1> QED
  BY <1>2, <1>3

-----------------------------------------------------------------------------
(* Strings *)

\* Without() at k, when f is what it is behind
WithoutAt(t, E, k, j, f) == IF k = j THEN <<>> ELSE (IF k \in E THEN <<>> ELSE <<t[k]>>) \o f[k + 1]

\* It is a text, when f has one behind k.
LEMMA WithoutTyped ==
    ASSUME NEW t \in Seq(Characters), NEW E, NEW j \in 1..(Len(t) + 1), NEW k \in 1..j, NEW f,
           k < j => f[k + 1] \in Seq(Characters)
    PROVE  WithoutAt(t, E, k, j, f) \in Seq(Characters)
<1>1. CASE k = j
  BY <1>1 DEF WithoutAt
<1>2. CASE k < j
  <2>1. t[k] \in Characters
    BY <1>2
  <2>2. (IF k \in E THEN <<>> ELSE <<t[k]>>) \in Seq(Characters)
    BY <2>1
  <2>3. (IF k \in E THEN <<>> ELSE <<t[k]>>) \o f[k + 1] \in Seq(Characters)
    BY <1>2, <2>2
  <2> QED
    BY <1>2, <2>3 DEF WithoutAt
<1> QED
  BY <1>1, <1>2

\* Without() satisfies its equation.
LEMMA WithoutEquation ==
    ASSUME NEW t \in Seq(Characters), NEW E, NEW j \in 1..(Len(t) + 1)
    PROVE  /\ Without(t, E, j, j) = <<>>
           /\ \A k \in 1..j : Without(t, E, k, j) \in Seq(Characters)
           /\ \A k \in 1..(j - 1) :
                 /\ k \in E => Without(t, E, k, j) = Without(t, E, k + 1, j)
                 /\ k \notin E => Without(t, E, k, j) = <<t[k]>> \o Without(t, E, k + 1, j)
<1> DEFINE D == 1..j
           V == Seq(Characters)
           Equation(f) == f = [k \in D |-> WithoutAt(t, E, k, j, f)]
           G == [k \in D |-> [f \in [D -> V] |-> WithoutAt(t, E, k, j, f)]]
           F == CHOOSE f : Equation(f)
<1>1. ASSUME NEW k PROVE Without(t, E, k, j) = F[k]
  BY DEF Without, WithoutAt
<1>2. 1 \in Nat /\ j \in Nat /\ 1 <= j /\ V # {}
  OBVIOUS
<1>3. ASSUME NEW k \in D, NEW f \in [D -> V] PROVE G[k][f] \in V
  <2>1. k < j => f[k + 1] \in V
    OBVIOUS
  <2>2. WithoutAt(t, E, k, j, f) \in V
    BY <2>1, WithoutTyped
  <2> QED
    BY <2>2
<1>4. ASSUME NEW k \in D, NEW f \in [D -> V], NEW g \in [D -> V], \A m \in (k + 1)..j : f[m] = g[m]
      PROVE  G[k][f] = G[k][g]
  <2>1. G[k][f] = WithoutAt(t, E, k, j, f) /\ G[k][g] = WithoutAt(t, E, k, j, g)
    OBVIOUS
  <2>2. k # j => f[k + 1] = g[k + 1]
    BY <1>4
  <2> QED
    BY <2>1, <2>2 DEF WithoutAt
<1>5. \E f \in [D -> V] : \A k \in D : f[k] = G[k][f]
  <2> HIDE DEF G
  <2>1. \A k \in D : \A f \in [D -> V] : G[k][f] \in V
    BY <1>3
  <2>2. \A k \in D : \A f, g \in [D -> V] :
           (\A m \in (k + 1)..j : f[m] = g[m]) => G[k][f] = G[k][g]
    BY <1>4
  <2>3. LooksAhead(G, 1, j, V)
    BY <1>2, <2>1, <2>2 DEF LooksAhead
  <2> HIDE DEF V
  <2>4. ASSUME NEW last, LooksAhead(G, 1, last, V)
        PROVE  \E f \in [1..last -> V] : \A k \in 1..last : f[k] = G[k][f]
    BY <2>4, Recursion
  <2> QED
    BY <2>3, <2>4
<1>6. \E f : Equation(f)
  <2>1. PICK f \in [D -> V] : \A k \in D : f[k] = G[k][f]
    BY <1>5
  <2>2. \A k \in D : f[k] = WithoutAt(t, E, k, j, f)
    BY <2>1
  <2>3. f = [k \in D |-> f[k]]
    OBVIOUS
  <2>4. f = [k \in D |-> WithoutAt(t, E, k, j, f)]
    BY <2>2, <2>3
  <2> QED
    BY <2>4
<1>7. Equation(F)
  <2> HIDE DEF Equation
  <2> QED
    BY <1>6
<1> HIDE DEF F
<1>8. \A k \in D : F[k] = WithoutAt(t, E, k, j, F)
  BY <1>7
<1>9. \A k \in D : F[k] \in V
  <2> DEFINE S == {k \in D : F[k] \in V}
  <2>1. ASSUME NEW k \in D, \A m \in (k + 1)..j : m \in S PROVE k \in S
    <3>1. k < j => F[k + 1] \in V
      BY <2>1
    <3> QED
      BY <1>8, <3>1, WithoutTyped
  <2> HIDE DEF S
  <2>2. \A k \in D : k \in S
    BY <1>2, <2>1, Downwards
  <2> QED
    BY <2>2 DEF S
<1>10. F[j] = <<>>
  <2>1. F[j] = WithoutAt(t, E, j, j, F)
    BY <1>2, <1>8
  <2> QED
    BY <2>1 DEF WithoutAt
<1>11. ASSUME NEW k \in 1..(j - 1)
       PROVE  /\ k \in E => F[k] = F[k + 1]
              /\ k \notin E => F[k] = <<t[k]>> \o F[k + 1]
  <2>1. k \in D /\ k # j /\ F[k + 1] \in V
    BY <1>9
  <2>2. F[k] = (IF k \in E THEN <<>> ELSE <<t[k]>>) \o F[k + 1]
    BY <1>8, <2>1 DEF WithoutAt
  <2>3. <<>> \o F[k + 1] = F[k + 1]
    BY <2>1
  <2> QED
    BY <2>2, <2>3
<1> HIDE DEF D, V
<1>12. \A k \in 1..j : Without(t, E, k, j) \in V
  BY <1>1, <1>9 DEF D
<1>13. Without(t, E, j, j) = <<>>
  BY <1>1, <1>10
<1>14. ASSUME NEW k \in 1..(j - 1)
       PROVE  /\ k \in E => Without(t, E, k, j) = Without(t, E, k + 1, j)
              /\ k \notin E => Without(t, E, k, j) = <<t[k]>> \o Without(t, E, k + 1, j)
  <2>1. Without(t, E, k, j) = F[k] /\ Without(t, E, k + 1, j) = F[k + 1]
    BY <1>1
  <2> QED
    BY <1>11, <2>1
<1> QED
  BY <1>12, <1>13, <1>14 DEF V

\* Only the positions from i to before j count.
LEMMA WithoutLocal ==
    ASSUME NEW t \in Seq(Characters), NEW E, NEW H, NEW j \in 1..(Len(t) + 1), NEW i \in 1..j,
           \A k \in i..(j - 1) : k \in E <=> k \in H
    PROVE  Without(t, E, i, j) = Without(t, H, i, j)
<1> DEFINE S == {k \in i..j : Without(t, E, k, j) = Without(t, H, k, j)}
<1>1. ASSUME NEW k \in i..j, \A m \in (k + 1)..j : m \in S PROVE k \in S
  <2>1. CASE k = j
    BY <2>1, WithoutEquation
  <2>2. CASE k < j
    <3>1. k \in 1..(j - 1) /\ k \in i..(j - 1) /\ k + 1 \in (k + 1)..j
      BY <2>2
    <3>2. Without(t, E, k + 1, j) = Without(t, H, k + 1, j)
      BY <1>1, <3>1
    <3>3. k \in E <=> k \in H
      BY <3>1
    <3>4. /\ k \in E => Without(t, E, k, j) = Without(t, E, k + 1, j)
          /\ k \notin E => Without(t, E, k, j) = <<t[k]>> \o Without(t, E, k + 1, j)
      BY <3>1, WithoutEquation
    <3>5. /\ k \in H => Without(t, H, k, j) = Without(t, H, k + 1, j)
          /\ k \notin H => Without(t, H, k, j) = <<t[k]>> \o Without(t, H, k + 1, j)
      BY <3>1, WithoutEquation
    <3> QED
      BY <3>2, <3>3, <3>4, <3>5
  <2> QED
    BY <2>1, <2>2
<1>2. i \in Nat /\ j \in Nat /\ i \in i..j
  OBVIOUS
<1> HIDE DEF S
<1>3. \A k \in i..j : k \in S
  BY <1>1, <1>2, Downwards
<1> QED
  BY <1>2, <1>3 DEF S

\* The characters that must be escaped
Marks == {Quote, Backslash}

\* E has the escapes of t from i to before j, where it does not end with one.
Escapes(t, E, i, j) ==
    /\ i - 1 \notin E
    /\ \A k \in i..(j - 1) :
          /\ k \in E => k + 1 \in i..(j - 1) /\ k + 1 \notin E /\ t[k] = Backslash /\ t[k + 1] \in Marks
          /\ k \notin E /\ t[k] \in Marks => k - 1 \in E

\* The choices of the grammar are those.
LEMMA EscapingsAre ==
    ASSUME NEW t, NEW i \in Nat, NEW j \in Nat, NEW E
    PROVE  E \in Escapings(t, i, j) <=> E \subseteq i..(j - 1) /\ Escapes(t, E, i, j)
<1>1. ASSUME E \in Escapings(t, i, j) PROVE E \subseteq i..(j - 1) /\ Escapes(t, E, i, j)
  <2>1. /\ E \subseteq {k \in i..(j - 1) : t[k] = Backslash}
        /\ \A k \in i..(j - 1) :
              IF k \in E THEN k + 1 \in (i..(j - 1)) \ E /\ t[k + 1] \in {Quote, Backslash}
              ELSE t[k] \in {Quote, Backslash} => k - 1 \in E
    BY <1>1 DEF Escapings
  <2>2. i - 1 \notin E
    BY <2>1
  <2> QED
    BY <2>1, <2>2 DEF Escapes, Marks
<1>2. ASSUME E \subseteq i..(j - 1), Escapes(t, E, i, j) PROVE E \in Escapings(t, i, j)
  <2>1. E \subseteq {k \in i..(j - 1) : t[k] = Backslash}
    BY <1>2 DEF Escapes
  <2>2. \A k \in i..(j - 1) :
           IF k \in E THEN k + 1 \in (i..(j - 1)) \ E /\ t[k + 1] \in {Quote, Backslash}
           ELSE t[k] \in {Quote, Backslash} => k - 1 \in E
    BY <1>2 DEF Escapes, Marks
  <2> QED
    BY <2>1, <2>2 DEF Escapings
<1> QED
  BY <1>1, <1>2

\* From the front: an escape and what it escapes, or a character that needs none
LEMMA EscapesStep ==
    ASSUME NEW t, NEW E, NEW i \in Nat \ {0}, NEW j \in Nat, i < j, Escapes(t, E, i, j)
    PROVE  IF i \in E
           THEN /\ t[i] = Backslash /\ t[i + 1] \in Marks /\ i + 1 < j /\ i + 1 \notin E
                /\ Escapes(t, E, i + 2, j)
           ELSE t[i] \notin Marks /\ Escapes(t, E, i + 1, j)
<1>1. /\ i - 1 \notin E
      /\ \A k \in i..(j - 1) :
            /\ k \in E => k + 1 \in i..(j - 1) /\ k + 1 \notin E /\ t[k] = Backslash /\ t[k + 1] \in Marks
            /\ k \notin E /\ t[k] \in Marks => k - 1 \in E
  BY DEF Escapes
<1>2. i \in i..(j - 1)
  OBVIOUS
<1>3. CASE i \in E
  <2>1. i + 1 \in i..(j - 1) /\ i + 1 \notin E /\ t[i] = Backslash /\ t[i + 1] \in Marks
    BY <1>1, <1>2, <1>3
  <2>2. (i + 2) - 1 \notin E
    BY <2>1
  <2>3. ASSUME NEW k \in (i + 2)..(j - 1)
        PROVE  /\ k \in E => /\ k + 1 \in (i + 2)..(j - 1) /\ k + 1 \notin E
                             /\ t[k] = Backslash /\ t[k + 1] \in Marks
               /\ k \notin E /\ t[k] \in Marks => k - 1 \in E
    <3>1. k \in i..(j - 1)
      OBVIOUS
    <3>2. k \in E => k + 1 \in i..(j - 1)
      BY <1>1, <3>1
    <3>3. k + 1 \in i..(j - 1) => k + 1 \in (i + 2)..(j - 1)
      OBVIOUS
    <3> QED
      BY <1>1, <3>1, <3>2, <3>3
  <2>4. Escapes(t, E, i + 2, j)
    BY <2>2, <2>3 DEF Escapes
  <2> QED
    BY <1>3, <2>1, <2>4
<1>4. CASE i \notin E
  <2>1. t[i] \notin Marks
    BY <1>1, <1>2, <1>4
  <2>2. (i + 1) - 1 \notin E
    BY <1>4
  <2>3. ASSUME NEW k \in (i + 1)..(j - 1)
        PROVE  /\ k \in E => /\ k + 1 \in (i + 1)..(j - 1) /\ k + 1 \notin E
                             /\ t[k] = Backslash /\ t[k + 1] \in Marks
               /\ k \notin E /\ t[k] \in Marks => k - 1 \in E
    <3>1. k \in i..(j - 1)
      OBVIOUS
    <3>2. k \in E => k + 1 \in i..(j - 1)
      BY <1>1, <3>1
    <3>3. k + 1 \in i..(j - 1) => k + 1 \in (i + 1)..(j - 1)
      OBVIOUS
    <3> QED
      BY <1>1, <3>1, <3>2, <3>3
  <2>4. Escapes(t, E, i + 1, j)
    BY <2>2, <2>3 DEF Escapes
  <2> QED
    BY <1>4, <2>1, <2>4
<1> QED
  BY <1>3, <1>4

\* And back to the front
LEMMA EscapesBefore ==
    ASSUME NEW t, NEW i \in Nat \ {0}, NEW j \in Nat, NEW E \in SUBSET Nat
    PROVE  /\ t[i] \notin Marks /\ E \subseteq (i + 1)..(j - 1) /\ Escapes(t, E, i + 1, j)
              => Escapes(t, E, i, j)
           /\ /\ t[i] = Backslash /\ t[i + 1] \in Marks /\ i + 2 <= j
              /\ E \subseteq (i + 2)..(j - 1) /\ Escapes(t, E, i + 2, j)
              => Escapes(t, E \cup {i}, i, j)
<1>1. ASSUME t[i] \notin Marks, E \subseteq (i + 1)..(j - 1), Escapes(t, E, i + 1, j)
      PROVE  Escapes(t, E, i, j)
  <2>1. i - 1 \notin E /\ i \notin E
    BY <1>1
  <2>2. ASSUME NEW k \in i..(j - 1)
        PROVE  /\ k \in E => /\ k + 1 \in i..(j - 1) /\ k + 1 \notin E
                             /\ t[k] = Backslash /\ t[k + 1] \in Marks
               /\ k \notin E /\ t[k] \in Marks => k - 1 \in E
    <3>1. CASE k = i
      BY <1>1, <2>1, <3>1
    <3>2. CASE k # i
      <4>1. k \in (i + 1)..(j - 1)
        BY <3>2
      <4>2. /\ k \in E => /\ k + 1 \in (i + 1)..(j - 1) /\ k + 1 \notin E
                          /\ t[k] = Backslash /\ t[k + 1] \in Marks
            /\ k \notin E /\ t[k] \in Marks => k - 1 \in E
        BY <1>1, <4>1 DEF Escapes
      <4>3. k + 1 \in (i + 1)..(j - 1) => k + 1 \in i..(j - 1)
        OBVIOUS
      <4> QED
        BY <4>2, <4>3
    <3> QED
      BY <3>1, <3>2
  <2> QED
    BY <2>1, <2>2 DEF Escapes
<1>2. ASSUME t[i] = Backslash, t[i + 1] \in Marks, i + 2 <= j,
             E \subseteq (i + 2)..(j - 1), Escapes(t, E, i + 2, j)
      PROVE  Escapes(t, E \cup {i}, i, j)
  <2> DEFINE H == E \cup {i}
  <2>1. i - 1 \notin H /\ i \in H /\ i + 1 \notin H /\ i + 1 \in i..(j - 1)
    BY <1>2
  <2>2. ASSUME NEW k \in i..(j - 1)
        PROVE  /\ k \in H => /\ k + 1 \in i..(j - 1) /\ k + 1 \notin H
                             /\ t[k] = Backslash /\ t[k + 1] \in Marks
               /\ k \notin H /\ t[k] \in Marks => k - 1 \in H
    <3>1. CASE k = i
      BY <1>2, <2>1, <3>1
    <3>2. CASE k = i + 1
      <4>1. k - 1 = i
        BY <3>2
      <4> QED
        BY <2>1, <3>2, <4>1
    <3>3. CASE k # i /\ k # i + 1
      <4>1. k \in (i + 2)..(j - 1) /\ k + 1 # i
        BY <3>3
      <4>2. /\ k \in E => /\ k + 1 \in (i + 2)..(j - 1) /\ k + 1 \notin E
                          /\ t[k] = Backslash /\ t[k + 1] \in Marks
            /\ k \notin E /\ t[k] \in Marks => k - 1 \in E
        BY <1>2, <4>1 DEF Escapes
      <4>3. k + 1 \in (i + 2)..(j - 1) => k + 1 \in i..(j - 1)
        OBVIOUS
      <4> QED
        BY <3>3, <4>1, <4>2, <4>3
    <3> QED
      BY <3>1, <3>2, <3>3
  <2> HIDE DEF H
  <2>3. Escapes(t, H, i, j)
    BY <2>1, <2>2 DEF Escapes
  <2> QED
    BY <2>3 DEF H
<1> QED
  BY <1>1, <1>2

\* What _parse_string() makes of one character
LEMMA StringStep ==
    ASSUME NEW t \in Seq(Characters), NEW j \in 1..Len(t), NEW f
    PROVE  /\ t[j] = Quote => StringAt(t, j, f) = Read("string", <<>>, j + 1)
           /\ t[j] \notin Marks =>
                 StringAt(t, j, f) = Read("string", <<t[j]>> \o f[j + 1].value.text, f[j + 1].next)
           /\ t[j] = Backslash =>
                 StringAt(t, j, f) =
                    IF j < Len(t) /\ t[j + 1] \in Marks
                    THEN Read("string", <<t[j + 1]>> \o f[j + 2].value.text, f[j + 2].next)
                    ELSE Unreadable
<1>1. Quote # Backslash
  BY DEF Quote, Backslash
<1>2. Peek(t, j) = t[j] /\ t[j] # End
  BY PeekIs, Alphabet
<1>3. CASE t[j] = Quote
  BY <1>1, <1>3, StringSteps DEF Marks
<1>4. CASE t[j] \notin Marks
  BY <1>4, StringSteps DEF Marks
<1>5. CASE t[j] = Backslash
  <2> DEFINE c == Peek(t, j + 1)
             goesOn == c # End /\ c \in Marks
  <2>1. ~(c = Quote /\ ~TRUE)
    OBVIOUS
  <2>2. StringAt(t, j, f) = IF goesOn THEN Read("string", <<c>> \o f[j + 2].value.text, f[j + 2].next)
                            ELSE Unreadable
    <3> HIDE DEF c
    <3> QED
      BY <1>2, <1>5 DEF StringAt, Marks, c
  <2>3. CASE j < Len(t)
    <3>1. c = t[j + 1] /\ c # End
      BY <2>3, PeekIs, Alphabet
    <3> QED
      BY <1>1, <1>5, <2>2, <2>3, <3>1 DEF Marks
  <2>4. CASE ~(j < Len(t))
    <3>1. c = End
      BY <2>4, PeekIs
    <3> QED
      BY <1>1, <1>5, <2>2, <2>4, <3>1 DEF Marks
  <2> QED
    BY <2>3, <2>4
<1> QED
  BY <1>3, <1>4, <1>5 DEF Marks

\* What has been read of a string has escapes that make it one.
LEMMA StringSound ==
    ASSUME NEW t \in Seq(Characters), NEW i \in 1..(Len(t) + 1), String(t, i).next # 0
    PROVE  String(t, i) \in Strings(t, i)
<1> DEFINE D == 1..(Len(t) + 1)
           Spelled(read, j) ==
              \E e \in j..Len(t) : \E E \in SUBSET (j..(e - 1)) :
                 t[e] = Quote /\ Escapes(t, E, j, e) /\ read = Read("string", Without(t, E, j, e), e + 1)
<1>1. PICK F : /\ \A j : String(t, j) = F[j]
               /\ \A j \in D : F[j] \in Readouts /\ F[j] = StringAt(t, j, F)
  BY StringEquation
<1> DEFINE S == {j \in D : F[j].next = 0 \/ Spelled(F[j], j)}
<1>2. \A s, next : Read("string", s, next).next = next /\ Read("string", s, next).value.text = s
  BY DEF Read
<1>3. ASSUME NEW j \in D, \A k \in (j + 1)..(Len(t) + 1) : k \in S, F[j].next # 0
      PROVE  Spelled(F[j], j)
  <2>1. F[j] = StringAt(t, j, F) /\ Unreadable.next = 0
    BY <1>1, ReadTyped
  <2>2. j \in 1..Len(t)
    <3>1. F[j] # Unreadable
      BY <1>3, <2>1
    <3>2. j <= Len(t) \/ j + 1 <= Len(t)
      BY <2>1, <3>1, StringCases
    <3> QED
      BY <3>2
  <2>3. \A k \in (j + 1)..(Len(t) + 1) : F[k].next # 0 => Spelled(F[k], k)
    BY <1>3
  <2> HIDE DEF S
  <2>4. CASE t[j] = Quote
    <3>1. F[j] = Read("string", <<>>, j + 1)
      BY <2>1, <2>2, <2>4, StringStep
    <3>2. Without(t, {}, j, j) = <<>> /\ Escapes(t, {}, j, j) /\ j \in j..Len(t)
      BY <2>2, WithoutEquation DEF Escapes
    <3>3. {} \in SUBSET (j..(j - 1))
      OBVIOUS
    <3> QED
      BY <2>4, <3>1, <3>2, <3>3
  <2>5. CASE t[j] \notin Marks
    <3>1. F[j] = Read("string", <<t[j]>> \o F[j + 1].value.text, F[j + 1].next)
      BY <2>1, <2>2, <2>5, StringStep
    <3>2. F[j + 1].next # 0
      BY <1>2, <1>3, <3>1
    <3>3. PICK e \in (j + 1)..Len(t) : \E E \in SUBSET ((j + 1)..(e - 1)) :
             /\ t[e] = Quote /\ Escapes(t, E, j + 1, e)
             /\ F[j + 1] = Read("string", Without(t, E, j + 1, e), e + 1)
      BY <2>2, <2>3, <3>2
    <3>4. PICK E \in SUBSET ((j + 1)..(e - 1)) :
             /\ t[e] = Quote /\ Escapes(t, E, j + 1, e)
             /\ F[j + 1] = Read("string", Without(t, E, j + 1, e), e + 1)
      BY <3>3
    <3>5. j \in 1..(e - 1) /\ j \notin E /\ e \in 1..(Len(t) + 1) /\ e \in j..Len(t)
      BY <2>2
    <3>6. Without(t, E, j, e) = <<t[j]>> \o Without(t, E, j + 1, e)
      BY <3>5, WithoutEquation
    <3>7. E \in SUBSET (j..(e - 1)) /\ E \in SUBSET Nat
      BY <2>2
    <3>8. Escapes(t, E, j, e)
      <4>1. j \in Nat \ {0} /\ e \in Nat /\ E \subseteq (j + 1)..(e - 1)
        BY <2>2
      <4> QED
        BY <2>5, <3>4, <3>7, <4>1, EscapesBefore
    <3>9. F[j] = Read("string", Without(t, E, j, e), e + 1)
      BY <1>2, <3>1, <3>4, <3>6
    <3> QED
      BY <3>4, <3>5, <3>7, <3>8, <3>9
  <2>6. CASE t[j] = Backslash
    <3>1. /\ j < Len(t) /\ t[j + 1] \in Marks
          /\ F[j] = Read("string", <<t[j + 1]>> \o F[j + 2].value.text, F[j + 2].next)
      BY <1>3, <2>1, <2>2, <2>6, StringStep
    <3>2. F[j + 2].next # 0 /\ j + 2 \in (j + 1)..(Len(t) + 1)
      BY <1>2, <1>3, <2>2, <3>1
    <3>3. PICK e \in (j + 2)..Len(t) : \E E \in SUBSET ((j + 2)..(e - 1)) :
             /\ t[e] = Quote /\ Escapes(t, E, j + 2, e)
             /\ F[j + 2] = Read("string", Without(t, E, j + 2, e), e + 1)
      BY <2>3, <3>2
    <3>4. PICK E \in SUBSET ((j + 2)..(e - 1)) :
             /\ t[e] = Quote /\ Escapes(t, E, j + 2, e)
             /\ F[j + 2] = Read("string", Without(t, E, j + 2, e), e + 1)
      BY <3>3
    <3> DEFINE H == E \cup {j}
    <3>5. /\ j \in 1..(e - 1) /\ j + 1 \in 1..(e - 1) /\ j \in H /\ j + 1 \notin H
          /\ e \in 1..(Len(t) + 1) /\ e \in j..Len(t) /\ j + 2 \in 1..e
          /\ (j + 1) + 1 = j + 2
      BY <2>2
    <3>6. \A k \in (j + 2)..(e - 1) : k \in H <=> k \in E
      BY <2>2
    <3>7. H \in SUBSET (j..(e - 1)) /\ E \in SUBSET Nat
      BY <2>2
    <3>8. Escapes(t, H, j, e)
      <4>1. j \in Nat \ {0} /\ e \in Nat /\ E \subseteq (j + 2)..(e - 1) /\ j + 2 <= e
        BY <2>2
      <4> QED
        BY <2>6, <3>1, <3>4, <3>7, <4>1, EscapesBefore
    <3> HIDE DEF H
    <3>9. Without(t, H, j, e) = <<t[j + 1]>> \o Without(t, E, j + 2, e)
      <4>1. Without(t, H, j, e) = Without(t, H, j + 1, e)
        BY <3>5, WithoutEquation
      <4>2. Without(t, H, j + 1, e) = <<t[j + 1]>> \o Without(t, H, (j + 1) + 1, e)
        BY <3>5, WithoutEquation
      <4>3. Without(t, H, j + 2, e) = Without(t, E, j + 2, e)
        BY <3>5, <3>6, WithoutLocal
      <4> QED
        BY <3>5, <4>1, <4>2, <4>3
    <3>10. F[j] = Read("string", Without(t, H, j, e), e + 1)
      BY <1>2, <3>1, <3>4, <3>9
    <3> QED
      BY <3>4, <3>5, <3>7, <3>8, <3>10
  <2> QED
    BY <2>4, <2>5, <2>6 DEF Marks
<1>4. Len(t) + 1 \in Nat /\ 1 \in Nat
  OBVIOUS
<1>5. ASSUME NEW j \in D, \A k \in (j + 1)..(Len(t) + 1) : k \in S PROVE j \in S
  <2> HIDE DEF Spelled
  <2> QED
    BY <1>3, <1>5
<1> HIDE DEF S, Spelled
<1>6. \A j \in D : j \in S
  BY <1>4, <1>5, Downwards
<1>7. Spelled(String(t, i), i)
  BY <1>1, <1>6 DEF S
<1>8. PICK e \in i..Len(t) : \E E \in SUBSET (i..(e - 1)) :
         /\ t[e] = Quote /\ Escapes(t, E, i, e) /\ String(t, i) = Read("string", Without(t, E, i, e), e + 1)
  BY <1>7 DEF Spelled
<1>9. PICK E \in SUBSET (i..(e - 1)) :
         /\ t[e] = Quote /\ Escapes(t, E, i, e) /\ String(t, i) = Read("string", Without(t, E, i, e), e + 1)
  BY <1>8
<1>10. E \in Escapings(t, i, e)
  <2>1. i \in Nat /\ e \in Nat /\ E \subseteq i..(e - 1)
    OBVIOUS
  <2> QED
    BY <1>9, <2>1, EscapingsAre
<1> QED
  BY <1>9, <1>10 DEF Strings

\* And no other string is there.
LEMMA StringComplete ==
    ASSUME NEW t \in Seq(Characters), NEW i \in 1..(Len(t) + 1), NEW item \in Strings(t, i)
    PROVE  String(t, i) = item
<1> DEFINE D == 1..(Len(t) + 1)
<1>1. PICK F : /\ \A j : String(t, j) = F[j]
               /\ \A j \in D : F[j] \in Readouts /\ F[j] = StringAt(t, j, F)
  BY StringEquation
<1>2. PICK e \in i..Len(t) : t[e] = Quote /\ \E E \in Escapings(t, i, e) :
                                item = Read("string", Without(t, E, i, e), e + 1)
  BY DEF Strings
<1>3. PICK E \in Escapings(t, i, e) : item = Read("string", Without(t, E, i, e), e + 1)
  BY <1>2
<1>4. Escapes(t, E, i, e)
  <2>1. i \in Nat /\ e \in Nat
    OBVIOUS
  <2> QED
    BY <2>1, EscapingsAre
<1> DEFINE S == {j \in i..e : Escapes(t, E, j, e) => F[j] = Read("string", Without(t, E, j, e), e + 1)}
<1>5. \A s, next : Read("string", s, next).next = next /\ Read("string", s, next).value.text = s
  BY DEF Read
<1>6. ASSUME NEW j \in i..e, \A k \in (j + 1)..e : k \in S, Escapes(t, E, j, e)
      PROVE  F[j] = Read("string", Without(t, E, j, e), e + 1)
  <2>1. F[j] = StringAt(t, j, F) /\ j \in 1..Len(t) /\ e \in 1..(Len(t) + 1) /\ e \in Nat /\ j \in Nat \ {0}
    BY <1>1
  <2>2. \A k \in (j + 1)..e : Escapes(t, E, k, e) => F[k] = Read("string", Without(t, E, k, e), e + 1)
    BY <1>6
  <2> HIDE DEF S
  <2>3. CASE j = e
    <3>1. Without(t, E, j, e) = <<>>
      BY <2>1, <2>3, WithoutEquation
    <3> QED
      BY <1>2, <2>1, <2>3, <3>1, StringStep
  <2>4. CASE j < e /\ j \in E
    <3>1. t[j] = Backslash /\ t[j + 1] \in Marks /\ j + 1 < e /\ j + 1 \notin E /\ Escapes(t, E, j + 2, e)
      BY <1>6, <2>1, <2>4, EscapesStep
    <3>2. /\ j \in 1..(e - 1) /\ j + 1 \in 1..(e - 1) /\ j + 2 \in (j + 1)..e /\ (j + 1) + 1 = j + 2
          /\ j < Len(t)
      BY <2>1, <3>1
    <3>3. F[j + 2] = Read("string", Without(t, E, j + 2, e), e + 1)
      BY <2>2, <3>1, <3>2
    <3>4. F[j] = Read("string", <<t[j + 1]>> \o F[j + 2].value.text, F[j + 2].next)
      BY <2>1, <3>1, <3>2, StringStep
    <3>5. Without(t, E, j, e) = <<t[j + 1]>> \o Without(t, E, j + 2, e)
      <4>1. Without(t, E, j, e) = Without(t, E, j + 1, e)
        BY <2>1, <2>4, <3>2, WithoutEquation
      <4>2. Without(t, E, j + 1, e) = <<t[j + 1]>> \o Without(t, E, (j + 1) + 1, e)
        BY <2>1, <3>1, <3>2, WithoutEquation
      <4> QED
        BY <3>2, <4>1, <4>2
    <3> QED
      BY <1>5, <3>3, <3>4, <3>5
  <2>5. CASE j < e /\ j \notin E
    <3>1. t[j] \notin Marks /\ Escapes(t, E, j + 1, e)
      BY <1>6, <2>1, <2>5, EscapesStep
    <3>2. j \in 1..(e - 1) /\ j + 1 \in (j + 1)..e
      BY <2>1, <2>5
    <3>3. F[j + 1] = Read("string", Without(t, E, j + 1, e), e + 1)
      BY <2>2, <3>1, <3>2
    <3>4. F[j] = Read("string", <<t[j]>> \o F[j + 1].value.text, F[j + 1].next)
      BY <2>1, <3>1, StringStep
    <3>5. Without(t, E, j, e) = <<t[j]>> \o Without(t, E, j + 1, e)
      BY <2>1, <2>5, <3>2, WithoutEquation
    <3> QED
      BY <1>5, <3>3, <3>4, <3>5
  <2> QED
    BY <2>1, <2>3, <2>4, <2>5
<1>7. i \in Nat /\ e \in Nat /\ i \in i..e
  OBVIOUS
<1>8. ASSUME NEW j \in i..e, \A k \in (j + 1)..e : k \in S PROVE j \in S
  BY <1>6, <1>8
<1> HIDE DEF S
<1>9. \A j \in i..e : j \in S
  BY <1>7, <1>8, Downwards
<1>10. F[i] = Read("string", Without(t, E, i, e), e + 1)
  BY <1>4, <1>7, <1>9 DEF S
<1> QED
  BY <1>1, <1>3, <1>10

-----------------------------------------------------------------------------
(* Numbers *)

\* What may follow an item
Follow == Blanks \cup {Semicolon, Comma, End}

\* Nothing that a key, a token or a number goes on with can follow an item.
LEMMA FollowIs ==
    /\ Follow \cap TokenCharacters = {} /\ Follow \cap KeyCharacters = {} /\ Follow \cap Digits = {}
    /\ "." \notin Follow /\ "=" \notin Follow /\ "." \notin Digits /\ "-" \notin Digits
    /\ {Semicolon, Comma, End} \cap Blanks = {} /\ Semicolon # Comma /\ Semicolon # End /\ Comma # End
BY StructuredFieldsAssumption
DEF Follow, Blanks, Blank, Semicolon, Comma, End, KeyCharacters, TokenCharacters, Characters,
    Alphanumerics, Digits, Syntax, TokenMarks

\* The decimals are digits, and what int() and float() refuse among the digits is no decimal.
LEMMA DecimalsAre ==
    /\ Decimals \subseteq Digits /\ Decimals = Digits \ Superscripts
    /\ End \notin Digits /\ "-" \notin Digits /\ "." \notin Digits
    /\ Decimals \cap (Superscripts \cup {"."}) = {} /\ {"-", "."} \cap Superscripts = {}
BY StructuredFieldsAssumption
DEF Characters, Alphanumerics, Digits, Syntax, End

\* Decimals may end anywhere behind the first, up to where there is none; where no digit
\* follows them, that is where the parser stops.
LEMMA DigitsAre ==
    ASSUME NEW t \in Seq(Characters), NEW i \in 1..(Len(t) + 1)
    PROVE  /\ Skip(t, i, Digits) \in i..(Len(t) + 1) /\ Peek(t, Skip(t, i, Digits)) \notin Digits
           /\ \A k \in i..(Skip(t, i, Digits) - 1) : t[k] \in Digits
           /\ \A j : j \in DigitEnds(t, i) <=>
                        j \in (i + 1)..(Len(t) + 1) /\ \A k \in i..(j - 1) : t[k] \in Decimals
           /\ \A j \in DigitEnds(t, i) :
                 j <= Skip(t, i, Digits) /\ (Peek(t, j) \notin Digits => j = Skip(t, i, Digits))
<1> DEFINE last == Skip(t, i, Digits)
<1>1. /\ last \in i..(Len(t) + 1) /\ Peek(t, last) \notin Digits
      /\ \A k \in i..(last - 1) : Peek(t, k) \in Digits
  BY DecimalsAre, SkipStops
<1> HIDE DEF last
<1>2. \A k \in i..(last - 1) : t[k] \in Digits
  <2>1. \A k \in i..(last - 1) : k \in 1..Len(t)
    BY <1>1
  <2> QED
    BY <1>1, <2>1, PeekIs
<1>3. ASSUME NEW j
      PROVE  j \in DigitEnds(t, i) <=>
                j \in (i + 1)..(Len(t) + 1) /\ \A k \in i..(j - 1) : t[k] \in Decimals
  BY DEF DigitEnds, Ends
<1>4. ASSUME NEW j \in DigitEnds(t, i)
      PROVE  j <= last /\ (Peek(t, j) \notin Digits => j = last)
  <2>1. j \in (i + 1)..(Len(t) + 1) /\ \A k \in i..(j - 1) : t[k] \in Digits
    BY <1>3, DecimalsAre
  <2>2. ASSUME j > last PROVE FALSE
    <3>1. last \in i..(j - 1) /\ last \in 1..Len(t)
      BY <1>1, <2>1, <2>2
    <3> QED
      BY <1>1, <2>1, <3>1, PeekIs
  <2>3. ASSUME j < last PROVE Peek(t, j) \in Digits
    <3>1. j \in i..(last - 1) /\ j \in 1..Len(t)
      BY <1>1, <2>1, <2>3
    <3> QED
      BY <1>1, <3>1, PeekIs
  <2> QED
    BY <1>1, <2>1, <2>2, <2>3
<1> QED
  BY <1>1, <1>2, <1>3, <1>4 DEF last

\* What int() and float() take, said of the text it is in
LEMMA ConvertsIs ==
    ASSUME NEW t \in Seq(Characters), NEW i \in 1..Len(t), NEW j \in (i + 1)..(Len(t) + 1), NEW first,
           first = IF Peek(t, i) = "-" THEN i + 1 ELSE i
    PROVE  Converts(SubSeq(t, i, j - 1)) <=>
              /\ \A k \in i..(j - 1) : t[k] \notin Superscripts
              /\ (\A k \in i..(j - 1) : t[k] # ".") => j - first <= LongestInteger
<1> DEFINE number == SubSeq(t, i, j - 1)
           long == IF number[1] = "-" THEN Len(number) - 1 ELSE Len(number)
<1>1. i \in Nat \ {0} /\ j \in Int /\ Len(t) \in Nat /\ i <= Len(t) /\ i + 1 <= j /\ j <= Len(t) + 1
  OBVIOUS
<1>2. \A k \in i..(j - 1) : t[k] \in Characters
  BY <1>1
<1>3. Len(number) = j - i /\ \A m \in 1..(j - i) : number[m] = t[i + m - 1]
  BY <1>1, <1>2, SubSeqProperties
<1>4. number \in Seq(Characters)
  BY <1>1, PartOf
<1>5. DOMAIN number = 1..(j - i)
  BY <1>3, <1>4
<1>6. number[1] = t[i] /\ Peek(t, i) = t[i]
  BY <1>1, <1>3, PeekIs
<1> HIDE DEF number
<1>7. long = j - first
  BY <1>1, <1>3, <1>6
<1>8. Converts(number) <=> /\ \A m \in DOMAIN number : number[m] \notin Superscripts
                           /\ (\A m \in DOMAIN number : number[m] # ".") => long <= LongestInteger
  BY DEF Converts
<1> HIDE DEF long
<1>9. ASSUME NEW S
      PROVE  (\A m \in DOMAIN number : number[m] \notin S) <=> \A k \in i..(j - 1) : t[k] \notin S
  <2>1. ASSUME \A m \in 1..(j - i) : number[m] \notin S, NEW k \in i..(j - 1) PROVE t[k] \notin S
    <3>1. k - i + 1 \in 1..(j - i) /\ i + (k - i + 1) - 1 = k
      BY <1>1
    <3> QED
      BY <1>3, <2>1, <3>1
  <2>2. ASSUME \A k \in i..(j - 1) : t[k] \notin S, NEW m \in 1..(j - i) PROVE number[m] \notin S
    <3>1. i + m - 1 \in i..(j - 1)
      BY <1>1
    <3> QED
      BY <1>3, <2>2, <3>1
  <2> QED
    BY <1>5, <2>1, <2>2
<1>10. (\A m \in DOMAIN number : number[m] # ".") <=> \A k \in i..(j - 1) : t[k] # "."
  BY <1>9, \A c : c # "." <=> c \notin {"."}
<1> QED
  BY <1>7, <1>8, <1>9, <1>10 DEF number

\* _parse_number() reads as many digits as there are, and int() and float() take what it read
\* just when the grammar has such a number.
LEMMA NumberIs ==
    ASSUME NEW t \in Seq(Characters), NEW i \in 1..(Len(t) + 1)
    PROVE  /\ i \in 1..Len(t) /\ NumberEnd(t, i) # 0 /\ Converts(SubSeq(t, i, NumberEnd(t, i) - 1)) =>
                 NumberEnd(t, i) \in NumberEnds(t, i)
           /\ \A j \in NumberEnds(t, i) :
                 /\ j \in (i + 1)..(Len(t) + 1) /\ Peek(t, i) \in Digits \cup {"-"}
                 /\ Peek(t, j) \notin Digits \cup {"."} =>
                       NumberEnd(t, i) = j /\ Converts(SubSeq(t, i, j - 1))
<1> DEFINE digits == IF Peek(t, i) = "-" THEN i + 1 ELSE i
           point == Skip(t, digits, Digits)
           end == Skip(t, point + 1, Digits)
           ends == DigitEnds(t, digits)
           few == {j \in ends : j - digits <= LongestInteger}
           whole == point > digits /\ Peek(t, point) # "."
           broken == point > digits /\ Peek(t, point) = "." /\ end > point + 1
           Taken(j) == Converts(SubSeq(t, i, j - 1))
<1>1. NumberEnd(t, i) = CASE whole -> point [] broken -> end [] OTHER -> 0
  BY DEF NumberEnd
<1>2. ~(whole /\ broken)
  OBVIOUS
<1>3. /\ whole => NumberEnd(t, i) = point
      /\ broken => NumberEnd(t, i) = end
      /\ ~whole /\ ~broken => NumberEnd(t, i) = 0
  <2> HIDE DEF whole, broken, point, end
  <2> QED
    BY <1>1, <1>2
<1>4. NumberEnds(t, i) = few \cup UNION {DigitEnds(t, k + 1) : k \in {k \in ends : Peek(t, k) = "."}}
  BY DEF NumberEnds
<1>5. /\ digits \in 1..(Len(t) + 1) /\ digits >= i /\ digits <= i + 1
      /\ i \in 1..Len(t) => \A k \in i..(digits - 1) : t[k] = "-"
  <2>1. CASE Peek(t, i) = "-"
    <3>1. Peek(t, i) # End
      BY <2>1 DEF End
    <3>2. i \in 1..Len(t) /\ t[i] = "-"
      BY <2>1, <3>1, PeekIs
    <3> QED
      BY <2>1, <3>2
  <2>2. CASE Peek(t, i) # "-"
    BY <2>2
  <2> QED
    BY <2>1, <2>2
<1>6. ASSUME ends # {} PROVE i \in 1..Len(t) /\ Peek(t, i) \in Digits \cup {"-"}
  <2>1. PICK j \in ends : TRUE
    BY <1>6
  <2>2. j \in (digits + 1)..(Len(t) + 1) /\ \A k \in digits..(j - 1) : t[k] \in Decimals
    BY <1>5, DigitsAre
  <2>3. i \in 1..Len(t) /\ t[digits] \in Digits
    BY <1>5, <2>2, DecimalsAre
  <2> QED
    BY <2>3, PeekIs
<1>7. ASSUME i \in 1..Len(t), NEW j \in (i + 1)..(Len(t) + 1)
      PROVE  Taken(j) <=> /\ \A k \in i..(j - 1) : t[k] \notin Superscripts
                          /\ (\A k \in i..(j - 1) : t[k] # ".") => j - digits <= LongestInteger
  BY <1>7, ConvertsIs
<1> HIDE DEF digits, Taken
<1>8. /\ point \in digits..(Len(t) + 1) /\ Peek(t, point) \notin Digits
      /\ \A k \in digits..(point - 1) : t[k] \in Digits
      /\ \A j : j \in ends <=>
                   j \in (digits + 1)..(Len(t) + 1) /\ \A k \in digits..(j - 1) : t[k] \in Decimals
      /\ \A j \in ends : Peek(t, j) \notin Digits => j = point
  BY <1>5, DigitsAre
<1> HIDE DEF ends, point
<1>9. ASSUME Peek(t, point) = "."
      PROVE  /\ point \in 1..Len(t) /\ t[point] = "."
             /\ end \in (point + 1)..(Len(t) + 1)
             /\ \A k \in (point + 1)..(end - 1) : t[k] \in Digits
             /\ \A j : j \in DigitEnds(t, point + 1) <=>
                          j \in (point + 2)..(Len(t) + 1) /\ \A k \in (point + 1)..(j - 1) : t[k] \in Decimals
             /\ \A j \in DigitEnds(t, point + 1) : Peek(t, j) \notin Digits => j = end
  <2>1. point \in 1..Len(t) /\ t[point] = "."
    <3>1. Peek(t, point) # End /\ point \in 1..(Len(t) + 1)
      BY <1>5, <1>8, <1>9 DEF End
    <3> QED
      BY <1>9, <3>1, PeekIs
  <2>2. point + 1 \in 1..(Len(t) + 1) /\ (point + 1) + 1 = point + 2
    BY <2>1
  <2> QED
    BY <2>1, <2>2, DigitsAre
<1> HIDE DEF end
<1>10. ASSUME i \in 1..Len(t), NumberEnd(t, i) # 0, Taken(NumberEnd(t, i))
       PROVE  NumberEnd(t, i) \in NumberEnds(t, i)
  <2>1. CASE whole
    <3>1. point \in (i + 1)..(Len(t) + 1) /\ Taken(point)
      BY <1>3, <1>5, <1>8, <1>10, <2>1
    <3>2. \A k \in i..(point - 1) : t[k] \notin Superscripts
      BY <1>7, <1>10, <3>1
    <3>3. \A k \in digits..(point - 1) : t[k] \in Decimals
      BY <1>5, <1>8, <3>1, <3>2, DecimalsAre
    <3>4. \A k \in i..(point - 1) : t[k] # "."
      BY <1>5, <1>8, <1>10, DecimalsAre
    <3>5. point - digits <= LongestInteger
      BY <1>7, <1>10, <3>1, <3>4
    <3>6. point \in (digits + 1)..(Len(t) + 1)
      BY <1>5, <1>8, <2>1
    <3> QED
      BY <1>3, <1>4, <1>8, <2>1, <3>3, <3>5, <3>6
  <2>2. CASE broken
    <3>1. /\ Peek(t, point) = "." /\ point > digits /\ end > point + 1
          /\ point \in digits..(Len(t) + 1) /\ end \in (point + 1)..(Len(t) + 1)
      BY <1>8, <1>9, <2>2
    <3>2. end \in (i + 1)..(Len(t) + 1) /\ Taken(end)
      BY <1>3, <1>5, <1>10, <2>2, <3>1
    <3>3. \A k \in i..(end - 1) : t[k] \notin Superscripts
      BY <1>7, <1>10, <3>2
    <3>4. \A k \in digits..(point - 1) : t[k] \in Decimals
      BY <1>5, <1>8, <3>1, <3>3, DecimalsAre
    <3>5. \A k \in (point + 1)..(end - 1) : t[k] \in Decimals
      BY <1>5, <1>9, <3>1, <3>3, DecimalsAre
    <3>6. point \in ends
      BY <1>5, <1>8, <3>1, <3>4
    <3>7. end \in DigitEnds(t, point + 1)
      BY <1>9, <3>1, <3>5
    <3> QED
      BY <1>3, <1>4, <2>2, <3>1, <3>6, <3>7
  <2> QED
    BY <1>3, <1>10, <2>1, <2>2
<1>11. ASSUME NEW j \in NumberEnds(t, i)
       PROVE  /\ j \in (i + 1)..(Len(t) + 1) /\ Peek(t, i) \in Digits \cup {"-"}
              /\ Peek(t, j) \notin Digits \cup {"."} => NumberEnd(t, i) = j /\ Taken(j)
  <2>1. CASE j \in few
    <3>1. j \in ends /\ j - digits <= LongestInteger
      BY <2>1
    <3>2. j \in (digits + 1)..(Len(t) + 1) /\ \A k \in digits..(j - 1) : t[k] \in Decimals
      BY <1>8, <3>1
    <3>3. i \in 1..Len(t) /\ Peek(t, i) \in Digits \cup {"-"}
      BY <1>6, <3>1
    <3>4. j \in (i + 1)..(Len(t) + 1)
      BY <1>5, <3>2
    <3>5. \A k \in i..(j - 1) : t[k] \notin Superscripts
      BY <1>5, <3>2, <3>3, <3>4, DecimalsAre
    <3>6. Taken(j)
      BY <1>7, <3>1, <3>3, <3>4, <3>5
    <3>7. ASSUME Peek(t, j) \notin Digits \cup {"."} PROVE NumberEnd(t, i) = j
      <4>1. j = point
        BY <1>8, <3>1, <3>7
      <4>2. whole
        BY <1>5, <3>2, <3>7, <4>1
      <4> QED
        BY <1>3, <4>1, <4>2
    <3> QED
      BY <3>3, <3>4, <3>6, <3>7
  <2>2. CASE \E k \in ends : Peek(t, k) = "." /\ j \in DigitEnds(t, k + 1)
    <3>1. PICK k \in ends : Peek(t, k) = "." /\ j \in DigitEnds(t, k + 1)
      BY <2>2
    <3>2. k = point
      BY <1>8, <3>1, DecimalsAre
    <3>3. /\ point \in (digits + 1)..(Len(t) + 1) /\ \A m \in digits..(point - 1) : t[m] \in Decimals
          /\ j \in (point + 2)..(Len(t) + 1) /\ \A m \in (point + 1)..(j - 1) : t[m] \in Decimals
          /\ point \in 1..Len(t) /\ t[point] = "."
      BY <1>8, <1>9, <3>1, <3>2
    <3>4. j \in (i + 1)..(Len(t) + 1)
      BY <1>5, <3>3
    <3>5. i \in 1..Len(t) /\ Peek(t, i) \in Digits \cup {"-"}
      BY <1>6, <3>1
    <3>6. ASSUME NEW m \in i..(j - 1) PROVE t[m] \notin Superscripts
      <4>1. m \in i..(digits - 1) \/ m \in digits..(point - 1) \/ m = point \/ m \in (point + 1)..(j - 1)
        BY <1>5, <3>3, <3>4
      <4>2. t[m] \in Decimals \cup {"-", "."}
        BY <1>5, <3>3, <3>5, <4>1
      <4> QED
        BY <4>2, DecimalsAre
    <3>7. Taken(j)
      <4>1. point \in i..(j - 1)
        BY <1>5, <3>3
      <4> QED
        BY <1>7, <3>3, <3>4, <3>5, <3>6, <4>1
    <3>8. ASSUME Peek(t, j) \notin Digits \cup {"."} PROVE NumberEnd(t, i) = j
      <4>1. j = end
        BY <1>9, <3>1, <3>2, <3>8
      <4>2. broken
        BY <1>5, <3>1, <3>2, <3>3, <4>1
      <4> QED
        BY <1>3, <4>1, <4>2
    <3> QED
      BY <3>4, <3>5, <3>7, <3>8
  <2>3. j \in few \/ \E k \in ends : Peek(t, k) = "." /\ j \in DigitEnds(t, k + 1)
    BY <1>4
  <2> QED
    BY <2>1, <2>2, <2>3
<1> QED
  BY <1>10, <1>11 DEF Taken

-----------------------------------------------------------------------------
(* Items *)

\* Where bytes end: at the first colon
LEMMA BytesAre ==
    ASSUME NEW t \in Seq(Characters), NEW i \in 1..(Len(t) + 1)
    PROVE  /\ Skip(t, i, Characters \ {":"}) \in i..(Len(t) + 1)
           /\ \A j : j \in BytesEnds(t, i) <=>
                        /\ j = Skip(t, i, Characters \ {":"}) /\ j <= Len(t)
                        /\ Decodes(SubSeq(t, i, j - 1))
<1> DEFINE S == Characters \ {":"}
           colon == Skip(t, i, S)
<1>1. End \notin S
  BY Alphabet
<1>2. /\ colon \in i..(Len(t) + 1) /\ Peek(t, colon) \notin S /\ Ends(t, i, S) = i..colon
      /\ \A j \in Ends(t, i, S) : Peek(t, j) \notin S => j = colon
  BY <1>1, EndsAre
<1>3. ASSUME NEW j \in BytesEnds(t, i) PROVE j = colon /\ j <= Len(t) /\ Decodes(SubSeq(t, i, j - 1))
  <2>1. j \in Ends(t, i, S) /\ Peek(t, j) = ":" /\ Decodes(SubSeq(t, i, j - 1))
    BY DEF BytesEnds
  <2>2. Peek(t, j) # End
    BY <2>1 DEF End
  <2>3. j = colon
    BY <1>2, <2>1
  <2> HIDE DEF colon
  <2>4. j \in 1..(Len(t) + 1)
    BY <1>2, <2>3
  <2>5. j \in 1..Len(t)
    BY <2>2, <2>4, PeekIs
  <2> QED
    BY <2>1, <2>3, <2>5 DEF colon
<1>4. ASSUME colon <= Len(t), Decodes(SubSeq(t, i, colon - 1)) PROVE colon \in BytesEnds(t, i)
  <2>1. Peek(t, colon) \notin S /\ colon \in i..colon
    BY <1>2
  <2>2. colon \in 1..Len(t)
    <3> HIDE DEF colon
    <3> QED
      BY <1>2, <1>4
  <2>3. Peek(t, colon) = ":"
    BY <2>1, <2>2, PeekIs
  <2> QED
    BY <1>2, <1>4, <2>1, <2>3 DEF BytesEnds
<1> QED
  BY <1>2, <1>3, <1>4

\* The ways to read an item, by its first character
LEMMA ItemsAre ==
    ASSUME NEW t, NEW i, NEW item
    PROVE  item \in Items(t, i) <=>
              \/ Peek(t, i) = Quote /\ item \in Strings(t, i + 1)
              \/ /\ Peek(t, i) = "?" /\ Peek(t, i + 1) \in {"0", "1"}
                 /\ item = Read("boolean", <<t[i + 1]>>, i + 2)
              \/ /\ Peek(t, i) = ":"
                 /\ \E j \in BytesEnds(t, i + 1) : item = Read("bytes", SubSeq(t, i + 1, j - 1), j + 1)
              \/ \E j \in NumberEnds(t, i) : item = Read("number", SubSeq(t, i, j - 1), j)
              \/ \E j \in WordEnds(t, i, TokenCharacters) : item = Read("token", SubSeq(t, i, j - 1), j)
BY DEF Items

\* parse_item() reads one of the items that are there,
LEMMA ItemSound ==
    ASSUME NEW t \in Seq(Characters), NEW i \in 1..(Len(t) + 1), Item(t, i).next # 0
    PROVE  Item(t, i) \in Items(t, i)
<1> DEFINE c == Peek(t, i)
           colon == Skip(t, i + 1, Characters \ {":"})
           token == Skip(t, i, TokenCharacters)
<1>1. Item(t, i) # Unreadable
  BY ReadTyped
<1>2. c # End => i \in 1..Len(t) /\ i + 1 \in 1..(Len(t) + 1)
  BY PeekIs
<1>3. CASE c = Quote
  <2>1. i + 1 \in 1..(Len(t) + 1)
    BY <1>2, <1>3, FirstCharacters
  <2>2. Item(t, i) = String(t, i + 1)
    BY <1>3, ItemIs
  <2>3. String(t, i + 1) \in Strings(t, i + 1)
    BY <2>1, <2>2, StringSound
  <2> QED
    BY <1>3, <2>2, <2>3, ItemsAre
<1>4. CASE c = "?"
  <2>1. Item(t, i) = IF Peek(t, i + 1) \in {"0", "1"}
                     THEN Read("boolean", <<t[i + 1]>>, i + 2) ELSE Unreadable
    BY <1>4, ItemIs
  <2> QED
    BY <1>1, <1>4, <2>1, ItemsAre
<1>5. CASE c = ":"
  <2>1. i + 1 \in 1..(Len(t) + 1)
    BY <1>2, <1>5, FirstCharacters
  <2>2. Item(t, i) = IF colon <= Len(t) /\ Decodes(SubSeq(t, i + 1, colon - 1))
                     THEN Read("bytes", SubSeq(t, i + 1, colon - 1), colon + 1) ELSE Unreadable
    BY <1>5, ItemIs
  <2>3. colon <= Len(t) /\ Decodes(SubSeq(t, i + 1, colon - 1))
    BY <1>1, <2>2
  <2>4. colon \in BytesEnds(t, i + 1)
    BY <2>1, <2>3, BytesAre
  <2> HIDE DEF colon
  <2> QED
    BY <1>5, <2>2, <2>3, <2>4, ItemsAre
<1>6. CASE c \in Digits \cup {"-"}
  <2>1. i \in 1..Len(t)
    BY <1>2, <1>6, FirstCharacters
  <2>2. Item(t, i) = IF NumberEnd(t, i) # 0 /\ Converts(SubSeq(t, i, NumberEnd(t, i) - 1))
                     THEN Read("number", SubSeq(t, i, NumberEnd(t, i) - 1), NumberEnd(t, i))
                     ELSE Unreadable
    BY <1>6, ItemIs
  <2>3. NumberEnd(t, i) # 0 /\ Converts(SubSeq(t, i, NumberEnd(t, i) - 1))
    BY <1>1, <2>2
  <2>4. NumberEnd(t, i) \in NumberEnds(t, i)
    BY <2>1, <2>3, NumberIs
  <2> QED
    BY <2>2, <2>3, <2>4, ItemsAre
<1>7. CASE c \in KeyStarts
  <2>1. Item(t, i) = Read("token", SubSeq(t, i, token - 1), token)
    BY <1>7, ItemIs
  <2>2. token \in WordEnds(t, i, TokenCharacters)
    <3>1. End \notin TokenCharacters /\ KeyStarts \subseteq TokenCharacters
      BY Alphabet
    <3>2. token \in (i + 1)..(Len(t) + 1) /\ WordEnds(t, i, TokenCharacters) = (i + 1)..token
      BY <1>7, <3>1, WordsAre
    <3> HIDE DEF token
    <3> QED
      BY <3>2
  <2> QED
    BY <2>1, <2>2, ItemsAre
<1>8. CASE c \notin {Quote, "?", ":"} \cup Digits \cup {"-"} \cup KeyStarts
  BY <1>1, <1>8, ItemIs
<1> QED
  BY <1>3, <1>4, <1>5, <1>6, <1>7, <1>8

\* and the only one behind which anything can follow.
LEMMA ItemComplete ==
    ASSUME NEW t \in Seq(Characters), NEW i \in 1..(Len(t) + 1), NEW item \in Items(t, i)
    PROVE  /\ item \in Readouts /\ item.next \in (i + 1)..(Len(t) + 1)
           /\ Peek(t, item.next) \in Follow => Item(t, i) = item
<1> DEFINE c == Peek(t, i)
           colon == Skip(t, i + 1, Characters \ {":"})
           token == Skip(t, i, TokenCharacters)
<1>1. c # End => i \in 1..Len(t) /\ i + 1 \in 1..(Len(t) + 1)
  BY PeekIs
<1>2. \A kind \in {"string", "boolean", "bytes", "number", "token"} :
         \A s \in Seq(Characters) : \A next \in (i + 1)..(Len(t) + 1) :
            Read(kind, s, next) \in Readouts /\ Read(kind, s, next).next = next
  <2>1. {"string", "boolean", "bytes", "number", "token"} \subseteq Kinds /\ (i + 1)..(Len(t) + 1) \subseteq Nat
    BY DEF Kinds
  <2> QED
    BY <2>1, ReadTyped
<1>3. i \in Nat \ {0} /\ Len(t) \in Nat
  OBVIOUS
<1>4. CASE c = Quote /\ item \in Strings(t, i + 1)
  <2>1. i + 1 \in 1..(Len(t) + 1)
    BY <1>1, <1>4, FirstCharacters
  <2>2. String(t, i + 1) = item
    BY <1>4, <2>1, StringComplete
  <2>3. Item(t, i) = item
    BY <1>4, <2>2, ItemIs
  <2>4. \E j \in (i + 1)..Len(t) : item.next = j + 1
    BY <1>4 DEF Strings, Read
  <2>5. item \in Readouts
    BY <2>1, <2>2, StringAdvances
  <2>6. item.next \in (i + 1)..(Len(t) + 1)
    BY <2>4
  <2> QED
    BY <2>3, <2>5, <2>6
<1>5. CASE /\ c = "?" /\ Peek(t, i + 1) \in {"0", "1"}
           /\ item = Read("boolean", <<t[i + 1]>>, i + 2)
  <2>1. Peek(t, i + 1) # End
    BY <1>5 DEF End
  <2>2. i + 1 \in 1..Len(t)
    BY <1>3, <2>1, PeekIs
  <2>3. <<t[i + 1]>> \in Seq(Characters) /\ i + 2 \in (i + 1)..(Len(t) + 1)
    BY <1>3, <2>2
  <2>4. Item(t, i) = item
    BY <1>5, ItemIs
  <2>5. Read("boolean", <<t[i + 1]>>, i + 2) \in Readouts /\ Read("boolean", <<t[i + 1]>>, i + 2).next = i + 2
    BY <1>2, <2>3
  <2> QED
    BY <1>5, <2>3, <2>4, <2>5
<1>6. CASE c = ":" /\ \E j \in BytesEnds(t, i + 1) : item = Read("bytes", SubSeq(t, i + 1, j - 1), j + 1)
  <2>1. PICK j \in BytesEnds(t, i + 1) : item = Read("bytes", SubSeq(t, i + 1, j - 1), j + 1)
    BY <1>6
  <2>2. i + 1 \in 1..(Len(t) + 1)
    BY <1>1, <1>6, FirstCharacters
  <2>3. j = colon /\ colon <= Len(t) /\ Decodes(SubSeq(t, i + 1, colon - 1)) /\ colon \in (i + 1)..(Len(t) + 1)
    BY <2>2, BytesAre
  <2>4. Item(t, i) = item
    BY <1>6, <2>1, <2>3, ItemIs
  <2> HIDE DEF colon
  <2>5. SubSeq(t, i + 1, j - 1) \in Seq(Characters)
    BY <1>3, <2>3, PartOf
  <2>6. j + 1 \in (i + 1)..(Len(t) + 1)
    BY <1>3, <2>3
  <2> DEFINE s == SubSeq(t, i + 1, j - 1)
  <2>7. Read("bytes", s, j + 1) \in Readouts /\ Read("bytes", s, j + 1).next = j + 1
    <3> HIDE DEF s
    <3> QED
      BY <1>2, <2>5, <2>6 DEF s
  <2> QED
    BY <2>1, <2>4, <2>6, <2>7
<1>7. CASE \E j \in NumberEnds(t, i) : item = Read("number", SubSeq(t, i, j - 1), j)
  <2>1. PICK j \in NumberEnds(t, i) : item = Read("number", SubSeq(t, i, j - 1), j)
    BY <1>7
  <2>2. /\ j \in (i + 1)..(Len(t) + 1) /\ c \in Digits \cup {"-"}
        /\ Peek(t, j) \notin Digits \cup {"."} =>
              NumberEnd(t, i) = j /\ Converts(SubSeq(t, i, j - 1))
    BY NumberIs
  <2>3. Item(t, i) = IF NumberEnd(t, i) # 0 /\ Converts(SubSeq(t, i, NumberEnd(t, i) - 1))
                     THEN Read("number", SubSeq(t, i, NumberEnd(t, i) - 1), NumberEnd(t, i))
                     ELSE Unreadable
    BY <2>2, ItemIs
  <2>4. ASSUME Peek(t, j) \in Follow PROVE Item(t, i) = item
    <3>1. NumberEnd(t, i) = j /\ Converts(SubSeq(t, i, j - 1))
      BY <2>2, <2>4, FollowIs
    <3>2. j # 0
      BY <2>2
    <3> QED
      BY <2>1, <2>3, <3>1, <3>2
  <2>5. SubSeq(t, i, j - 1) \in Seq(Characters)
    BY <1>3, <2>2, PartOf
  <2> QED
    BY <1>2, <2>1, <2>2, <2>4, <2>5
<1>8. CASE \E j \in WordEnds(t, i, TokenCharacters) : item = Read("token", SubSeq(t, i, j - 1), j)
  <2>1. PICK j \in WordEnds(t, i, TokenCharacters) : item = Read("token", SubSeq(t, i, j - 1), j)
    BY <1>8
  <2>2. End \notin TokenCharacters /\ KeyStarts \subseteq TokenCharacters
    BY Alphabet
  <2>3. WordEnds(t, i, TokenCharacters) # {}
    OBVIOUS
  <2>4. c \in KeyStarts /\ token \in (i + 1)..(Len(t) + 1) /\ WordEnds(t, i, TokenCharacters) = (i + 1)..token
    BY <2>2, <2>3, WordsAre
  <2>5. Peek(t, j) \notin TokenCharacters => j = token
    BY <2>2, WordsAre
  <2>6. Item(t, i) = Read("token", SubSeq(t, i, token - 1), token)
    BY <2>4, ItemIs
  <2> HIDE DEF token
  <2>7. j \in (i + 1)..(Len(t) + 1)
    BY <2>4
  <2>8. SubSeq(t, i, j - 1) \in Seq(Characters)
    BY <1>3, <2>7, PartOf
  <2>9. ASSUME Peek(t, j) \in Follow PROVE Item(t, i) = item
    BY <2>1, <2>5, <2>6, <2>9, FollowIs
  <2> QED
    BY <1>2, <2>1, <2>7, <2>8, <2>9
<1>9. \/ c = Quote /\ item \in Strings(t, i + 1)
      \/ /\ c = "?" /\ Peek(t, i + 1) \in {"0", "1"}
         /\ item = Read("boolean", <<t[i + 1]>>, i + 2)
      \/ c = ":" /\ \E j \in BytesEnds(t, i + 1) : item = Read("bytes", SubSeq(t, i + 1, j - 1), j + 1)
      \/ \E j \in NumberEnds(t, i) : item = Read("number", SubSeq(t, i, j - 1), j)
      \/ \E j \in WordEnds(t, i, TokenCharacters) : item = Read("token", SubSeq(t, i, j - 1), j)
  BY ItemsAre
<1> QED
  BY <1>4, <1>5, <1>6, <1>7, <1>8, <1>9

-----------------------------------------------------------------------------
(* Assignments *)

\* What may follow an assignment or a parameter, behind the blanks
Separators == {Semicolon, Comma, End}

\* A separator is no blank, and belongs neither to a key nor between a key and its item.
LEMMA SeparatorsAre ==
    /\ Follow = Blanks \cup Separators /\ Separators \cap Blanks = {} /\ "=" \notin Separators
    /\ "=" \notin KeyCharacters \cup Blanks /\ KeyStarts \cap (Blanks \cup Separators) = {}
    /\ KeyStarts \subseteq KeyCharacters /\ End \notin Blanks
BY FollowIs, Delimiters, Alphabet DEF Follow, Separators

\* Where blanks are skipped there is one, or what is behind them.
LEMMA BlankOrStays ==
    ASSUME NEW t \in Seq(Characters), NEW i \in 1..(Len(t) + 1)
    PROVE  Peek(t, i) \in Blanks \/ Skip(t, i, Blanks) = i
<1>1. End \notin Blanks
  BY SeparatorsAre
<1>2. /\ Skip(t, i, Blanks) \in i..(Len(t) + 1) /\ Ends(t, i, Blanks) = i..Skip(t, i, Blanks)
      /\ \A j \in Ends(t, i, Blanks) : Peek(t, j) \notin Blanks => j = Skip(t, i, Blanks)
  BY <1>1, EndsAre
<1> QED
  BY <1>2

\* The ways to read an assignment: where the key ends, and where the blanks behind it do
LEMMA AssignmentsAre ==
    ASSUME NEW t, NEW i, NEW a
    PROVE  a \in Assignments(t, i) <=>
              \E k \in WordEnds(t, i, KeyCharacters) : \E e \in Ends(t, k, Blanks) :
                 \/ a = Assigned(SubSeq(t, i, k - 1), [next |-> e, value |-> True])
                 \/ Peek(t, e) = "=" /\ \E item \in Items(t, e + 1) : a = Assigned(SubSeq(t, i, k - 1), item)
<1> DEFINE Alone(k) == {Assigned(SubSeq(t, i, k - 1), [next |-> e, value |-> True]) : e \in Ends(t, k, Blanks)}
           With(k, e) == {Assigned(SubSeq(t, i, k - 1), item) : item \in Items(t, e + 1)}
           Equals(k) == {e \in Ends(t, k, Blanks) : Peek(t, e) = "="}
           Words == WordEnds(t, i, KeyCharacters)
<1>1. Assignments(t, i) = UNION {Alone(k) \cup UNION {With(k, e) : e \in Equals(k)} : k \in Words}
  BY DEF Assignments
<1>2. \A k : a \in Alone(k) <=>
               \E e \in Ends(t, k, Blanks) : a = Assigned(SubSeq(t, i, k - 1), [next |-> e, value |-> True])
  OBVIOUS
<1>3. \A k, e : a \in With(k, e) <=> \E item \in Items(t, e + 1) : a = Assigned(SubSeq(t, i, k - 1), item)
  OBVIOUS
<1>4. \A k, e : e \in Equals(k) <=> e \in Ends(t, k, Blanks) /\ Peek(t, e) = "="
  OBVIOUS
<1> HIDE DEF Alone, With, Equals, Words
<1>5. a \in Assignments(t, i) <=>
         \E k \in Words : a \in Alone(k) \/ \E e \in Equals(k) : a \in With(k, e)
  BY <1>1
<1>6. ASSUME NEW k
      PROVE  a \in Alone(k) \/ (\E e \in Equals(k) : a \in With(k, e)) <=>
                \E e \in Ends(t, k, Blanks) :
                   \/ a = Assigned(SubSeq(t, i, k - 1), [next |-> e, value |-> True])
                   \/ Peek(t, e) = "=" /\ \E item \in Items(t, e + 1) : a = Assigned(SubSeq(t, i, k - 1), item)
  BY <1>2, <1>3, <1>4
<1> QED
  BY <1>5, <1>6 DEF Words

\* The parser reads one of the assignments that are there,
LEMMA AssignmentSound ==
    ASSUME NEW t \in Seq(Characters), NEW i \in 1..(Len(t) + 1), Assignment(t, i).next # 0
    PROVE  Assignment(t, i) \in Assignments(t, i)
<1> DEFINE key == KeyEnd(t, i)
           equals == Skip(t, key, Blanks)
<1>1. key # 0
  BY AssignmentCases
<1>2. key \in WordEnds(t, i, KeyCharacters) /\ key \in 1..(Len(t) + 1)
  <2>1. key \in WordEnds(t, i, KeyCharacters) /\ key \in (i + 1)..(Len(t) + 1)
    BY <1>1, KeyIs
  <2> HIDE DEF key
  <2> QED
    BY <2>1
<1>3. equals \in Ends(t, key, Blanks) /\ equals \in 1..(Len(t) + 1)
  <2> HIDE DEF key
  <2>1. equals \in key..(Len(t) + 1) /\ Ends(t, key, Blanks) = key..equals
    BY <1>2, SeparatorsAre, EndsAre
  <2> HIDE DEF equals
  <2> QED
    BY <1>2, <2>1
<1>4. CASE Peek(t, equals) # "="
  <2>1. Assignment(t, i) = Assigned(SubSeq(t, i, key - 1), [next |-> equals, value |-> True])
    BY <1>1, <1>4, AssignmentCases
  <2> HIDE DEF key, equals
  <2> QED
    BY <1>2, <1>3, <2>1, AssignmentsAre
<1>5. CASE Peek(t, equals) = "="
  <2>1. Assignment(t, i) = Assigned(SubSeq(t, i, key - 1), Item(t, equals + 1))
    BY <1>1, <1>5, AssignmentCases
  <2> HIDE DEF key, equals
  <2>2. Peek(t, equals) # End
    BY <1>5 DEF End
  <2>3. equals + 1 \in 1..(Len(t) + 1)
    BY <1>3, <2>2, PeekIs
  <2>4. Item(t, equals + 1).next # 0
    BY <2>1 DEF Assigned
  <2>5. Item(t, equals + 1) \in Items(t, equals + 1)
    BY <2>3, <2>4, ItemSound
  <2> QED
    BY <1>2, <1>3, <1>5, <2>1, <2>5, AssignmentsAre
<1> QED
  BY <1>4, <1>5

\* and the only one behind which anything can follow, with the blanks behind it or without.
LEMMA AssignmentComplete ==
    ASSUME NEW t \in Seq(Characters), NEW i \in 1..(Len(t) + 1), NEW a \in Assignments(t, i)
    PROVE  /\ a \in Pairs /\ a.next \in (i + 1)..(Len(t) + 1) /\ Peek(t, i) \in KeyStarts
           /\ Peek(t, Skip(t, a.next, Blanks)) \in Separators =>
                 /\ Assignment(t, i).key = a.key /\ Assignment(t, i).value = a.value
                 /\ Assignment(t, i).next \in {a.next, Skip(t, a.next, Blanks)}
<1> DEFINE s == Skip(t, a.next, Blanks)
<1>1. PICK k \in WordEnds(t, i, KeyCharacters) : \E e \in Ends(t, k, Blanks) :
         \/ a = Assigned(SubSeq(t, i, k - 1), [next |-> e, value |-> True])
         \/ Peek(t, e) = "=" /\ \E item \in Items(t, e + 1) : a = Assigned(SubSeq(t, i, k - 1), item)
  BY AssignmentsAre
<1>2. PICK e \in Ends(t, k, Blanks) :
         \/ a = Assigned(SubSeq(t, i, k - 1), [next |-> e, value |-> True])
         \/ Peek(t, e) = "=" /\ \E item \in Items(t, e + 1) : a = Assigned(SubSeq(t, i, k - 1), item)
  BY <1>1
<1>3. i \in Nat \ {0} /\ Len(t) \in Nat
  OBVIOUS
<1>4. k \in (i + 1)..(Len(t) + 1) /\ (Peek(t, k) \notin KeyCharacters => KeyEnd(t, i) = k)
  BY KeyIs
<1>5. Peek(t, i) \in KeyStarts
  <2>1. End \notin KeyCharacters /\ KeyStarts \subseteq KeyCharacters /\ WordEnds(t, i, KeyCharacters) # {}
    BY Alphabet
  <2> QED
    BY <2>1, WordsAre
<1>6. k \in 1..(Len(t) + 1) /\ k # 0
  BY <1>3, <1>4
<1>7. /\ Skip(t, k, Blanks) \in k..(Len(t) + 1) /\ Ends(t, k, Blanks) = k..Skip(t, k, Blanks)
      /\ Skip(t, e, Blanks) = Skip(t, k, Blanks)
      /\ Peek(t, e) \notin Blanks => e = Skip(t, k, Blanks)
  BY <1>6, SeparatorsAre, EndsAre
<1>8. e \in (i + 1)..(Len(t) + 1)
  <2> DEFINE last == Skip(t, k, Blanks)
  <2>1. last \in k..(Len(t) + 1) /\ e \in k..last
    BY <1>7
  <2> HIDE DEF last
  <2> QED
    BY <1>3, <1>4, <2>1
<1>9. SubSeq(t, i, k - 1) \in Seq(Characters)
  BY <1>3, <1>4, PartOf
<1>10. Peek(t, k) \in Blanks \/ Skip(t, k, Blanks) = k
  BY <1>6, BlankOrStays
<1>11. CASE a = Assigned(SubSeq(t, i, k - 1), [next |-> e, value |-> True])
  <2>1. a.next = e /\ a.key = SubSeq(t, i, k - 1) /\ a.value = True
    BY <1>11 DEF Assigned
  <2>2. a \in Pairs
    <3>1. True \in Values
      BY FirstCharacters DEF True, Values, Kinds
    <3>2. e \in Nat
      BY <1>8
    <3> QED
      BY <1>9, <1>11, <3>1, <3>2 DEF Pairs, Assigned
  <2>3. ASSUME Peek(t, s) \in Separators
        PROVE  Assignment(t, i).key = a.key /\ Assignment(t, i).value = a.value /\ Assignment(t, i).next = s
    <3>1. s = Skip(t, k, Blanks)
      BY <1>7, <2>1
    <3>2. Peek(t, k) \notin KeyCharacters
      BY <1>10, <2>3, <3>1, SeparatorsAre, FollowIs
    <3>3. KeyEnd(t, i) = k
      BY <1>4, <3>2
    <3>4. Peek(t, Skip(t, k, Blanks)) # "="
      BY <2>3, <3>1, SeparatorsAre
    <3>5. Assignment(t, i) = Assigned(SubSeq(t, i, k - 1), [next |-> Skip(t, k, Blanks), value |-> True])
      BY <1>6, <3>3, <3>4, AssignmentCases
    <3> HIDE DEF s
    <3>6. Assignment(t, i) = [key |-> SubSeq(t, i, k - 1), next |-> s, value |-> True]
      BY <3>1, <3>5 DEF Assigned
    <3> DEFINE key == SubSeq(t, i, k - 1)
               read == Assignment(t, i)
    <3>7. read = [key |-> key, next |-> s, value |-> True]
      BY <3>6
    <3>8. a.key = key /\ a.value = True
      BY <2>1
    <3> HIDE DEF key, read
    <3>9. read.key = a.key /\ read.value = a.value /\ read.next = s
      BY <3>7, <3>8
    <3> QED
      BY <3>9 DEF read
  <2> QED
    BY <1>5, <1>8, <2>1, <2>2, <2>3
<1>12. CASE Peek(t, e) = "=" /\ \E item \in Items(t, e + 1) : a = Assigned(SubSeq(t, i, k - 1), item)
  <2>1. PICK item \in Items(t, e + 1) : a = Assigned(SubSeq(t, i, k - 1), item)
    BY <1>12
  <2>2. a.next = item.next /\ a.key = SubSeq(t, i, k - 1) /\ a.value = item.value
    BY <2>1 DEF Assigned
  <2>3. e + 1 \in 1..(Len(t) + 1) /\ e + 1 \in Nat /\ e + 1 > i
    <3>1. Peek(t, e) # End
      BY <1>12 DEF End
    <3>2. e \in 1..(Len(t) + 1)
      BY <1>3, <1>8
    <3>3. e \in 1..Len(t)
      BY <3>1, <3>2, PeekIs
    <3> QED
      BY <1>8, <3>3
  <2>4. /\ item \in Readouts /\ item.next \in (e + 1 + 1)..(Len(t) + 1)
        /\ Peek(t, item.next) \in Follow => Item(t, e + 1) = item
    BY <2>3, ItemComplete
  <2>5. a \in Pairs
    BY <1>9, <2>1, <2>4 DEF Pairs, Assigned, Readouts
  <2>6. a.next \in (i + 1)..(Len(t) + 1) /\ a.next \in 1..(Len(t) + 1)
    BY <1>3, <2>2, <2>3, <2>4
  <2>7. ASSUME Peek(t, s) \in Separators PROVE Assignment(t, i) = a
    <3>1. Peek(t, a.next) \in Blanks \/ s = a.next
      BY <2>6, BlankOrStays
    <3>2. Item(t, e + 1) = item
      BY <2>2, <2>4, <2>7, <3>1, SeparatorsAre
    <3>3. e = Skip(t, k, Blanks)
      BY <1>7, <1>12, SeparatorsAre
    <3>4. Peek(t, k) \notin KeyCharacters
      BY <1>10, <1>12, <3>3, SeparatorsAre, FollowIs
    <3>5. KeyEnd(t, i) = k
      BY <1>4, <3>4
    <3>6. Assignment(t, i) = Assigned(SubSeq(t, i, k - 1), Item(t, e + 1))
      BY <1>6, <1>12, <3>3, <3>5, AssignmentCases
    <3> QED
      BY <2>1, <3>2, <3>6
  <2> HIDE DEF s
  <2> QED
    BY <1>5, <2>5, <2>6, <2>7 DEF s
<1> QED
  BY <1>2, <1>11, <1>12

-----------------------------------------------------------------------------
(* Parameters *)

\* A parameter at j, and m, to where it may be read with the blanks behind it
Parameter(t, j, parameter, m) ==
    /\ Peek(t, j) = Semicolon
    /\ \E k \in Ends(t, j + 1, Blanks) : parameter \in Assignments(t, k)
    /\ m \in Ends(t, parameter.next, Blanks)

\* It is behind j, and begins where the blanks behind the semicolon end.
LEMMA ParameterIs ==
    ASSUME NEW t \in Seq(Characters), NEW j \in 1..(Len(t) + 1), NEW parameter, NEW m, Parameter(t, j, parameter, m)
    PROVE  /\ m \in (j + 1)..(Len(t) + 1) /\ j + 1 \in 1..(Len(t) + 1)
           /\ Skip(t, j + 1, Blanks) \in 1..(Len(t) + 1)
           /\ parameter \in Assignments(t, Skip(t, j + 1, Blanks))
           /\ parameter.next \in 1..(Len(t) + 1) /\ parameter.next > j
<1>1. PICK k \in Ends(t, j + 1, Blanks) : parameter \in Assignments(t, k)
  BY DEF Parameter
<1>2. Peek(t, j) = Semicolon /\ m \in Ends(t, parameter.next, Blanks)
  BY DEF Parameter
<1>3. j + 1 \in 1..(Len(t) + 1) /\ j \in Nat \ {0}
  <2>1. Peek(t, j) # End
    BY <1>2, FollowIs
  <2> QED
    BY <2>1, PeekIs
<1> DEFINE begin == Skip(t, j + 1, Blanks)
<1>4. /\ begin \in (j + 1)..(Len(t) + 1) /\ Ends(t, j + 1, Blanks) = (j + 1)..begin
      /\ Peek(t, k) \notin Blanks => k = begin
  BY <1>3, SeparatorsAre, EndsAre
<1> HIDE DEF begin
<1>5. k \in 1..(Len(t) + 1) /\ k > j /\ begin \in 1..(Len(t) + 1)
  BY <1>3, <1>4
<1>6. parameter.next \in (k + 1)..(Len(t) + 1) /\ Peek(t, k) \in KeyStarts
  BY <1>1, <1>5, AssignmentComplete
<1>7. k = begin
  BY <1>4, <1>6, SeparatorsAre
<1>8. parameter.next \in 1..(Len(t) + 1) /\ parameter.next > j
  BY <1>3, <1>5, <1>6
<1>9. m \in parameter.next..(Len(t) + 1)
  BY <1>2, <1>8 DEF Ends
<1>10. m \in (j + 1)..(Len(t) + 1)
  BY <1>3, <1>8, <1>9
<1> QED
  BY <1>1, <1>3, <1>5, <1>7, <1>8, <1>10 DEF begin

\* Where parameters from j on may end, when f says it for those behind
ParameterEndsAt(t, j, f) ==
    {j} \cup UNION {UNION {f[k] : k \in Ends(t, parameter.next, Blanks)} :
                    parameter \in IF Peek(t, j) = Semicolon
                                  THEN UNION {Assignments(t, k) : k \in Ends(t, j + 1, Blanks)}
                                  ELSE {}}

\* They end where they begin, or behind one of them.
LEMMA ParameterEndsCases ==
    ASSUME NEW t, NEW j, NEW f, NEW e
    PROVE  e \in ParameterEndsAt(t, j, f) <=>
              e = j \/ \E parameter, m : Parameter(t, j, parameter, m) /\ e \in f[m]
<1> DEFINE Parameters == IF Peek(t, j) = Semicolon
                         THEN UNION {Assignments(t, k) : k \in Ends(t, j + 1, Blanks)} ELSE {}
           Behind(parameter) == UNION {f[k] : k \in Ends(t, parameter.next, Blanks)}
<1>1. ParameterEndsAt(t, j, f) = {j} \cup UNION {Behind(parameter) : parameter \in Parameters}
  BY DEF ParameterEndsAt
<1>2. \A parameter : parameter \in Parameters <=>
         Peek(t, j) = Semicolon /\ \E k \in Ends(t, j + 1, Blanks) : parameter \in Assignments(t, k)
  OBVIOUS
<1>3. \A parameter : e \in Behind(parameter) <=> \E m \in Ends(t, parameter.next, Blanks) : e \in f[m]
  OBVIOUS
<1> HIDE DEF Parameters, Behind
<1>4. e \in ParameterEndsAt(t, j, f) <=> e = j \/ \E parameter \in Parameters : e \in Behind(parameter)
  BY <1>1
<1> QED
  BY <1>2, <1>3, <1>4 DEF Parameter

\* ParameterEnds() satisfies its equation.
LEMMA ParameterEndsAre ==
    ASSUME NEW t \in Seq(Characters)
    PROVE  \A j \in 1..(Len(t) + 1) :
              /\ ParameterEnds(t, j) \subseteq j..(Len(t) + 1)
              /\ \A e : e \in ParameterEnds(t, j) <=>
                           \/ e = j
                           \/ \E parameter, m : Parameter(t, j, parameter, m) /\ e \in ParameterEnds(t, m)
<1> DEFINE D == 1..(Len(t) + 1)
           V == SUBSET D
           Equation(f) == f = [j \in D |-> ParameterEndsAt(t, j, f)]
           G == [j \in D |-> [f \in [D -> V] |-> ParameterEndsAt(t, j, f)]]
           F == CHOOSE f : Equation(f)
<1>1. ASSUME NEW j PROVE ParameterEnds(t, j) = F[j]
  BY DEF ParameterEnds, ParameterEndsAt
<1>2. 1 \in Nat /\ Len(t) + 1 \in Nat /\ 1 <= Len(t) + 1
  OBVIOUS
<1>3. \A j \in D : \A parameter, m : Parameter(t, j, parameter, m) => m \in (j + 1)..(Len(t) + 1)
  BY ParameterIs
<1>4. \E f \in [D -> V] : \A j \in D : f[j] = G[j][f]
  <2>1. ASSUME NEW j \in D, NEW f \in [D -> V] PROVE G[j][f] \in V
    <3>1. ASSUME NEW e \in ParameterEndsAt(t, j, f) PROVE e \in D
      <4>1. CASE e = j
        BY <4>1
      <4>2. CASE \E parameter, m : Parameter(t, j, parameter, m) /\ e \in f[m]
        <5>1. PICK parameter, m : Parameter(t, j, parameter, m) /\ e \in f[m]
          BY <4>2
        <5>2. m \in (j + 1)..(Len(t) + 1)
          BY <1>3, <5>1
        <5>3. m \in D
          BY <5>2
        <5> QED
          BY <5>1, <5>3
      <4> QED
        BY <4>1, <4>2, ParameterEndsCases
    <3>2. G[j][f] = ParameterEndsAt(t, j, f)
      OBVIOUS
    <3> QED
      BY <3>1, <3>2
  <2>2. ASSUME NEW j \in D, NEW f \in [D -> V], NEW g \in [D -> V],
               \A k \in (j + 1)..(Len(t) + 1) : f[k] = g[k]
        PROVE  G[j][f] = G[j][g]
    <3>1. \A e : e \in ParameterEndsAt(t, j, f) <=> e \in ParameterEndsAt(t, j, g)
      BY <1>3, <2>2, ParameterEndsCases
    <3>2. ParameterEndsAt(t, j, f) = ParameterEndsAt(t, j, g)
      <4>1. ParameterEndsAt(t, j, f) \subseteq ParameterEndsAt(t, j, g)
        BY <3>1
      <4>2. ParameterEndsAt(t, j, g) \subseteq ParameterEndsAt(t, j, f)
        BY <3>1
      <4> QED
        BY <4>1, <4>2
    <3>3. G[j][f] = ParameterEndsAt(t, j, f) /\ G[j][g] = ParameterEndsAt(t, j, g)
      OBVIOUS
    <3> QED
      BY <3>2, <3>3
  <2>3. V # {}
    OBVIOUS
  <2> HIDE DEF G, V
  <2>4. \A j \in D : \A f, g \in [D -> V] :
           (\A k \in (j + 1)..(Len(t) + 1) : f[k] = g[k]) => G[j][f] = G[j][g]
    BY <2>2
  <2>5. \A j \in D : \A f \in [D -> V] : G[j][f] \in V
    BY <2>1
  <2>6. LooksAhead(G, 1, Len(t) + 1, V)
    BY <1>2, <2>3, <2>4, <2>5 DEF LooksAhead
  <2> QED
    BY <2>6, Recursion
<1>5. \E f : Equation(f)
  <2>1. PICK f \in [D -> V] : \A j \in D : f[j] = G[j][f]
    BY <1>4
  <2>2. \A j \in D : f[j] = ParameterEndsAt(t, j, f)
    BY <2>1
  <2>3. f = [j \in D |-> f[j]]
    OBVIOUS
  <2>4. f = [j \in D |-> ParameterEndsAt(t, j, f)]
    BY <2>2, <2>3
  <2> QED
    BY <2>4
<1>6. Equation(F)
  <2> HIDE DEF Equation
  <2> QED
    BY <1>5
<1> HIDE DEF F
<1>7. \A j \in D : F[j] = ParameterEndsAt(t, j, F)
  BY <1>6
<1>8. ASSUME NEW j \in D, NEW e
      PROVE  e \in F[j] <=> e = j \/ \E parameter, m : Parameter(t, j, parameter, m) /\ e \in F[m]
  BY <1>7, ParameterEndsCases
<1> DEFINE S == {j \in D : F[j] \subseteq j..(Len(t) + 1)}
<1>9. ASSUME NEW j \in D, \A k \in (j + 1)..(Len(t) + 1) : k \in S PROVE j \in S
  <2>1. ASSUME NEW e \in F[j], e # j PROVE e \in j..(Len(t) + 1)
    <3>1. PICK parameter, m : Parameter(t, j, parameter, m) /\ e \in F[m]
      BY <1>8, <2>1
    <3>2. m \in (j + 1)..(Len(t) + 1)
      BY <1>3, <3>1
    <3>3. e \in m..(Len(t) + 1)
      BY <1>9, <3>1, <3>2
    <3> QED
      BY <3>2, <3>3
  <2> QED
    BY <2>1
<1> HIDE DEF S
<1>10. \A j \in D : j \in S
  BY <1>2, <1>9, Downwards
<1>11. \A j \in D : F[j] \subseteq j..(Len(t) + 1)
  BY <1>10 DEF S
<1> QED
  BY <1>1, <1>8, <1>11

\* _skip_parameters() ends where the parameters may,
LEMMA ParametersSound ==
    ASSUME NEW t \in Seq(Characters), NEW i \in 1..(Len(t) + 1), ParametersEnd(t, i) # 0
    PROVE  ParametersEnd(t, i) \in ParameterEnds(t, i)
<1> DEFINE D == 1..(Len(t) + 1)
           S == {j \in D : ParametersEnd(t, j) = 0 \/ ParametersEnd(t, j) \in ParameterEnds(t, j)}
<1>1. 1 \in Nat /\ Len(t) + 1 \in Nat
  OBVIOUS
<1>2. ASSUME NEW j \in D, \A k \in (j + 1)..(Len(t) + 1) : k \in S, ParametersEnd(t, j) # 0
      PROVE  ParametersEnd(t, j) \in ParameterEnds(t, j)
  <2>1. CASE Peek(t, j) # Semicolon
    <3>1. ParametersEnd(t, j) = j
      <4>1. j \in 0..(Len(t) + 1)
        OBVIOUS
      <4> QED
        BY <2>1, <4>1, ParametersEquation
    <3> QED
      BY <3>1, ParameterEndsAre
  <2>2. CASE Peek(t, j) = Semicolon
    <3> DEFINE begin == Skip(t, j + 1, Blanks)
               parameter == Assignment(t, begin)
               m == Skip(t, parameter.next, Blanks)
    <3>1. j \in 0..(Len(t) + 1) /\ j + 1 \in 1..(Len(t) + 1)
      <4>1. Peek(t, j) # End
        BY <2>2, FollowIs
      <4> QED
        BY <4>1, PeekIs
    <3>2. ParametersEnd(t, j) = IF parameter.next = 0 THEN 0 ELSE ParametersEnd(t, m)
      BY <2>2, <3>1, ParametersEquation
    <3>3. parameter.next # 0 /\ ParametersEnd(t, j) = ParametersEnd(t, m)
      BY <1>2, <3>2
    <3>4. begin \in (j + 1)..(Len(t) + 1) /\ Ends(t, j + 1, Blanks) = (j + 1)..begin
      BY <3>1, SeparatorsAre, EndsAre
    <3>5. begin \in Ends(t, j + 1, Blanks) /\ begin \in 1..(Len(t) + 1)
      <4> HIDE DEF begin
      <4> QED
        BY <3>1, <3>4
    <3>6. parameter.next \in (begin + 1)..(Len(t) + 1) /\ parameter \in Assignments(t, begin)
      BY <3>3, <3>5, AssignmentAdvances, AssignmentSound
    <3> HIDE DEF parameter, begin
    <3>7. parameter.next \in 1..(Len(t) + 1)
      BY <3>5, <3>6
    <3>8. m \in parameter.next..(Len(t) + 1) /\ Ends(t, parameter.next, Blanks) = parameter.next..m
      BY <3>7, SeparatorsAre, EndsAre
    <3> HIDE DEF m
    <3>9. m \in Ends(t, parameter.next, Blanks)
      BY <3>7, <3>8
    <3>10. Parameter(t, j, parameter, m)
      BY <2>2, <3>5, <3>6, <3>9 DEF Parameter
    <3>11. m \in (j + 1)..(Len(t) + 1)
      BY <3>10, ParameterIs
    <3>12. ParametersEnd(t, m) \in ParameterEnds(t, m)
      BY <1>2, <3>3, <3>11
    <3> QED
      BY <3>3, <3>10, <3>12, ParameterEndsAre
  <2> QED
    BY <2>1, <2>2
<1>3. ASSUME NEW j \in D, \A k \in (j + 1)..(Len(t) + 1) : k \in S PROVE j \in S
  BY <1>2, <1>3
<1> HIDE DEF S
<1>4. \A j \in D : j \in S
  BY <1>1, <1>3, Downwards
<1> QED
  BY <1>4 DEF S

\* and the blanks behind them end there in any reading of them that a member can have.
LEMMA ParametersComplete ==
    ASSUME NEW t \in Seq(Characters), NEW i \in 1..(Len(t) + 1), NEW e \in ParameterEnds(t, i),
           Peek(t, Skip(t, e, Blanks)) \in {Comma, End}
    PROVE  /\ ParametersEnd(t, i) # 0
           /\ Skip(t, ParametersEnd(t, i), Blanks) = Skip(t, e, Blanks)
<1> DEFINE D == 1..(Len(t) + 1)
           Same(j) == ParametersEnd(t, j) # 0 /\ Skip(t, ParametersEnd(t, j), Blanks) = Skip(t, e, Blanks)
           S == {j \in D : e \in ParameterEnds(t, j) => Same(j)}
<1>1. 1 \in Nat /\ Len(t) + 1 \in Nat
  OBVIOUS
<1>2. \A j \in D : j \in 0..(Len(t) + 1) /\ j # 0
  OBVIOUS
<1>3. \A j \in D : Peek(t, j) # Semicolon => ParametersEnd(t, j) = j
  BY <1>2, ParametersEquation
<1>4. ASSUME NEW j \in D, \A k \in (j + 1)..(Len(t) + 1) : k \in S, e \in ParameterEnds(t, j)
      PROVE  Same(j)
  <2>1. CASE e = j
    <3>1. Peek(t, j) # Semicolon
      <4>1. ASSUME Peek(t, j) = Semicolon PROVE FALSE
        <5>1. Skip(t, j, Blanks) = j
          BY <4>1, BlankOrStays, FollowIs
        <5> QED
          BY <2>1, <4>1, <5>1, FollowIs
      <4> QED
        BY <4>1
    <3> QED
      BY <1>2, <1>3, <2>1, <3>1
  <2>2. CASE \E parameter, m : Parameter(t, j, parameter, m) /\ e \in ParameterEnds(t, m)
    <3>1. PICK parameter, m : Parameter(t, j, parameter, m) /\ e \in ParameterEnds(t, m)
      BY <2>2
    <3> DEFINE begin == Skip(t, j + 1, Blanks)
               read == Assignment(t, begin)
               s == Skip(t, parameter.next, Blanks)
    <3>2. /\ m \in (j + 1)..(Len(t) + 1) /\ begin \in 1..(Len(t) + 1)
          /\ parameter \in Assignments(t, begin) /\ parameter.next \in 1..(Len(t) + 1) /\ parameter.next > j
      BY <3>1, ParameterIs
    <3>3. Peek(t, j) = Semicolon /\ m \in Ends(t, parameter.next, Blanks)
      BY <3>1 DEF Parameter
    <3>4. ParametersEnd(t, j) = IF read.next = 0 THEN 0 ELSE ParametersEnd(t, Skip(t, read.next, Blanks))
      BY <1>2, <3>3, ParametersEquation
    <3>5. /\ Skip(t, m, Blanks) = s /\ s \in parameter.next..(Len(t) + 1) /\ Peek(t, s) \notin Blanks
          /\ Peek(t, m) \notin Blanks => m = s
      BY <3>2, <3>3, SeparatorsAre, EndsAre
    <3>6. s \in D /\ s \in (j + 1)..(Len(t) + 1) /\ m \in D
      <4> HIDE DEF s
      <4> QED
        BY <3>2, <3>5
    <3>7. Peek(t, m) = Semicolon \/ e = m
      BY <3>1, <3>6, ParameterEndsAre DEF Parameter
    <3>8. Peek(t, m) = Semicolon => m = s
      BY <3>5, FollowIs
    <3>9. Peek(t, s) \in Separators
      BY <3>5, <3>7, <3>8 DEF Separators
    <3>10. read.next = parameter.next \/ read.next = s
      BY <3>2, <3>9, AssignmentComplete
    <3>11. Skip(t, s, Blanks) = s
      BY <3>5, <3>6, BlankOrStays
    <3>12. read.next # 0 /\ Skip(t, read.next, Blanks) = s
      <4>1. Skip(t, parameter.next, Blanks) = s /\ parameter.next # 0 /\ s # 0
        BY <1>2, <3>2, <3>6
      <4> HIDE DEF s, read
      <4> QED
        BY <3>10, <3>11, <4>1
    <3>13. ParametersEnd(t, j) = ParametersEnd(t, s)
      BY <3>4, <3>12
    <3>14. CASE m = s
      <4>1. s \in S
        BY <1>4, <3>6
      <4> QED
        BY <3>1, <3>13, <3>14, <4>1
    <3>15. CASE m # s
      <4>1. e = m
        BY <3>7, <3>8, <3>15
      <4>2. Skip(t, e, Blanks) = s
        BY <3>5, <4>1
      <4>3. Peek(t, s) # Semicolon
        BY <4>2, FollowIs
      <4>4. ParametersEnd(t, s) = s /\ s # 0
        BY <1>2, <1>3, <3>6, <4>3
      <4> HIDE DEF s
      <4> QED
        BY <3>11, <3>13, <4>2, <4>4
    <3> QED
      BY <3>14, <3>15
  <2> QED
    BY <1>4, <2>1, <2>2, ParameterEndsAre
<1>5. ASSUME NEW j \in D, \A k \in (j + 1)..(Len(t) + 1) : k \in S PROVE j \in S
  BY <1>4, <1>5
<1> HIDE DEF S, Same
<1>6. \A j \in D : j \in S
  BY <1>1, <1>5, Downwards
<1>7. Same(i)
  BY <1>6 DEF S
<1> QED
  BY <1>7 DEF Same

-----------------------------------------------------------------------------
(* Members *)

\* The parser reads the parameters of a member up to where they may end,
LEMMA MemberSound ==
    ASSUME NEW t \in Seq(Characters), NEW i \in 1..(Len(t) + 1), NEW member, NEW end,
           member = Assignment(t, i), end = Skip(t, ParametersEnd(t, member.next), Blanks), end # 0
    PROVE  /\ member \in Assignments(t, i) /\ end \in MemberEnds(t, member)
           /\ end \in (i + 1)..(Len(t) + 1)
<1> DEFINE parameters == ParametersEnd(t, member.next)
<1>1. parameters # 0
  BY SkipOfNothing
<1>2. member.next = 0 \/ member.next \in (i + 1)..(Len(t) + 1)
  BY AssignmentAdvances
<1>3. member.next # 0
  <2>1. 0 \in 0..(Len(t) + 1) /\ 0 \notin 1..Len(t) /\ 0 \in Nat
    OBVIOUS
  <2>2. Peek(t, 0) # Semicolon
    BY <2>1, PeekIs, FollowIs
  <2> QED
    BY <1>1, <2>1, <2>2, ParametersEquation
<1>4. member \in Assignments(t, i)
  BY <1>3, AssignmentSound
<1>5. member.next \in 1..(Len(t) + 1) /\ member.next > i
  BY <1>2, <1>3
<1>6. parameters \in ParameterEnds(t, member.next) /\ parameters \in member.next..(Len(t) + 1)
  BY <1>1, <1>5, ParametersSound, ParameterEndsAre
<1> HIDE DEF parameters
<1>7. parameters \in 1..(Len(t) + 1) /\ parameters > i
  BY <1>5, <1>6
<1>8. end \in parameters..(Len(t) + 1) /\ Ends(t, parameters, Blanks) = parameters..end
  BY <1>7, SeparatorsAre, EndsAre DEF parameters
<1>9. end \in Ends(t, parameters, Blanks) /\ end \in (i + 1)..(Len(t) + 1)
  BY <1>7, <1>8
<1> QED
  BY <1>4, <1>6, <1>9 DEF MemberEnds

\* and there the parameters and the blanks of any reading of the member end.
LEMMA MemberComplete ==
    ASSUME NEW t \in Seq(Characters), NEW i \in 1..(Len(t) + 1), NEW member \in Assignments(t, i),
           NEW end \in MemberEnds(t, member), Peek(t, end) \in {Comma, End}
    PROVE  /\ Assignment(t, i).key = member.key /\ Assignment(t, i).value = member.value
           /\ Skip(t, ParametersEnd(t, Assignment(t, i).next), Blanks) = end
<1> DEFINE read == Assignment(t, i)
           s == Skip(t, member.next, Blanks)
<1>1. PICK e \in ParameterEnds(t, member.next) : end \in Ends(t, e, Blanks)
  BY DEF MemberEnds
<1>2. member.next \in (i + 1)..(Len(t) + 1)
  BY AssignmentComplete
<1>3. member.next \in 1..(Len(t) + 1) /\ member.next \in 0..(Len(t) + 1)
  BY <1>2
<1>4. e \in member.next..(Len(t) + 1)
  BY <1>1, <1>3, ParameterEndsAre
<1>5. e \in 1..(Len(t) + 1)
  BY <1>3, <1>4
<1>6. Skip(t, e, Blanks) = end
  BY <1>1, <1>5, SeparatorsAre, FollowIs, EndsAre
<1>7. s \in member.next..(Len(t) + 1) /\ Peek(t, s) \notin Blanks
  BY <1>3, SeparatorsAre, EndsAre
<1>8. e = member.next \/ Peek(t, member.next) = Semicolon
  BY <1>1, <1>3, ParameterEndsAre DEF Parameter
<1>9. Peek(t, member.next) = Semicolon => s = member.next
  BY <1>3, BlankOrStays, FollowIs
<1>10. Peek(t, s) \in Separators
  BY <1>6, <1>8, <1>9 DEF Separators
<1>11. read.key = member.key /\ read.value = member.value /\ (read.next = member.next \/ read.next = s)
  BY <1>10, AssignmentComplete
<1>12. CASE read.next = member.next
  <2>1. Skip(t, ParametersEnd(t, member.next), Blanks) = Skip(t, e, Blanks)
    BY <1>1, <1>3, <1>6, ParametersComplete
  <2> QED
    BY <1>6, <1>11, <1>12, <2>1
<1>13. CASE read.next = s /\ s # member.next
  <2>1. e = member.next /\ s = end
    BY <1>6, <1>8, <1>9, <1>13
  <2>2. s \in 1..(Len(t) + 1) /\ s \in 0..(Len(t) + 1)
    <3> HIDE DEF s
    <3> QED
      BY <1>3, <1>7
  <2>3. Peek(t, s) # Semicolon
    BY <2>1, FollowIs
  <2>4. ParametersEnd(t, s) = s
    BY <2>2, <2>3, ParametersEquation
  <2>5. Skip(t, s, Blanks) = s
    BY <1>7, <2>2, BlankOrStays
  <2> HIDE DEF s, read
  <2> QED
    BY <1>11, <1>13, <2>1, <2>4, <2>5 DEF read
<1> HIDE DEF s, read
<1> QED
  BY <1>11, <1>12, <1>13 DEF read

\* The readings of members from j on: the last one, or one before those that f has behind a comma
MembersAt(t, j, f) ==
    UNION {UNION {IF e > Len(t) THEN {<<member>>}
                  ELSE {<<member>> \o later :
                          later \in IF t[e] = Comma
                                    THEN UNION {f[k] : k \in Ends(t, e + 1, Blanks)}
                                    ELSE {}} :
                  e \in MemberEnds(t, member)} :
           member \in Assignments(t, j)}

\* Behind the member at j and a comma, others may be read from k on.
GoesOn(t, j, member, k) ==
    /\ member \in Assignments(t, j)
    /\ \E e \in MemberEnds(t, member) : e <= Len(t) /\ t[e] = Comma /\ k \in Ends(t, e + 1, Blanks)

\* The member at j may be the last one.
IsLast(t, j, member) == member \in Assignments(t, j) /\ \E e \in MemberEnds(t, member) : e > Len(t)

\* A member ends behind its beginning,
LEMMA MemberEndsBehind ==
    ASSUME NEW t \in Seq(Characters), NEW j \in 1..(Len(t) + 1), NEW member \in Assignments(t, j),
           NEW e \in MemberEnds(t, member)
    PROVE  e \in (j + 1)..(Len(t) + 1)
<1>1. PICK p \in ParameterEnds(t, member.next) : e \in Ends(t, p, Blanks)
  BY DEF MemberEnds
<1>2. member.next \in (j + 1)..(Len(t) + 1)
  BY AssignmentComplete
<1>3. member.next \in 1..(Len(t) + 1)
  BY <1>2
<1>4. p \in member.next..(Len(t) + 1)
  BY <1>1, <1>3, ParameterEndsAre
<1>5. e \in p..(Len(t) + 1)
  BY <1>1 DEF Ends
<1> QED
  BY <1>2, <1>4, <1>5

\* and so do those behind it.
LEMMA GoesOnBehind ==
    ASSUME NEW t \in Seq(Characters), NEW j \in 1..(Len(t) + 1), NEW member, NEW k, GoesOn(t, j, member, k)
    PROVE  k \in (j + 1)..(Len(t) + 1) /\ member \in Pairs
<1>1. member \in Assignments(t, j)
  BY DEF GoesOn
<1>2. PICK e \in MemberEnds(t, member) : k \in Ends(t, e + 1, Blanks)
  BY DEF GoesOn
<1>3. e \in (j + 1)..(Len(t) + 1)
  BY <1>1, MemberEndsBehind
<1>4. k \in (e + 1)..(Len(t) + 1)
  BY <1>2 DEF Ends
<1>5. member \in Pairs
  BY <1>1, AssignmentComplete
<1> QED
  BY <1>3, <1>4, <1>5

\* One of the two, with what f has behind
FirstAndLater(t, j, f, members) ==
    \/ \E member : IsLast(t, j, member) /\ members = <<member>>
    \/ \E member, k : GoesOn(t, j, member, k) /\ \E later \in f[k] : members = <<member>> \o later

\* MembersAt() has nothing else.
LEMMA MembersCases ==
    ASSUME NEW t \in Seq(Characters), NEW j \in 1..(Len(t) + 1), NEW f, NEW members
    PROVE  members \in MembersAt(t, j, f) <=> FirstAndLater(t, j, f, members)
<1> DEFINE Later(e) == IF t[e] = Comma THEN UNION {f[k] : k \in Ends(t, e + 1, Blanks)} ELSE {}
           More(member, e) == {<<member>> \o later : later \in Later(e)}
           With(member, e) == IF e > Len(t) THEN {<<member>>} ELSE More(member, e)
           Of(member) == UNION {With(member, e) : e \in MemberEnds(t, member)}
<1>1. MembersAt(t, j, f) = UNION {Of(member) : member \in Assignments(t, j)}
  BY DEF MembersAt
<1>2. \A member : members \in Of(member) <=> \E e \in MemberEnds(t, member) : members \in With(member, e)
  <2> HIDE DEF With
  <2> QED
    OBVIOUS
<1>3. \A member, e : members \in More(member, e) <=> \E later \in Later(e) : members = <<member>> \o later
  <2> HIDE DEF Later
  <2> QED
    OBVIOUS
<1>4. \A e, later : later \in Later(e) <=> t[e] = Comma /\ \E k \in Ends(t, e + 1, Blanks) : later \in f[k]
  OBVIOUS
<1> HIDE DEF Later, More
<1>5. \A member, e : /\ e > Len(t) => With(member, e) = {<<member>>}
                     /\ ~(e > Len(t)) => With(member, e) = More(member, e)
  OBVIOUS
<1> HIDE DEF With, Of
<1>6. members \in MembersAt(t, j, f) <=>
         \E member \in Assignments(t, j) : \E e \in MemberEnds(t, member) : members \in With(member, e)
  BY <1>1, <1>2
<1>7. \A member \in Assignments(t, j) : \A e \in MemberEnds(t, member) : ~(e > Len(t)) <=> e <= Len(t)
  <2>1. ASSUME NEW member \in Assignments(t, j), NEW e \in MemberEnds(t, member)
        PROVE  ~(e > Len(t)) <=> e <= Len(t)
    <3>1. e \in (j + 1)..(Len(t) + 1)
      BY MemberEndsBehind
    <3> QED
      BY <3>1
  <2> QED
    BY <2>1
<1>8. ASSUME NEW member \in Assignments(t, j), NEW e \in MemberEnds(t, member)
      PROVE  members \in With(member, e) <=>
                \/ e > Len(t) /\ members = <<member>>
                \/ /\ e <= Len(t) /\ t[e] = Comma
                   /\ \E k \in Ends(t, e + 1, Blanks) : \E later \in f[k] : members = <<member>> \o later
  <2>1. CASE e > Len(t)
    <3>1. ~(e <= Len(t)) /\ With(member, e) = {<<member>>}
      BY <1>5, <1>7, <2>1
    <3> QED
      BY <2>1, <3>1
  <2>2. CASE ~(e > Len(t))
    <3>1. e <= Len(t) /\ With(member, e) = More(member, e)
      BY <1>5, <1>7, <2>2
    <3> QED
      BY <1>3, <1>4, <2>2, <3>1
  <2> QED
    BY <2>1, <2>2
<1> QED
  BY <1>6, <1>8 DEF IsLast, GoesOn, FirstAndLater

\* So a reading of members is of one, or of one and a reading of others.
AreMembers(t, j, members) ==
    \/ \E member : IsLast(t, j, member) /\ members = <<member>>
    \/ \E member, k : GoesOn(t, j, member, k) /\ \E later \in Members(t, k) : members = <<member>> \o later

\* Members() satisfies its equation.
LEMMA MembersAre ==
    ASSUME NEW t \in Seq(Characters), NEW j \in 1..(Len(t) + 1)
    PROVE  /\ Members(t, j) \subseteq Seq(Pairs)
           /\ \A members : members \in Members(t, j) <=> AreMembers(t, j, members)
<1> DEFINE D == 1..(Len(t) + 1)
           V == SUBSET Seq(Pairs)
           Equation(f) == f = [i \in D |-> MembersAt(t, i, f)]
           G == [i \in D |-> [f \in [D -> V] |-> MembersAt(t, i, f)]]
           F == CHOOSE f : Equation(f)
<1>1. ASSUME NEW i PROVE Members(t, i) = F[i]
  BY DEF Members, MembersAt
<1>2. 1 \in Nat /\ Len(t) + 1 \in Nat /\ 1 <= Len(t) + 1
  OBVIOUS
<1>3. \A i \in D : \A member, k : GoesOn(t, i, member, k) => k \in (i + 1)..(Len(t) + 1) /\ member \in Pairs
  BY GoesOnBehind
<1>4. \A i \in D : \A member : IsLast(t, i, member) => member \in Pairs
  BY AssignmentComplete DEF IsLast
<1>5. \A member \in Pairs : <<member>> \in Seq(Pairs) /\ \A later \in Seq(Pairs) : <<member>> \o later \in Seq(Pairs)
  OBVIOUS
<1>6. ASSUME NEW i \in D, NEW f, \A k \in (i + 1)..(Len(t) + 1) : f[k] \in V
      PROVE  MembersAt(t, i, f) \in V
  <2>1. ASSUME NEW members \in MembersAt(t, i, f) PROVE members \in Seq(Pairs)
    <3>1. CASE \E member : IsLast(t, i, member) /\ members = <<member>>
      BY <1>4, <1>5, <3>1
    <3>2. CASE \E member, k : GoesOn(t, i, member, k) /\ \E later \in f[k] : members = <<member>> \o later
      <4>1. PICK member, k : GoesOn(t, i, member, k) /\ \E later \in f[k] : members = <<member>> \o later
        BY <3>2
      <4>2. PICK later \in f[k] : members = <<member>> \o later
        BY <4>1
      <4>3. k \in (i + 1)..(Len(t) + 1) /\ member \in Pairs
        BY <1>3, <4>1
      <4>4. later \in Seq(Pairs)
        BY <1>6, <4>2, <4>3
      <4> QED
        BY <1>5, <4>2, <4>3, <4>4
    <3>3. FirstAndLater(t, i, f, members)
      BY MembersCases
    <3> QED
      BY <3>1, <3>2, <3>3 DEF FirstAndLater
  <2> QED
    BY <2>1
<1>7. \E f \in [D -> V] : \A i \in D : f[i] = G[i][f]
  <2>1. ASSUME NEW i \in D, NEW f \in [D -> V] PROVE G[i][f] \in V
    <3>1. \A k \in (i + 1)..(Len(t) + 1) : f[k] \in V
      <4> HIDE DEF V
      <4> QED
        OBVIOUS
    <3>2. G[i][f] = MembersAt(t, i, f)
      OBVIOUS
    <3> HIDE DEF V, G
    <3> QED
      BY <1>6, <3>1, <3>2
  <2>2. ASSUME NEW i \in D, NEW f \in [D -> V], NEW g \in [D -> V],
               \A k \in (i + 1)..(Len(t) + 1) : f[k] = g[k]
        PROVE  G[i][f] = G[i][g]
    <3>1. ASSUME NEW members PROVE members \in MembersAt(t, i, f) <=> members \in MembersAt(t, i, g)
      <4>1. \A member, k : GoesOn(t, i, member, k) => f[k] = g[k]
        BY <1>3, <2>2
      <4>2. FirstAndLater(t, i, f, members) <=> FirstAndLater(t, i, g, members)
        BY <4>1 DEF FirstAndLater
      <4>3. members \in MembersAt(t, i, f) <=> FirstAndLater(t, i, f, members)
        BY MembersCases
      <4>4. members \in MembersAt(t, i, g) <=> FirstAndLater(t, i, g, members)
        BY MembersCases
      <4> QED
        BY <4>2, <4>3, <4>4
    <3>2. MembersAt(t, i, f) = MembersAt(t, i, g)
      <4>1. MembersAt(t, i, f) \subseteq MembersAt(t, i, g)
        BY <3>1
      <4>2. MembersAt(t, i, g) \subseteq MembersAt(t, i, f)
        BY <3>1
      <4> QED
        BY <4>1, <4>2
    <3>3. G[i][f] = MembersAt(t, i, f) /\ G[i][g] = MembersAt(t, i, g)
      OBVIOUS
    <3> QED
      BY <3>2, <3>3
  <2>3. V # {}
    OBVIOUS
  <2> HIDE DEF G, V
  <2>4. \A i \in D : \A f, g \in [D -> V] :
           (\A k \in (i + 1)..(Len(t) + 1) : f[k] = g[k]) => G[i][f] = G[i][g]
    BY <2>2
  <2>5. \A i \in D : \A f \in [D -> V] : G[i][f] \in V
    BY <2>1
  <2>6. LooksAhead(G, 1, Len(t) + 1, V)
    BY <1>2, <2>3, <2>4, <2>5 DEF LooksAhead
  <2> QED
    BY <2>6, Recursion
<1>8. \E f : Equation(f)
  <2>1. PICK f \in [D -> V] : \A i \in D : f[i] = G[i][f]
    BY <1>7
  <2>2. \A i \in D : f[i] = MembersAt(t, i, f)
    BY <2>1
  <2>3. f = [i \in D |-> f[i]]
    OBVIOUS
  <2>4. f = [i \in D |-> MembersAt(t, i, f)]
    BY <2>2, <2>3
  <2> QED
    BY <2>4
<1>9. Equation(F)
  <2> HIDE DEF Equation
  <2> QED
    BY <1>8
<1> HIDE DEF F
<1>10. \A i \in D : F[i] = MembersAt(t, i, F)
  BY <1>9
<1>11. ASSUME NEW i \in D, NEW members
       PROVE  members \in F[i] <=>
                 \/ \E member : IsLast(t, i, member) /\ members = <<member>>
                 \/ \E member, k : /\ GoesOn(t, i, member, k)
                                   /\ \E later \in F[k] : members = <<member>> \o later
  <2>1. members \in MembersAt(t, i, F) <=> FirstAndLater(t, i, F, members)
    BY MembersCases
  <2> QED
    BY <1>10, <2>1 DEF FirstAndLater
<1> DEFINE S == {i \in D : F[i] \in V}
<1>12. ASSUME NEW i \in D, \A k \in (i + 1)..(Len(t) + 1) : k \in S PROVE i \in S
  <2>1. \A k \in (i + 1)..(Len(t) + 1) : F[k] \in V
    BY <1>12
  <2> HIDE DEF V
  <2> QED
    BY <1>6, <1>10, <2>1
<1> HIDE DEF S
<1>13. \A i \in D : i \in S
  BY <1>2, <1>12, Downwards
<1>14. \A i \in D : F[i] \subseteq Seq(Pairs)
  BY <1>13 DEF S
<1>15. Members(t, j) = F[j] /\ \A k : Members(t, k) = F[k]
  BY <1>1
<1>16. Members(t, j) \subseteq Seq(Pairs)
  BY <1>14, <1>15
<1>17. ASSUME NEW members PROVE members \in Members(t, j) <=> AreMembers(t, j, members)
  <2>1. members \in F[j] <=>
           \/ \E member : IsLast(t, j, member) /\ members = <<member>>
           \/ \E member, k : GoesOn(t, j, member, k) /\ \E later \in F[k] : members = <<member>> \o later
    BY <1>11
  <2> QED
    BY <1>15, <2>1 DEF AreMembers
<1> QED
  BY <1>16, <1>17

-----------------------------------------------------------------------------
(* Dictionaries *)

\* A member before others counts when none of them has its key.
LEMMA LastOfEachBefore ==
    ASSUME NEW member \in Pairs, NEW later \in Seq(Pairs)
    PROVE  LastOfEach(<<member>> \o later) = Before(member, LastOfEach(later))
<1> DEFINE members == <<member>> \o later
           n == Len(later)
           At(key) == {k \in DOMAIN members : members[k].key = key}
           LaterAt(key) == {k \in DOMAIN later : later[k].key = key}
           laterKeys == {later[k].key : k \in DOMAIN later}
           keys == {members[k].key : k \in DOMAIN members}
<1>1. /\ n \in Nat /\ DOMAIN later = 1..n /\ DOMAIN members = 1..(n + 1)
      /\ members[1] = member /\ \A k \in 1..n : members[k + 1] = later[k]
  OBVIOUS
<1> HIDE DEF members, n
<1>2. \A k \in 1..(n + 1) : k = 1 \/ (k - 1 \in 1..n /\ members[k] = later[k - 1])
  <2>1. ASSUME NEW k \in 1..(n + 1), k # 1 PROVE k - 1 \in 1..n /\ members[k] = later[k - 1]
    <3>1. k - 1 \in 1..n /\ (k - 1) + 1 = k
      BY <1>1, <2>1
    <3>2. members[(k - 1) + 1] = later[k - 1]
      BY <1>1, <3>1
    <3> QED
      BY <3>1, <3>2
  <2> QED
    BY <2>1
<1>3. keys = {member.key} \cup laterKeys
  <2>1. ASSUME NEW k \in 1..(n + 1) PROVE members[k].key \in {member.key} \cup laterKeys
    <3>1. CASE k = 1
      BY <1>1, <3>1
    <3>2. CASE k # 1
      <4>1. k - 1 \in DOMAIN later /\ members[k] = later[k - 1]
        BY <1>1, <1>2, <3>2
      <4> QED
        BY <4>1
    <3> QED
      BY <3>1, <3>2
  <2>2. member.key \in keys
    <3>1. 1 \in DOMAIN members
      BY <1>1
    <3> QED
      BY <1>1, <3>1
  <2>3. ASSUME NEW k \in 1..n PROVE later[k].key \in keys
    <3>1. k + 1 \in DOMAIN members
      BY <1>1
    <3> QED
      BY <1>1, <3>1
  <2> QED
    BY <1>1, <2>1, <2>2, <2>3
<1>4. ASSUME NEW key \in laterKeys
      PROVE  members[Max(At(key))].value = later[Max(LaterAt(key))].value
  <2>1. LaterAt(key) \in SUBSET (1..n) /\ LaterAt(key) # {}
    BY <1>1
  <2> DEFINE x == Max(At(key))
             y == Max(LaterAt(key))
  <2>2. y \in LaterAt(key) /\ \A k \in LaterAt(key) : y >= k
    BY <1>1, <2>1, GreatestMember
  <2> HIDE DEF y
  <2>3. y \in 1..n /\ later[y].key = key
    BY <1>1, <2>2
  <2>4. y + 1 \in At(key)
    <3>1. y + 1 \in 1..(n + 1) /\ members[y + 1] = later[y]
      BY <1>1, <2>3
    <3> QED
      BY <1>1, <2>3, <3>1
  <2>5. At(key) \in SUBSET (1..(n + 1)) /\ n + 1 \in Nat /\ At(key) # {}
    BY <1>1, <2>4
  <2>6. x \in At(key) /\ \A k \in At(key) : x >= k
    BY <2>5, GreatestMember
  <2> HIDE DEF x
  <2>7. x \in 1..(n + 1) /\ members[x].key = key /\ x >= y + 1
    BY <1>1, <2>4, <2>6
  <2>8. x # 1
    BY <2>3, <2>7
  <2>9. x - 1 \in 1..n /\ members[x] = later[x - 1]
    BY <1>2, <2>7, <2>8
  <2>10. x - 1 \in LaterAt(key)
    BY <1>1, <2>7, <2>9
  <2>11. x - 1 = y
    BY <2>2, <2>3, <2>7, <2>9, <2>10
  <2> QED
    BY <2>9, <2>11 DEF x, y
<1>5. ASSUME member.key \notin laterKeys PROVE members[Max(At(member.key))].value = member.value
  <2> DEFINE x == Max(At(member.key))
  <2>1. 1 \in At(member.key)
    BY <1>1
  <2>2. At(member.key) \in SUBSET (1..(n + 1)) /\ n + 1 \in Nat /\ At(member.key) # {}
    BY <1>1, <2>1
  <2>3. x \in At(member.key)
    BY <2>2, GreatestMember
  <2> HIDE DEF x
  <2>4. x \in 1..(n + 1) /\ members[x].key = member.key
    BY <1>1, <2>3
  <2>5. x = 1
    BY <1>1, <1>2, <1>5, <2>4
  <2> QED
    BY <1>1, <2>5 DEF x
<1>6. LastOfEach(members) = [key \in keys |-> members[Max(At(key))].value]
  BY DEF LastOfEach
<1>7. LastOfEach(later) = [key \in laterKeys |-> later[Max(LaterAt(key))].value]
  BY DEF LastOfEach
<1> DEFINE said == LastOfEach(later)
<1> HIDE DEF keys, laterKeys, At, LaterAt
<1>8. DOMAIN said = laterKeys /\ \A key \in laterKeys : said[key] = later[Max(LaterAt(key))].value
  BY <1>7
<1> HIDE DEF said
<1>9. Before(member, said) = [key \in {member.key} \cup laterKeys |->
                                 IF key \in laterKeys THEN said[key] ELSE member.value]
  BY <1>8 DEF Before
<1>10. \A key \in {member.key} \cup laterKeys :
          members[Max(At(key))].value = IF key \in laterKeys THEN said[key] ELSE member.value
  BY <1>4, <1>5, <1>8
<1>11. LastOfEach(members) = Before(member, said)
  BY <1>3, <1>6, <1>9, <1>10
<1> QED
  BY <1>11 DEF members, said

\* Without a member, and of one
LEMMA LastOfOne ==
    /\ LastOfEach(<<>>) = <<>>
    /\ \A member \in Pairs : LastOfEach(<<member>>) = Before(member, <<>>)
<1>1. LastOfEach(<<>>) = <<>>
  <2>1. {<<>>[k].key : k \in DOMAIN <<>>} = {}
    OBVIOUS
  <2>2. DOMAIN LastOfEach(<<>>) = {}
    BY <2>1 DEF LastOfEach
  <2>3. LastOfEach(<<>>) \in [{} -> {}]
    BY <2>1 DEF LastOfEach
  <2> QED
    BY <2>2, <2>3
<1>2. ASSUME NEW member \in Pairs PROVE LastOfEach(<<member>>) = Before(member, <<>>)
  <2>1. <<>> \in Seq(Pairs) /\ <<member>> \o <<>> = <<member>>
    OBVIOUS
  <2>2. LastOfEach(<<member>> \o <<>>) = Before(member, LastOfEach(<<>>))
    BY <2>1, LastOfEachBefore
  <2> QED
    BY <1>1, <2>1, <2>2
<1> QED
  BY <1>1, <1>2

\* The cases of parse_sf_dictionary()'s loop
LEMMA DictionaryIs ==
    ASSUME NEW t \in Seq(Characters), NEW i \in 1..(Len(t) + 1), NEW f, NEW member, NEW end, NEW next,
           member = Assignment(t, i), end = Skip(t, ParametersEnd(t, member.next), Blanks),
           next = Skip(t, end + 1, Blanks)
    PROVE  /\ end > Len(t) => DictionaryAt(t, i, f) = Dictionary(Before(member, <<>>))
           /\ ~(end > Len(t)) /\ Peek(t, end) = Comma /\ next <= Len(t) /\ f[next].ok =>
                 DictionaryAt(t, i, f) = Dictionary(Before(member, f[next].fields))
           /\ ~(end > Len(t)) /\ ~(Peek(t, end) = Comma /\ next <= Len(t) /\ f[next].ok) =>
                 DictionaryAt(t, i, f) = Malformed
<1> DEFINE last == end > Len(t)
           goesOn == Peek(t, end) = Comma /\ next <= Len(t) /\ f[next].ok
           alone == Dictionary(Before(member, <<>>))
           more == Dictionary(Before(member, f[next].fields))
<1>1. DictionaryAt(t, i, f) = CASE last -> alone [] goesOn -> more [] OTHER -> Malformed
  BY DEF DictionaryAt
<1>2. ~(last /\ goesOn)
  <2>1. end = 0 \/ end \in (i + 1)..(Len(t) + 1)
    BY MemberSound
  <2>2. end \in Nat
    BY <2>1
  <2>3. Peek(t, end) = Comma => end \in 1..Len(t)
    BY <2>2, PeekIs, FollowIs
  <2> QED
    BY <2>3
<1>3. /\ last => DictionaryAt(t, i, f) = alone
      /\ ~last /\ goesOn => DictionaryAt(t, i, f) = more
      /\ ~last /\ ~goesOn => DictionaryAt(t, i, f) = Malformed
  <2> HIDE DEF last, goesOn, alone, more
  <2> QED
    BY <1>1, <1>2
<1> QED
  BY <1>3

\* What the parser makes of the members from i on is what one of the readings of them says,
LEMMA DictionarySound ==
    ASSUME NEW t \in Seq(Characters), NEW F, \A j \in 1..(Len(t) + 1) : F[j] = DictionaryAt(t, j, F)
    PROVE  \A i \in 1..(Len(t) + 1) :
              F[i].ok => \E members \in Members(t, i) : F[i].fields = LastOfEach(members)
<1> DEFINE D == 1..(Len(t) + 1)
           Said(j) == \E members \in Members(t, j) : F[j].fields = LastOfEach(members)
           S == {j \in D : F[j].ok => Said(j)}
<1>1. 1 \in Nat /\ Len(t) + 1 \in Nat
  OBVIOUS
<1>2. \A fields : Dictionary(fields).ok /\ Dictionary(fields).fields = fields
  BY DEF Dictionary
<1>3. ~Malformed.ok
  BY DEF Malformed
<1>4. ASSUME NEW j \in D, \A k \in (j + 1)..(Len(t) + 1) : k \in S, F[j].ok PROVE Said(j)
  <2> DEFINE member == Assignment(t, j)
             end == Skip(t, ParametersEnd(t, member.next), Blanks)
             next == Skip(t, end + 1, Blanks)
  <2>1. member \in Pairs
    BY AssignmentAdvances
  <2>2. /\ end > Len(t) => F[j] = Dictionary(Before(member, <<>>))
        /\ ~(end > Len(t)) /\ Peek(t, end) = Comma /\ next <= Len(t) /\ F[next].ok =>
              F[j] = Dictionary(Before(member, F[next].fields))
        /\ ~(end > Len(t)) /\ ~(Peek(t, end) = Comma /\ next <= Len(t) /\ F[next].ok) => F[j] = Malformed
    BY DictionaryIs
  <2>3. end # 0 =>
           member \in Assignments(t, j) /\ end \in MemberEnds(t, member) /\ end \in (j + 1)..(Len(t) + 1)
    BY MemberSound
  <2> HIDE DEF member, end, S
  <2>4. CASE end > Len(t)
    <3>1. end # 0
      BY <2>4
    <3>2. IsLast(t, j, member)
      BY <2>3, <2>4, <3>1 DEF IsLast
    <3>3. <<member>> \in Members(t, j)
      BY <3>2, MembersAre DEF AreMembers
    <3>4. F[j].fields = LastOfEach(<<member>>)
      BY <1>2, <2>1, <2>2, <2>4, LastOfOne
    <3> QED
      BY <3>3, <3>4
  <2>5. CASE ~(end > Len(t))
    <3>1. Peek(t, end) = Comma /\ next <= Len(t) /\ F[next].ok /\ F[j] = Dictionary(Before(member, F[next].fields))
      BY <1>3, <1>4, <2>2, <2>5
    <3>2. end # 0
      <4>1. Peek(t, 0) = End
        BY PeekIs
      <4> QED
        BY <3>1, <4>1, FollowIs
    <3>3. end \in 1..Len(t) /\ end + 1 \in 1..(Len(t) + 1) /\ end > j /\ t[end] = Comma /\ end <= Len(t)
      <4>1. end \in 1..Len(t) /\ end > j
        BY <2>3, <2>5, <3>2
      <4> QED
        BY <3>1, <4>1, PeekIs
    <3>4. next \in (end + 1)..(Len(t) + 1) /\ Ends(t, end + 1, Blanks) = (end + 1)..next
      BY <3>3, SeparatorsAre, EndsAre
    <3> HIDE DEF next
    <3>5. next \in Ends(t, end + 1, Blanks) /\ next \in (j + 1)..(Len(t) + 1) /\ next \in D
      BY <3>3, <3>4
    <3>6. GoesOn(t, j, member, next)
      BY <2>3, <3>2, <3>3, <3>5 DEF GoesOn
    <3>7. PICK later \in Members(t, next) : F[next].fields = LastOfEach(later)
      BY <1>4, <3>1, <3>5 DEF S
    <3>8. <<member>> \o later \in Members(t, j)
      <4>1. AreMembers(t, j, <<member>> \o later)
        BY <3>6 DEF AreMembers
      <4> QED
        BY <4>1, MembersAre
    <3>9. later \in Seq(Pairs)
      BY <3>5, MembersAre
    <3>10. F[j].fields = LastOfEach(<<member>> \o later)
      BY <1>2, <2>1, <3>1, <3>7, <3>9, LastOfEachBefore
    <3> QED
      BY <3>8, <3>10
  <2> QED
    BY <2>4, <2>5
<1>5. ASSUME NEW j \in D, \A k \in (j + 1)..(Len(t) + 1) : k \in S PROVE j \in S
  <2> HIDE DEF Said
  <2> QED
    BY <1>4, <1>5
<1> HIDE DEF S
<1>6. \A j \in D : j \in S
  BY <1>1, <1>5, Downwards
<1> QED
  BY <1>6 DEF S

\* and every one of them says that.
LEMMA DictionaryComplete ==
    ASSUME NEW t \in Seq(Characters), NEW F, \A j \in 1..(Len(t) + 1) : F[j] = DictionaryAt(t, j, F)
    PROVE  \A i \in 1..(Len(t) + 1) : \A members \in Members(t, i) :
              Peek(t, i) \in KeyStarts /\ F[i] = Dictionary(LastOfEach(members))
<1> DEFINE D == 1..(Len(t) + 1)
           Good(j) == \A members \in Members(t, j) :
                         Peek(t, j) \in KeyStarts /\ F[j] = Dictionary(LastOfEach(members))
           S == {j \in D : Good(j)}
<1>1. 1 \in Nat /\ Len(t) + 1 \in Nat
  OBVIOUS
<1>2. \A fields : Dictionary(fields).ok /\ Dictionary(fields).fields = fields
  BY DEF Dictionary
<1>3. \A p, q, fields : p.key = q.key /\ p.value = q.value => Before(p, fields) = Before(q, fields)
  BY DEF Before
<1>4. ASSUME NEW j \in D, \A k \in (j + 1)..(Len(t) + 1) : k \in S, NEW members \in Members(t, j)
      PROVE  Peek(t, j) \in KeyStarts /\ F[j] = Dictionary(LastOfEach(members))
  <2> DEFINE read == Assignment(t, j)
             end == Skip(t, ParametersEnd(t, read.next), Blanks)
             next == Skip(t, end + 1, Blanks)
  <2>1. /\ end > Len(t) => F[j] = Dictionary(Before(read, <<>>))
        /\ ~(end > Len(t)) /\ Peek(t, end) = Comma /\ next <= Len(t) /\ F[next].ok =>
              F[j] = Dictionary(Before(read, F[next].fields))
    BY DictionaryIs
  <2>2. \A member \in Assignments(t, j) : \A e \in MemberEnds(t, member) :
           Peek(t, e) \in {Comma, End} => read.key = member.key /\ read.value = member.value /\ end = e
    BY MemberComplete
  <2>3. \A member \in Assignments(t, j) : member \in Pairs /\ Peek(t, j) \in KeyStarts
    BY AssignmentComplete
  <2>4. \A member \in Assignments(t, j) : \A e \in MemberEnds(t, member) : e \in (j + 1)..(Len(t) + 1)
    BY MemberEndsBehind
  <2> HIDE DEF read, end, S
  <2>5. CASE \E member : IsLast(t, j, member) /\ members = <<member>>
    <3>1. PICK member : IsLast(t, j, member) /\ members = <<member>>
      BY <2>5
    <3>2. PICK e \in MemberEnds(t, member) : e > Len(t)
      BY <3>1 DEF IsLast
    <3>3. member \in Assignments(t, j)
      BY <3>1 DEF IsLast
    <3>4. Peek(t, e) = End
      <4>1. e \in (j + 1)..(Len(t) + 1)
        BY <2>4, <3>3
      <4>2. e \in Nat /\ e \notin 1..Len(t)
        BY <3>2, <4>1
      <4> QED
        BY <4>2, PeekIs
    <3>5. read.key = member.key /\ read.value = member.value /\ end = e
      BY <2>2, <3>3, <3>4
    <3>6. F[j] = Dictionary(Before(member, <<>>))
      BY <1>3, <2>1, <3>2, <3>5
    <3> QED
      BY <2>3, <3>1, <3>3, <3>6, LastOfOne
  <2>6. CASE \E member, k : /\ GoesOn(t, j, member, k)
                            /\ \E later \in Members(t, k) : members = <<member>> \o later
    <3>1. PICK member, k : GoesOn(t, j, member, k) /\ \E later \in Members(t, k) : members = <<member>> \o later
      BY <2>6
    <3>2. PICK later \in Members(t, k) : members = <<member>> \o later
      BY <3>1
    <3>3. member \in Assignments(t, j)
      BY <3>1 DEF GoesOn
    <3>4. PICK e \in MemberEnds(t, member) : e <= Len(t) /\ t[e] = Comma /\ k \in Ends(t, e + 1, Blanks)
      BY <3>1 DEF GoesOn
    <3>5. e \in 1..Len(t) /\ e + 1 \in 1..(Len(t) + 1)
      <4>1. e \in (j + 1)..(Len(t) + 1)
        BY <2>4, <3>3
      <4> QED
        BY <3>4, <4>1
    <3>6. Peek(t, e) = Comma
      BY <3>4, <3>5, PeekIs
    <3>7. read.key = member.key /\ read.value = member.value /\ end = e
      BY <2>2, <3>3, <3>6
    <3>8. k \in (j + 1)..(Len(t) + 1)
      BY <3>1, GoesOnBehind
    <3>9. k \in D
      BY <3>8
    <3>10. Peek(t, k) \in KeyStarts /\ F[k] = Dictionary(LastOfEach(later))
      BY <1>4, <3>2, <3>8 DEF S
    <3>11. k = next
      BY <3>4, <3>5, <3>7, <3>10, SeparatorsAre, EndsAre
    <3>12. k <= Len(t)
      <4>1. Peek(t, k) # End
        BY <3>10, FirstCharacters
      <4>2. k \in 1..Len(t)
        BY <3>9, <4>1, PeekIs
      <4> QED
        BY <4>2
    <3>13. ~(end > Len(t))
      BY <3>5, <3>7
    <3> HIDE DEF next
    <3>14. F[j] = Dictionary(Before(read, F[next].fields))
      BY <1>2, <2>1, <3>6, <3>7, <3>10, <3>11, <3>12, <3>13
    <3>15. F[j] = Dictionary(Before(member, LastOfEach(later)))
      BY <1>2, <1>3, <3>7, <3>10, <3>11, <3>14
    <3>16. later \in Seq(Pairs) /\ member \in Pairs
      BY <2>3, <3>3, <3>9, MembersAre
    <3>17. LastOfEach(members) = Before(member, LastOfEach(later))
      BY <3>2, <3>16, LastOfEachBefore
    <3> QED
      BY <2>3, <3>3, <3>15, <3>17
  <2>7. \/ \E member : IsLast(t, j, member) /\ members = <<member>>
        \/ \E member, k : GoesOn(t, j, member, k) /\ \E later \in Members(t, k) : members = <<member>> \o later
    <3>1. AreMembers(t, j, members)
      BY MembersAre
    <3> QED
      BY <3>1 DEF AreMembers
  <2> QED
    BY <2>5, <2>6, <2>7
<1>5. ASSUME NEW j \in D, \A k \in (j + 1)..(Len(t) + 1) : k \in S PROVE j \in S
  BY <1>4, <1>5
<1> HIDE DEF S
<1>6. \A j \in D : j \in S
  BY <1>1, <1>5, Downwards
<1> QED
  BY <1>6 DEF S

(* The parser and the grammar agree, whatever the text and however long: a   *)
(* text has a reading in the grammar just when parse_sf_dictionary() does   *)
(* not raise, then it has no other, and that is what the parser returns.    *)
(* What the loops of the parser take greedily, character by character, is   *)
(* so the only way to take it.                                              *)
THEOREM ParserReadsTheGrammar ==
    ASSUME NEW t \in Seq(Characters)
    PROVE  Readings(t) = IF ParseDictionary(t).ok THEN {ParseDictionary(t).fields} ELSE {}
<1> DEFINE D == 1..(Len(t) + 1)
           first == Skip(t, 1, Blanks)
           Empty == IF Len(t) + 1 \in Ends(t, 1, Blanks) THEN {<<>>} ELSE {}
           Full == UNION {Members(t, k) : k \in Ends(t, 1, Blanks)}
           parsed == ParseDictionary(t)
<1>1. PICK F : /\ LET begin == Skip(t, 1, Blanks)
                  IN  ParseDictionary(t) = IF begin > Len(t) THEN Dictionary(<<>>) ELSE F[begin]
               /\ \A i \in D : F[i] = DictionaryAt(t, i, F)
               /\ \A i \in D : F[i] \in Parsed
  BY DictionaryEquation
<1>2. parsed = IF first > Len(t) THEN Dictionary(<<>>) ELSE F[first]
  BY <1>1
<1>3. 1 \in D /\ Len(t) + 1 \in D
  OBVIOUS
<1>4. /\ first \in D /\ Ends(t, 1, Blanks) = 1..first
      /\ \A k \in Ends(t, 1, Blanks) : Peek(t, k) \notin Blanks => k = first
  BY <1>3, SeparatorsAre, EndsAre
<1>5. \A i \in D : F[i].ok => \E members \in Members(t, i) : F[i].fields = LastOfEach(members)
  BY <1>1, DictionarySound
<1>6. \A i \in D : \A members \in Members(t, i) :
         Peek(t, i) \in KeyStarts /\ F[i] = Dictionary(LastOfEach(members))
  BY <1>1, DictionaryComplete
<1>7. \A fields : Dictionary(fields).ok /\ Dictionary(fields).fields = fields
  BY DEF Dictionary
<1>8. Readings(t) = {LastOfEach(members) : members \in Empty \cup Full}
  BY DEF Readings
<1> HIDE DEF first, parsed
<1>9. 1..first \subseteq D /\ first \in 1..first
  BY <1>4
<1>10. ASSUME NEW members \in Full
       PROVE  /\ first <= Len(t) /\ members \in Members(t, first)
              /\ F[first] = Dictionary(LastOfEach(members))
  <2>1. PICK k \in Ends(t, 1, Blanks) : members \in Members(t, k)
    OBVIOUS
  <2>2. k \in D
    BY <1>4, <1>9
  <2>3. Peek(t, k) \in KeyStarts /\ F[k] = Dictionary(LastOfEach(members))
    BY <1>6, <2>1, <2>2
  <2>4. k = first
    BY <1>4, <2>3, SeparatorsAre
  <2>5. Peek(t, k) # End
    BY <2>3, FirstCharacters
  <2>6. k \in 1..Len(t)
    BY <2>2, <2>5, PeekIs
  <2> QED
    BY <2>1, <2>3, <2>4, <2>6
<1>11. ASSUME NEW members \in Members(t, first) PROVE members \in Full
  BY <1>4, <1>9
<1>12. first > Len(t) => Empty = {<<>>}
  <2>1. first > Len(t) => first = Len(t) + 1
    BY <1>4
  <2> QED
    BY <1>4, <1>9, <2>1
<1>13. ~(first > Len(t)) => Empty = {}
  <2>1. ~(first > Len(t)) => Len(t) + 1 \notin 1..first
    BY <1>4
  <2> QED
    BY <1>4, <2>1
<1> HIDE DEF Empty, Full, D
<1>14. CASE first > Len(t)
  <2>1. Full = {}
    <3>1. ~(first <= Len(t))
      BY <1>4, <1>14 DEF D
    <3> QED
      BY <1>10, <3>1
  <2>2. Empty \cup Full = {<<>>}
    BY <1>12, <1>14, <2>1
  <2>3. Readings(t) = {<<>>}
    BY <1>8, <2>2, LastOfOne
  <2>4. parsed = Dictionary(<<>>)
    BY <1>2, <1>14
  <2> QED
    BY <1>7, <2>3, <2>4 DEF parsed
<1>15. CASE ~(first > Len(t))
  <2>1. parsed = F[first]
    BY <1>2, <1>15
  <2>2. Readings(t) = {LastOfEach(members) : members \in Full}
    BY <1>8, <1>13, <1>15
  <2>3. CASE F[first].ok
    <3>1. PICK members \in Members(t, first) : F[first].fields = LastOfEach(members)
      BY <1>4, <1>5, <2>3
    <3>2. members \in Full
      BY <1>11, <3>1
    <3>3. \A m \in Full : LastOfEach(m) = F[first].fields
      BY <1>7, <1>10
    <3>4. Readings(t) = {F[first].fields}
      BY <2>2, <3>2, <3>3
    <3> QED
      BY <2>1, <2>3, <3>4 DEF parsed
  <2>4. CASE ~F[first].ok
    <3>1. Full = {}
      BY <1>7, <1>10, <2>4
    <3>2. Readings(t) = {}
      BY <2>2, <3>1
    <3> QED
      BY <2>1, <2>4, <3>2 DEF parsed
  <2> QED
    BY <2>3, <2>4
<1> QED
  BY <1>14, <1>15

(* So every text that arrives is read as the grammar reads it, whatever is   *)
(* typed and however many characters.                                       *)
THEOREM WhatArrivesIsReadByGrammar == Spec => []ReadsByGrammar
<1>1. Text => ReadsByGrammar
  BY ParserReadsTheGrammar DEF Text, ReadsByGrammar
<1> QED
  BY <1>1, TextIsTyped, PTL

=============================================================================
