-------------------------- MODULE AgentHeaderProofs --------------------------
(***************************************************************************)
(* Proofs about AgentHeader, for texts and identities of any length: what  *)
(* _quote() lets through, and that parse_header() gives back what          *)
(* to_header() was given.                                                  *)
(*                                                                         *)
(* The loops of the parser are recursive functions of a position, each of  *)
(* which looks at later positions only.  Recursion says that such a        *)
(* function exists and so satisfies its equation; that an item, a member   *)
(* or a parameter ends behind its beginning (ItemAdvances and so on) is    *)
(* what makes it apply.  What the parser makes of a header follows from    *)
(* the equations, from the last part of the header to the first.           *)
(***************************************************************************)
EXTENDS AgentHeader, SequenceTheorems, WellFoundedInduction, TLAPS

-----------------------------------------------------------------------------
(* Numbers and recursion *)

LEMMA LeastMember == ASSUME NEW T \in SUBSET Nat, T # {} PROVE \E x \in T : \A y \in T : x <= y
<1>1. PICK x \in T : \A y \in T : ~(<<y, x>> \in OpToRel(<, Nat))
  BY NatLessThanWellFounded, WFMin
<1>2. \A p, q \in Nat : <<q, p>> \in OpToRel(<, Nat) <=> q < p
  BY DEF OpToRel
<1>3. ASSUME NEW y \in T
      PROVE  x <= y
  <2>1. x \in Nat /\ y \in Nat
    OBVIOUS
  <2>2. ~(y < x)
    BY <1>1, <1>2, <2>1
  <2> QED
    BY <2>1, <2>2
<1> QED
  BY <1>3

\* A set of positions that is not empty has a greatest.
LEMMA GreatestMember ==
    ASSUME NEW n \in Nat, NEW S \in SUBSET (1..n), S # {}
    PROVE  Max(S) \in S /\ \A y \in S : Max(S) >= y
<1> DEFINE T == {m \in Nat : \E x \in S : m = n - x}
<1>1. T # {}
  <2>1. PICK x \in S : TRUE
    OBVIOUS
  <2>2. n - x \in T
    BY <2>1
  <2> QED
    BY <2>2
<1>2. PICK least \in T : \A m \in T : least <= m
  BY <1>1, LeastMember
<1>3. PICK x \in S : least = n - x
  BY <1>2
<1>4. ASSUME NEW y \in S PROVE x >= y
  <2>1. n - y \in T /\ x \in 1..n /\ y \in 1..n
    OBVIOUS
  <2>2. least <= n - y
    BY <1>2, <2>1
  <2> QED
    BY <1>3, <2>1, <2>2
<1> QED
  BY <1>4 DEF Max

\* G makes a value at each position of the values at later ones.
LooksAhead(G, first, last, V) ==
    /\ first \in Nat /\ last \in Nat /\ first <= last /\ V # {}
    /\ \A j \in first..last : \A f \in [first..last -> V] : G[j][f] \in V
    /\ \A j \in first..last : \A f, g \in [first..last -> V] :
          (\A k \in (j + 1)..last : f[k] = g[k]) => G[j][f] = G[j][g]

\* Then there is a function whose values are so made: one that is right from the last position
\* on, and so for each position before.
LEMMA Recursion ==
    ASSUME NEW first, NEW last, NEW V, NEW G, LooksAhead(G, first, last, V)
    PROVE  \E f \in [first..last -> V] : \A j \in first..last : f[j] = G[j][f]
<1> USE DEF LooksAhead
<1> DEFINE D == first..last
           Right(m) == \E f \in [D -> V] : \A j \in D : j >= m => f[j] = G[j][f]
           Wrong == {n \in Nat : \E m \in first..(last + 1) : n = last + 1 - m /\ ~Right(m)}
<1>1. Right(last + 1)
  <2>1. PICK v \in V : TRUE
    OBVIOUS
  <2> DEFINE constant == [j \in D |-> v]
  <2>2. constant \in [D -> V]
    OBVIOUS
  <2>3. \A j \in D : ~(j >= last + 1)
    OBVIOUS
  <2> HIDE DEF constant, D
  <2> QED
    BY <2>2, <2>3
<1>2. ASSUME NEW m \in D, Right(m + 1) PROVE Right(m)
  <2>1. PICK f \in [D -> V] : \A j \in D : j >= m + 1 => f[j] = G[j][f]
    BY <1>2
  <2> DEFINE g == [f EXCEPT ![m] = G[m][f]]
  <2>2. g \in [D -> V] /\ g[m] = G[m][f] /\ \A j \in D : j # m => g[j] = f[j]
    OBVIOUS
  <2> HIDE DEF g
  <2>3. ASSUME NEW j \in D, j >= m PROVE g[j] = G[j][g]
    <3>1. \A k \in (j + 1)..last : f[k] = g[k]
      BY <2>2, <2>3
    <3>2. G[j][f] = G[j][g]
      BY <2>2, <3>1
    <3> QED
      BY <2>1, <2>2, <2>3, <3>2
  <2> QED
    BY <2>2, <2>3
<1> HIDE DEF Right
<1>3. ASSUME Wrong # {} PROVE FALSE
  <2>1. PICK n \in Wrong : \A k \in Wrong : n <= k
    BY <1>3, LeastMember
  <2>2. PICK m \in first..(last + 1) : n = last + 1 - m /\ ~Right(m)
    OBVIOUS
  <2>3. m # last + 1
    BY <1>1, <2>2
  <2>4. m \in D /\ m + 1 \in first..(last + 1) /\ ~Right(m + 1)
    BY <1>2, <2>2, <2>3
  <2>5. last + 1 - (m + 1) \in Nat /\ last + 1 - (m + 1) < n
    BY <2>2, <2>4
  <2>6. last + 1 - (m + 1) \in Wrong
    BY <2>4, <2>5
  <2>7. n <= last + 1 - (m + 1)
    BY <2>1, <2>6
  <2> QED
    BY <2>5, <2>7
<1>4. first \in first..(last + 1) /\ last + 1 - first \in Nat
  OBVIOUS
<1>5. Right(first)
  BY <1>3, <1>4
<1> QED
  BY <1>5 DEF Right

\* Induction from the last position to the first.
LEMMA Downwards ==
    ASSUME NEW first \in Nat, NEW last \in Nat, NEW S,
           \A j \in first..last : (\A k \in (j + 1)..last : k \in S) => j \in S
    PROVE  \A j \in first..last : j \in S
<1> DEFINE Missing == {n \in Nat : \E j \in first..last : n = last - j /\ j \notin S}
<1>1. ASSUME Missing # {} PROVE FALSE
  <2>1. PICK n \in Missing : \A m \in Missing : n <= m
    BY <1>1, LeastMember
  <2>2. PICK j \in first..last : n = last - j /\ j \notin S
    OBVIOUS
  <2>3. PICK k \in (j + 1)..last : k \notin S
    BY <2>2
  <2>4. k \in first..last /\ last - k \in Nat /\ last - k < n
    BY <2>2
  <2>5. last - k \in Missing
    BY <2>3, <2>4
  <2>6. n <= last - k
    BY <2>1, <2>5
  <2> QED
    BY <2>4, <2>6
<1>2. ASSUME NEW j \in first..last PROVE last - j \in Nat
  OBVIOUS
<1> QED
  BY <1>1, <1>2

-----------------------------------------------------------------------------
(* Characters and positions *)

\* No text has an empty character, so what peek() gives at the end is in no set of them.
LEMMA Alphabet ==
    /\ End \notin Characters
    /\ Blanks \subseteq Characters /\ Digits \subseteq Characters
    /\ KeyStarts \subseteq KeyCharacters /\ KeyCharacters \subseteq Characters
    /\ TokenCharacters \subseteq Characters /\ KeyStarts \subseteq TokenCharacters
BY StructuredFieldsAssumption
DEF Characters, Alphanumerics, Digits, Syntax, TokenMarks, Blanks, Blank, KeyStarts, KeyCharacters,
    TokenCharacters

\* What parts a header must not be taken for something else by.
LEMMA Delimiters ==
    /\ "=" \notin KeyCharacters /\ "=" \notin Blanks /\ Comma \notin Blanks
    /\ KeyStarts \cap Blanks = {}
    /\ {Quote, "=", Comma, Blank} \subseteq Characters
BY StructuredFieldsAssumption
DEF Characters, Alphanumerics, Digits, Syntax, TokenMarks, Blanks, Blank, Quote, Comma, KeyStarts,
    KeyCharacters

LEMMA PeekIs ==
    ASSUME NEW t \in Seq(Characters)
    PROVE  /\ \A i \in 1..Len(t) : Peek(t, i) = t[i] /\ t[i] \in Characters
           /\ \A i \in Nat : i \notin 1..Len(t) => Peek(t, i) = End
<1>1. DOMAIN t = 1..Len(t) /\ \A i \in 1..Len(t) : t[i] \in Characters
  OBVIOUS
<1>2. ASSUME NEW i, i \in DOMAIN t PROVE Peek(t, i) = t[i]
  BY <1>2 DEF Peek
<1>3. ASSUME NEW i, i \notin DOMAIN t PROVE Peek(t, i) = End
  BY <1>3 DEF Peek
<1> QED
  BY <1>1, <1>2, <1>3

\* Skip() finds the first position whose character is not in S.
LEMMA SkipStops ==
    ASSUME NEW t \in Seq(Characters), NEW i \in 1..(Len(t) + 1), NEW S, End \notin S
    PROVE  /\ Skip(t, i, S) \in i..(Len(t) + 1)
           /\ Peek(t, Skip(t, i, S)) \notin S
           /\ \A k \in i..(Skip(t, i, S) - 1) : Peek(t, k) \in S
<1> DEFINE Stops == {j \in i..(Len(t) + 1) : Peek(t, j) \notin S}
           Found(j) == /\ j \in i..(Len(t) + 1)
                       /\ Peek(t, j) \notin S /\ \A k \in i..(j - 1) : t[k] \in S
<1>1. Len(t) + 1 \in Stops /\ Stops \in SUBSET Nat
  BY PeekIs
<1>2. PICK j \in Stops : \A k \in Stops : j <= k
  BY <1>1, LeastMember
<1>3. ASSUME NEW k \in i..(j - 1) PROVE Peek(t, k) \in S
  <2>1. k \in i..(Len(t) + 1) /\ k \notin Stops
    BY <1>2
  <2> QED
    BY <2>1
<1>4. Found(j) /\ i # 0
  <2>1. \A k \in i..(j - 1) : k \in 1..Len(t)
    BY <1>2
  <2>2. \A k \in i..(j - 1) : t[k] \in S
    BY <1>3, <2>1, PeekIs
  <2> QED
    BY <1>2, <2>2
<1>5. Skip(t, i, S) = CHOOSE m \in i..(Len(t) + 1) :
                         Peek(t, m) \notin S /\ \A k \in i..(m - 1) : t[k] \in S
  BY <1>4 DEF Skip
<1>6. Found(Skip(t, i, S))
  BY <1>4, <1>5
<1>7. \A m \in i..(Len(t) + 1) : \A k \in i..(m - 1) : k \in 1..Len(t)
  OBVIOUS
<1> QED
  BY <1>6, <1>7, PeekIs

\* Nothing is skipped where there is nothing.
LEMMA SkipOfNothing == ASSUME NEW t, NEW S PROVE Skip(t, 0, S) = 0
BY DEF Skip

\* And no other.
StopsAt(t, i, S, j) ==
    /\ End \notin S
    /\ j \in i..(Len(t) + 1) /\ Peek(t, j) \notin S /\ \A k \in i..(j - 1) : t[k] \in S

LEMMA SkipIs ==
    ASSUME NEW t \in Seq(Characters), NEW i \in 1..(Len(t) + 1), NEW S, NEW j, StopsAt(t, i, S, j)
    PROVE  Skip(t, i, S) = j
<1> USE DEF StopsAt
<1> DEFINE m == Skip(t, i, S)
<1>1. m \in i..(Len(t) + 1) /\ Peek(t, m) \notin S /\ \A k \in i..(m - 1) : Peek(t, k) \in S
  BY SkipStops
<1> HIDE DEF m
<1>2. CASE m < j
  <2>1. m \in 1..Len(t) /\ t[m] \in S
    BY <1>1, <1>2
  <2> QED
    BY <1>1, <2>1, PeekIs
<1>3. CASE j < m
  <2>1. Peek(t, j) \in S
    BY <1>1, <1>3
  <2> QED
    BY <2>1
<1>4. m \in Nat /\ j \in Nat
  BY <1>1
<1>5. CASE m = j
  BY <1>5 DEF m
<1> QED
  BY <1>2, <1>3, <1>4, <1>5

-----------------------------------------------------------------------------
(* Strings *)

\* What _parse_string() makes of the character at j, when f is what it makes of those behind
StringAt(t, j, f) ==
    LET escaped == Peek(t, j) = Backslash
        later == IF escaped THEN f[j + 2] ELSE f[j + 1]
        c == IF escaped THEN Peek(t, j + 1) ELSE Peek(t, j)
    IN  CASE c = Quote /\ ~escaped -> Read("string", <<>>, j + 1)
          [] c # End /\ (escaped <=> c \in {Quote, Backslash}) ->
                Read("string", <<c>> \o later.value.text, later.next)
          [] OTHER -> Unreadable

Kinds == {"string", "boolean", "bytes", "number", "token", "none"}
Values == [kind : Kinds, text : Seq(Characters)]
Readouts == [next : Nat, value : Values]

LEMMA ReadTyped ==
    /\ \A kind \in Kinds, s \in Seq(Characters), next \in Nat :
          /\ Read(kind, s, next) \in Readouts
          /\ Read(kind, s, next).next = next /\ Read(kind, s, next).value.text = s
    /\ Unreadable \in Readouts /\ Unreadable.next = 0
BY DEF Read, Unreadable, Readouts, Values, Kinds

LEMMA StringTyped ==
    ASSUME NEW s \in Seq(Characters), NEW next \in Nat
    PROVE  Read("string", s, next) \in Readouts
BY DEF Read, Readouts, Values, Kinds

\* It is made of one case.
LEMMA StringCases ==
    ASSUME NEW t \in Seq(Characters), NEW j \in 1..(Len(t) + 1), NEW f
    PROVE  \/ StringAt(t, j, f) = Unreadable
           \/ StringAt(t, j, f) = Read("string", <<>>, j + 1) /\ j <= Len(t)
           \/ /\ j <= Len(t)
              /\ StringAt(t, j, f) = Read("string", <<t[j]>> \o f[j + 1].value.text, f[j + 1].next)
           \/ /\ j + 1 <= Len(t)
              /\ StringAt(t, j, f)
                    = Read("string", <<t[j + 1]>> \o f[j + 2].value.text, f[j + 2].next)
<1> DEFINE escaped == Peek(t, j) = Backslash
           later == IF escaped THEN f[j + 2] ELSE f[j + 1]
           c == IF escaped THEN Peek(t, j + 1) ELSE Peek(t, j)
           ends == c = Quote /\ ~escaped
           goesOn == c # End /\ (escaped <=> c \in {Quote, Backslash})
<1>1. StringAt(t, j, f) = CASE ends -> Read("string", <<>>, j + 1)
                            [] goesOn -> Read("string", <<c>> \o later.value.text, later.next)
                            [] OTHER -> Unreadable
  BY DEF StringAt
<1>2. ~(ends /\ goesOn)
  OBVIOUS
<1>3. Quote # End /\ Backslash # End
  BY DEF Quote, Backslash, End
<1>4. CASE ends
  <2>1. Peek(t, j) = Quote
    BY <1>4
  <2>2. j <= Len(t)
    BY <1>3, <2>1, PeekIs
  <2> HIDE DEF ends, goesOn
  <2> QED
    BY <1>1, <1>2, <1>4, <2>2
<1>5. CASE goesOn /\ escaped
  <2>1. c = Peek(t, j + 1) /\ c # End /\ later = f[j + 2] /\ j \in Nat
    BY <1>5
  <2>2. j + 1 <= Len(t) /\ c = t[j + 1]
    BY <2>1, PeekIs
  <2>3. StringAt(t, j, f) = Read("string", <<c>> \o later.value.text, later.next)
    <3> HIDE DEF ends, goesOn, c, later
    <3> QED
      BY <1>1, <1>2, <1>5
  <2> HIDE DEF c, later
  <2> QED
    BY <2>1, <2>2, <2>3
<1>6. CASE goesOn /\ ~escaped
  <2>1. c = Peek(t, j) /\ c # End /\ later = f[j + 1]
    BY <1>6
  <2>2. j <= Len(t) /\ c = t[j]
    BY <2>1, PeekIs
  <2>3. StringAt(t, j, f) = Read("string", <<c>> \o later.value.text, later.next)
    <3> HIDE DEF ends, goesOn, c, later
    <3> QED
      BY <1>1, <1>2, <1>6
  <2> HIDE DEF c, later
  <2> QED
    BY <2>1, <2>2, <2>3
<1>7. CASE ~ends /\ ~goesOn
  <2> HIDE DEF ends, goesOn
  <2> QED
    BY <1>1, <1>7
<1> HIDE DEF ends, goesOn
<1> QED
  BY <1>4, <1>5, <1>6, <1>7

\* It is typed when f is, behind j.
LEMMA StringAtTyped ==
    ASSUME NEW t \in Seq(Characters), NEW j \in 1..(Len(t) + 1), NEW f,
           \A k \in (j + 1)..(Len(t) + 1) : f[k] \in Readouts
    PROVE  StringAt(t, j, f) \in Readouts
<1> DEFINE one(k, n) == <<t[k]>> \o f[n].value.text
<1>1. ASSUME NEW k \in 1..Len(t), NEW n \in (j + 1)..(Len(t) + 1)
      PROVE  one(k, n) \in Seq(Characters) /\ f[n].next \in Nat
  <2>1. f[n].value.text \in Seq(Characters) /\ f[n].next \in Nat
    BY DEF Readouts, Values
  <2>2. t[k] \in Characters
    OBVIOUS
  <2> QED
    BY <2>1, <2>2
<1>2. <<>> \in Seq(Characters) /\ j + 1 \in Nat
  OBVIOUS
<1>3. CASE StringAt(t, j, f) = Unreadable
  BY <1>3, ReadTyped
<1>4. CASE StringAt(t, j, f) = Read("string", <<>>, j + 1)
  BY <1>2, <1>4, StringTyped
<1>5. CASE /\ j <= Len(t)
           /\ StringAt(t, j, f) = Read("string", <<t[j]>> \o f[j + 1].value.text, f[j + 1].next)
  <2>1. j \in 1..Len(t) /\ j + 1 \in (j + 1)..(Len(t) + 1)
    BY <1>5
  <2>2. one(j, j + 1) \in Seq(Characters) /\ f[j + 1].next \in Nat
    BY <1>1, <2>1
  <2> QED
    BY <1>5, <2>2, StringTyped
<1>6. CASE /\ j + 1 <= Len(t)
           /\ StringAt(t, j, f) = Read("string", <<t[j + 1]>> \o f[j + 2].value.text, f[j + 2].next)
  <2>1. j + 1 \in 1..Len(t) /\ j + 2 \in (j + 1)..(Len(t) + 1)
    BY <1>6
  <2>2. one(j + 1, j + 2) \in Seq(Characters) /\ f[j + 2].next \in Nat
    BY <1>1, <2>1
  <2> QED
    BY <1>6, <2>2, StringTyped
<1> QED
  BY <1>3, <1>4, <1>5, <1>6, StringCases

\* And depends on f there only.
LEMMA StringAtLocal ==
    ASSUME NEW t \in Seq(Characters), NEW j \in 1..(Len(t) + 1), NEW f, NEW g,
           \A k \in (j + 1)..(Len(t) + 1) : f[k] = g[k]
    PROVE  StringAt(t, j, f) = StringAt(t, j, g)
<1> DEFINE escaped == Peek(t, j) = Backslash
           later(h) == IF escaped THEN h[j + 2] ELSE h[j + 1]
           c == IF escaped THEN Peek(t, j + 1) ELSE Peek(t, j)
           ends == c = Quote /\ ~escaped
           goesOn == c # End /\ (escaped <=> c \in {Quote, Backslash})
<1>1. ASSUME NEW h
      PROVE  StringAt(t, j, h) = CASE ends -> Read("string", <<>>, j + 1)
                                   [] goesOn -> Read("string", <<c>> \o later(h).value.text, later(h).next)
                                   [] OTHER -> Unreadable
  BY DEF StringAt
<1>2. ~(ends /\ goesOn)
  OBVIOUS
<1>3. ASSUME goesOn PROVE later(f) = later(g)
  <2>1. CASE escaped
    <3>1. Peek(t, j + 1) # End
      BY <1>3, <2>1
    <3>2. j + 2 \in (j + 1)..(Len(t) + 1)
      BY <3>1, PeekIs
    <3> QED
      BY <2>1, <3>2
  <2>2. CASE ~escaped
    <3>1. Peek(t, j) # End
      BY <1>3, <2>2
    <3>2. j + 1 \in (j + 1)..(Len(t) + 1)
      BY <3>1, PeekIs
    <3> QED
      BY <2>2, <3>2
  <2> QED
    BY <2>1, <2>2
<1> HIDE DEF ends, goesOn, later
<1> QED
  BY <1>1, <1>2, <1>3

\* String() satisfies its equation.
LEMMA StringEquation ==
    ASSUME NEW t \in Seq(Characters)
    PROVE  \E F : /\ \A i : String(t, i) = F[i]
                 /\ \A j \in 1..(Len(t) + 1) : F[j] \in Readouts /\ F[j] = StringAt(t, j, F)
<1> DEFINE D == 1..(Len(t) + 1)
           Equation(f) == f = [j \in D |-> StringAt(t, j, f)]
           G == [j \in D |-> [f \in [D -> Readouts] |-> StringAt(t, j, f)]]
           F == CHOOSE f : Equation(f)
<1>1. ASSUME NEW i PROVE String(t, i) = F[i]
  BY DEF String, StringAt
<1>2. \E f \in [D -> Readouts] : \A j \in D : f[j] = G[j][f]
  <2>1. Len(t) + 1 \in Nat /\ 1 \in Nat /\ 1 <= Len(t) + 1
    OBVIOUS
  <2>2. Readouts # {}
    BY ReadTyped
  <2>3. ASSUME NEW j \in D, NEW f \in [D -> Readouts] PROVE G[j][f] \in Readouts
    <3>1. \A k \in (j + 1)..(Len(t) + 1) : f[k] \in Readouts
      OBVIOUS
    <3> QED
      BY <3>1, StringAtTyped
  <2>4. ASSUME NEW j \in D, NEW f \in [D -> Readouts], NEW g \in [D -> Readouts],
               \A k \in (j + 1)..(Len(t) + 1) : f[k] = g[k]
        PROVE  G[j][f] = G[j][g]
    <3>1. StringAt(t, j, f) = StringAt(t, j, g)
      BY <2>4, StringAtLocal
    <3> QED
      BY <3>1
  <2> HIDE DEF G
  <2>5. \A j \in D : \A f \in [D -> Readouts] : G[j][f] \in Readouts
    BY <2>3
  <2>6. \A j \in D : \A f, g \in [D -> Readouts] :
            (\A k \in (j + 1)..(Len(t) + 1) : f[k] = g[k]) => G[j][f] = G[j][g]
    BY <2>4
  <2>7. LooksAhead(G, 1, Len(t) + 1, Readouts)
    BY <2>1, <2>2, <2>5, <2>6 DEF LooksAhead
  <2> QED
    BY <2>7, Recursion
<1>3. \E f : Equation(f)
  <2>1. PICK f \in [D -> Readouts] : \A j \in D : f[j] = G[j][f]
    BY <1>2
  <2>2. \A j \in D : f[j] = StringAt(t, j, f)
    BY <2>1
  <2>3. f = [j \in D |-> f[j]]
    OBVIOUS
  <2>4. f = [j \in D |-> StringAt(t, j, f)]
    BY <2>2, <2>3
  <2> QED
    BY <2>4
<1>4. Equation(F)
  <2> HIDE DEF Equation
  <2> QED
    BY <1>3
<1> HIDE DEF F
<1>5. \A j \in D : F[j] = StringAt(t, j, F)
  BY <1>4
<1>6. \A j \in D : F[j] \in Readouts
  <2> DEFINE S == {j \in D : F[j] \in Readouts}
  <2>1. ASSUME NEW j \in D, \A k \in (j + 1)..(Len(t) + 1) : k \in S PROVE j \in S
    BY <1>5, <2>1, StringAtTyped
  <2>2. Len(t) + 1 \in Nat /\ 1 \in Nat
    OBVIOUS
  <2> HIDE DEF S
  <2>3. \A j \in D : j \in S
    BY <2>1, <2>2, Downwards
  <2> QED
    BY <2>3 DEF S
<1> QED
  BY <1>1, <1>5, <1>6

\* A string ends behind its beginning.
LEMMA StringAdvances ==
    ASSUME NEW t \in Seq(Characters), NEW i \in 1..(Len(t) + 1)
    PROVE  /\ String(t, i) \in Readouts
           /\ String(t, i).next = 0 \/ String(t, i).next \in (i + 1)..(Len(t) + 1)
<1> DEFINE D == 1..(Len(t) + 1)
<1>1. PICK F : /\ \A j : String(t, j) = F[j]
               /\ \A j \in D : F[j] \in Readouts /\ F[j] = StringAt(t, j, F)
  BY StringEquation
<1> DEFINE Ahead(j) == F[j].next = 0 \/ F[j].next \in (j + 1)..(Len(t) + 1)
           S == {j \in D : Ahead(j)}
<1>2. ASSUME NEW j \in D, \A k \in (j + 1)..(Len(t) + 1) : k \in S
      PROVE  j \in S
  <2>1. \A k \in (j + 1)..(Len(t) + 1) : F[k].next = 0 \/ F[k].next \in (k + 1)..(Len(t) + 1)
    BY <1>2
  <2>2. F[j] = StringAt(t, j, F)
    BY <1>1
  <2>3. \A s, next : Read("string", s, next).next = next
    BY DEF Read
  <2>4. CASE F[j] = Unreadable
    BY <2>4, ReadTyped
  <2>5. CASE F[j] = Read("string", <<>>, j + 1) /\ j <= Len(t)
    BY <2>3, <2>5
  <2>6. CASE j <= Len(t) /\ F[j] = Read("string", <<t[j]>> \o F[j + 1].value.text, F[j + 1].next)
    <3>1. F[j].next = F[j + 1].next /\ j + 1 \in (j + 1)..(Len(t) + 1)
      BY <2>3, <2>6
    <3> QED
      BY <2>1, <3>1
  <2>7. CASE j + 1 <= Len(t) /\ F[j] = Read("string", <<t[j + 1]>> \o F[j + 2].value.text, F[j + 2].next)
    <3>1. F[j].next = F[j + 2].next /\ j + 2 \in (j + 1)..(Len(t) + 1)
      BY <2>3, <2>7
    <3> QED
      BY <2>1, <3>1
  <2> QED
    BY <2>2, <2>4, <2>5, <2>6, <2>7, StringCases
<1>3. Len(t) + 1 \in Nat /\ 1 \in Nat
  OBVIOUS
<1> HIDE DEF S
<1>4. \A j \in D : j \in S
  BY <1>2, <1>3, Downwards
<1>5. Ahead(i)
  BY <1>4 DEF S
<1> QED
  BY <1>1, <1>5

\* A character that has no part to play is one of the string, a quote ends it.
LEMMA StringSteps ==
    ASSUME NEW t \in Seq(Characters), NEW j \in 1..Len(t), NEW f, t[j] # Backslash
    PROVE  StringAt(t, j, f) = IF t[j] = Quote THEN Read("string", <<>>, j + 1)
                               ELSE Read("string", <<t[j]>> \o f[j + 1].value.text, f[j + 1].next)
<1>1. Peek(t, j) = t[j] /\ t[j] # End
  BY PeekIs, Alphabet
<1>2. CASE t[j] = Quote
  BY <1>1, <1>2 DEF StringAt
<1>3. CASE t[j] # Quote
  BY <1>1, <1>3 DEF StringAt
<1> QED
  BY <1>2, <1>3

LEMMA SubSeqFrom ==
    ASSUME NEW t \in Seq(Characters), NEW j \in 1..Len(t), NEW e \in j..Len(t)
    PROVE  <<t[j]>> \o SubSeq(t, j + 1, e) = SubSeq(t, j, e)
<1>1. SubSeq(t, j + 1, e) = [k \in 1..(e - j) |-> t[j + k]]
  OBVIOUS
<1>2. SubSeq(t, j, e) = [k \in 1..(e - j + 1) |-> t[j + k - 1]]
  OBVIOUS
<1> QED
  BY <1>1, <1>2

\* A string without quotes and backslashes is read up to the quote behind it.
LEMMA StringIsRead ==
    ASSUME NEW t \in Seq(Characters), NEW i \in 1..Len(t), NEW e \in i..Len(t),
           t[e] = Quote, \A k \in i..(e - 1) : t[k] \notin {Quote, Backslash}
    PROVE  String(t, i) = Read("string", SubSeq(t, i, e - 1), e + 1)
<1>1. PICK F : /\ \A j : String(t, j) = F[j]
               /\ \A j \in 1..(Len(t) + 1) : F[j] \in Readouts /\ F[j] = StringAt(t, j, F)
  BY StringEquation
<1> DEFINE S == {j \in i..e : F[j] = Read("string", SubSeq(t, j, e - 1), e + 1)}
<1>2. ASSUME NEW j \in i..e, \A k \in (j + 1)..e : k \in S
      PROVE  j \in S
  <2>1. j \in 1..Len(t) /\ F[j] = StringAt(t, j, F)
    BY <1>1
  <2>2. CASE j = e
    <3>1. t[j] = Quote /\ t[j] # Backslash
      BY <2>2 DEF Quote, Backslash
    <3>2. F[j] = Read("string", <<>>, j + 1)
      BY <2>1, <3>1, StringSteps
    <3>3. SubSeq(t, j, e - 1) = <<>>
      BY <2>2
    <3> QED
      BY <2>2, <3>2, <3>3
  <2>3. CASE j < e
    <3>1. t[j] # Quote /\ t[j] # Backslash /\ j + 1 \in S
      BY <1>2, <2>3
    <3>2. F[j] = Read("string", <<t[j]>> \o F[j + 1].value.text, F[j + 1].next)
      BY <2>1, <3>1, StringSteps
    <3>3. F[j + 1].value.text = SubSeq(t, j + 1, e - 1) /\ F[j + 1].next = e + 1
      BY <3>1 DEF Read
    <3>4. <<t[j]>> \o SubSeq(t, j + 1, e - 1) = SubSeq(t, j, e - 1)
      BY <2>1, <2>3, SubSeqFrom
    <3> QED
      BY <3>2, <3>3, <3>4
  <2> QED
    BY <2>2, <2>3
<1>3. i \in Nat /\ e \in Nat /\ i \in i..e
  OBVIOUS
<1> HIDE DEF S
<1>4. \A j \in i..e : j \in S
  BY <1>2, <1>3, Downwards
<1> QED
  BY <1>1, <1>3, <1>4 DEF S

-----------------------------------------------------------------------------
(* Items and members end behind their beginning *)

LEMMA PartOf ==
    ASSUME NEW t \in Seq(Characters), NEW i \in Nat \ {0}, NEW j \in Int, j <= Len(t)
    PROVE  SubSeq(t, i, j) \in Seq(Characters)
<1>1. \A k \in i..j : t[k] \in Characters
  OBVIOUS
<1> QED
  BY <1>1, SubSeqProperties

LEMMA KeyAdvances ==
    ASSUME NEW t \in Seq(Characters), NEW i \in 1..(Len(t) + 1)
    PROVE  KeyEnd(t, i) = 0 \/ KeyEnd(t, i) \in (i + 1)..(Len(t) + 1)
<1> DEFINE end == Skip(t, i, KeyCharacters)
<1>1. CASE Peek(t, i) \notin KeyStarts
  BY <1>1 DEF KeyEnd
<1>2. CASE Peek(t, i) \in KeyStarts
  <2>1. End \notin KeyCharacters /\ Peek(t, i) \in KeyCharacters
    BY <1>2, Alphabet
  <2>2. end \in i..(Len(t) + 1) /\ Peek(t, end) \notin KeyCharacters
    BY <2>1, SkipStops
  <2>3. end # i
    BY <2>1, <2>2
  <2>4. KeyEnd(t, i) = end
    BY <1>2 DEF KeyEnd
  <2> HIDE DEF end
  <2> QED
    BY <2>2, <2>3, <2>4
<1> QED
  BY <1>1, <1>2

LEMMA NumberAdvances ==
    ASSUME NEW t \in Seq(Characters), NEW i \in 1..Len(t)
    PROVE  NumberEnd(t, i) = 0 \/ NumberEnd(t, i) \in (i + 1)..(Len(t) + 1)
<1> DEFINE digits == IF Peek(t, i) = "-" THEN i + 1 ELSE i
           point == Skip(t, digits, Digits)
           end == Skip(t, point + 1, Digits)
           whole == point > digits /\ Peek(t, point) # "."
           broken == point > digits /\ Peek(t, point) = "." /\ end > point + 1
<1>1. NumberEnd(t, i) = CASE whole -> point [] broken -> end [] OTHER -> 0
  BY DEF NumberEnd
<1>2. ~(whole /\ broken)
  OBVIOUS
<1>3. End \notin Digits
  BY Alphabet
<1>4. digits \in 1..(Len(t) + 1) /\ digits >= i
  OBVIOUS
<1>5. point \in digits..(Len(t) + 1)
  <2> HIDE DEF digits
  <2> QED
    BY <1>3, <1>4, SkipStops
<1>6. CASE whole
  <2>1. NumberEnd(t, i) = point
    <3> HIDE DEF whole, broken, point, end
    <3> QED
      BY <1>1, <1>2, <1>6
  <2> HIDE DEF digits, end
  <2> QED
    BY <1>4, <1>5, <1>6, <2>1
<1>7. CASE broken
  <2>1. NumberEnd(t, i) = end
    <3> HIDE DEF whole, broken, point, end
    <3> QED
      BY <1>1, <1>2, <1>7
  <2>2. Peek(t, point) # End
    BY <1>7 DEF End
  <2> HIDE DEF digits, point
  <2>3. point \in 1..Len(t) /\ point >= i
    BY <1>4, <1>5, <2>2, PeekIs
  <2>4. end \in (point + 1)..(Len(t) + 1)
    BY <1>3, <2>3, SkipStops
  <2> HIDE DEF end
  <2> QED
    BY <2>1, <2>3, <2>4
<1>8. CASE ~whole /\ ~broken
  <2> HIDE DEF whole, broken, point, end
  <2> QED
    BY <1>1, <1>8
<1> QED
  BY <1>6, <1>7, <1>8

\* What parse_item() goes by: the first character of an item decides its kind.
LEMMA FirstCharacters ==
    /\ Quote \notin {"?", ":"} \cup Digits \cup {"-"} \cup KeyStarts
    /\ "?" \notin {":"} \cup Digits \cup {"-"} \cup KeyStarts
    /\ ":" \notin Digits \cup {"-"} \cup KeyStarts
    /\ (Digits \cup {"-"}) \cap KeyStarts = {}
    /\ End \notin {Quote, "?", ":"} \cup Digits \cup {"-"} \cup KeyStarts
    /\ {"0", "1"} \subseteq Characters
BY StructuredFieldsAssumption
DEF Characters, Alphanumerics, Digits, Syntax, TokenMarks, KeyStarts, Quote, End

\* What parse_item() makes of each first character
LEMMA ItemIs ==
    ASSUME NEW t, NEW i, NEW colon, NEW token, NEW number,
           colon = Skip(t, i + 1, Characters \ {":"}), token = Skip(t, i, TokenCharacters),
           number = NumberEnd(t, i)
    PROVE  /\ Peek(t, i) = Quote => Item(t, i) = String(t, i + 1)
           /\ Peek(t, i) = "?" =>
                 Item(t, i) = IF Peek(t, i + 1) \in {"0", "1"}
                              THEN Read("boolean", <<t[i + 1]>>, i + 2) ELSE Unreadable
           /\ Peek(t, i) = ":" =>
                 Item(t, i) = IF colon <= Len(t) /\ Decodes(SubSeq(t, i + 1, colon - 1))
                              THEN Read("bytes", SubSeq(t, i + 1, colon - 1), colon + 1) ELSE Unreadable
           /\ Peek(t, i) \in Digits \cup {"-"} =>
                 Item(t, i) = IF number # 0 /\ Converts(SubSeq(t, i, number - 1))
                              THEN Read("number", SubSeq(t, i, number - 1), number) ELSE Unreadable
           /\ Peek(t, i) \in KeyStarts => Item(t, i) = Read("token", SubSeq(t, i, token - 1), token)
           /\ Peek(t, i) \notin {Quote, "?", ":"} \cup Digits \cup {"-"} \cup KeyStarts =>
                 Item(t, i) = Unreadable
<1> DEFINE c == Peek(t, i)
           boolean == IF Peek(t, i + 1) \in {"0", "1"}
                      THEN Read("boolean", <<t[i + 1]>>, i + 2) ELSE Unreadable
           bytes == IF colon <= Len(t) /\ Decodes(SubSeq(t, i + 1, colon - 1))
                    THEN Read("bytes", SubSeq(t, i + 1, colon - 1), colon + 1) ELSE Unreadable
           numeral == IF number # 0 /\ Converts(SubSeq(t, i, number - 1))
                      THEN Read("number", SubSeq(t, i, number - 1), number) ELSE Unreadable
           word == Read("token", SubSeq(t, i, token - 1), token)
           quoted == c = Quote
           question == c = "?"
           colonAt == c = ":"
           digit == c \in Digits \cup {"-"}
           letter == c \in KeyStarts
<1>1. /\ ~(quoted /\ (question \/ colonAt \/ digit \/ letter))
      /\ ~(question /\ (colonAt \/ digit \/ letter))
      /\ ~(colonAt /\ (digit \/ letter)) /\ ~(digit /\ letter)
  BY FirstCharacters
<1>2. Item(t, i) = CASE quoted -> String(t, i + 1)
                     [] question -> boolean
                     [] colonAt -> bytes
                     [] digit -> numeral
                     [] letter -> word
                     [] OTHER -> Unreadable
  BY DEF Item
<1>3. c \notin {Quote, "?", ":"} \cup Digits \cup {"-"} \cup KeyStarts =>
         ~(quoted \/ question \/ colonAt \/ digit \/ letter)
  OBVIOUS
<1> HIDE DEF quoted, question, colonAt, digit, letter, boolean, bytes, numeral, word
<1>4. quoted => Item(t, i) = String(t, i + 1)
  BY <1>1, <1>2
<1>5. question => Item(t, i) = boolean
  BY <1>1, <1>2
<1>6. colonAt => Item(t, i) = bytes
  BY <1>1, <1>2
<1>7. digit => Item(t, i) = numeral
  BY <1>1, <1>2
<1>8. letter => Item(t, i) = word
  BY <1>1, <1>2
<1>9. ~(quoted \/ question \/ colonAt \/ digit \/ letter) => Item(t, i) = Unreadable
  BY <1>2
<1> QED
  BY <1>3, <1>4, <1>5, <1>6, <1>7, <1>8, <1>9
     DEF quoted, question, colonAt, digit, letter, boolean, bytes, numeral, word

LEMMA ItemAdvances ==
    ASSUME NEW t \in Seq(Characters), NEW i \in 1..(Len(t) + 1)
    PROVE  /\ Item(t, i) \in Readouts
           /\ Item(t, i).next = 0 \/ Item(t, i).next \in (i + 1)..(Len(t) + 1)
           /\ Peek(t, i) = Quote => Item(t, i) = String(t, i + 1)
<1> DEFINE c == Peek(t, i)
           colon == Skip(t, i + 1, Characters \ {":"})
           encoded == SubSeq(t, i + 1, colon - 1)
           number == NumberEnd(t, i)
           token == Skip(t, i, TokenCharacters)
           boolean == IF Peek(t, i + 1) \in {"0", "1"}
                      THEN Read("boolean", <<t[i + 1]>>, i + 2) ELSE Unreadable
           bytes == IF colon <= Len(t) /\ Decodes(encoded)
                    THEN Read("bytes", encoded, colon + 1) ELSE Unreadable
           numeral == IF number # 0 /\ Converts(SubSeq(t, i, number - 1))
                      THEN Read("number", SubSeq(t, i, number - 1), number) ELSE Unreadable
           word == Read("token", SubSeq(t, i, token - 1), token)
           Good(item) == /\ item \in Readouts
                         /\ item.next = 0 \/ item.next \in (i + 1)..(Len(t) + 1)
<1>1. i \in Nat \ {0} /\ Len(t) \in Nat
  OBVIOUS
<1>2. c # End => i \in 1..Len(t)
  BY PeekIs
<1>3. Good(Unreadable)
  BY ReadTyped
<1>4. \A kind \in Kinds, s \in Seq(Characters), next \in (i + 1)..(Len(t) + 1) : Good(Read(kind, s, next))
  BY <1>1, ReadTyped
<1>5. {"string", "boolean", "bytes", "number", "token"} \subseteq Kinds
  BY DEF Kinds
<1> HIDE DEF Good
<1>6. ASSUME c = Quote PROVE Good(String(t, i + 1))
  <2>1. i + 1 \in 1..(Len(t) + 1)
    BY <1>2, <1>6, FirstCharacters
  <2> QED
    BY <1>1, <2>1, StringAdvances DEF Good
<1>7. ASSUME c = "?" PROVE Good(boolean)
  <2>1. CASE Peek(t, i + 1) \in {"0", "1"}
    <3>1. Peek(t, i + 1) # End
      BY <2>1 DEF End
    <3>2. i + 1 \in 1..Len(t)
      BY <1>1, <3>1, PeekIs
    <3>3. <<t[i + 1]>> \in Seq(Characters) /\ i + 2 \in (i + 1)..(Len(t) + 1)
      BY <1>1, <3>2
    <3> QED
      BY <1>4, <1>5, <2>1, <3>3
  <2> QED
    BY <1>3, <2>1
<1>8. ASSUME c = ":" PROVE Good(bytes)
  <2>1. i + 1 \in 1..(Len(t) + 1) /\ End \notin Characters \ {":"}
    BY <1>2, <1>8, FirstCharacters, Alphabet
  <2>2. colon \in (i + 1)..(Len(t) + 1)
    BY <2>1, SkipStops
  <2> HIDE DEF colon
  <2>3. CASE colon <= Len(t)
    <3>1. encoded \in Seq(Characters) /\ colon + 1 \in (i + 1)..(Len(t) + 1)
      BY <1>1, <2>2, <2>3, PartOf
    <3> HIDE DEF encoded
    <3> QED
      BY <1>3, <1>4, <1>5, <3>1
  <2> QED
    BY <1>3, <2>3
<1>9. ASSUME c \in Digits \cup {"-"} PROVE Good(numeral)
  <2>1. i \in 1..Len(t)
    BY <1>2, <1>9, FirstCharacters
  <2>2. number = 0 \/ number \in (i + 1)..(Len(t) + 1)
    BY <2>1, NumberAdvances
  <2> HIDE DEF number
  <2>3. CASE number # 0
    <3>1. SubSeq(t, i, number - 1) \in Seq(Characters)
      BY <1>1, <2>2, <2>3, PartOf
    <3> DEFINE digits == SubSeq(t, i, number - 1)
    <3>2. Good(Read("number", digits, number))
      <4> HIDE DEF digits
      <4> QED
        BY <1>4, <1>5, <2>2, <2>3, <3>1 DEF digits
    <3> HIDE DEF digits
    <3> QED
      BY <1>3, <3>2 DEF digits
  <2> QED
    BY <1>3, <2>3
<1>10. ASSUME c \in KeyStarts PROVE Good(word)
  <2>1. End \notin TokenCharacters /\ c \in TokenCharacters
    BY <1>10, Alphabet
  <2>2. token \in i..(Len(t) + 1) /\ Peek(t, token) \notin TokenCharacters
    BY <2>1, SkipStops
  <2>3. token # i
    BY <2>1, <2>2
  <2> HIDE DEF token, c
  <2>4. token \in (i + 1)..(Len(t) + 1)
    BY <2>2, <2>3
  <2>5. SubSeq(t, i, token - 1) \in Seq(Characters)
    BY <1>1, <2>4, PartOf
  <2> QED
    BY <1>4, <1>5, <2>4, <2>5
<1>11. /\ c = Quote => Item(t, i) = String(t, i + 1)
       /\ c = "?" => Item(t, i) = boolean
       /\ c = ":" => Item(t, i) = bytes
       /\ c \in Digits \cup {"-"} => Item(t, i) = numeral
       /\ c \in KeyStarts => Item(t, i) = word
       /\ c \notin {Quote, "?", ":"} \cup Digits \cup {"-"} \cup KeyStarts => Item(t, i) = Unreadable
  BY ItemIs
<1> HIDE DEF c, boolean, bytes, numeral, word
<1>12. Good(Item(t, i))
  BY <1>3, <1>6, <1>7, <1>8, <1>9, <1>10, <1>11
<1> QED
  BY <1>11, <1>12 DEF Good, c

\* What an assignment is read as
Pairs == [key : Seq(Characters), next : Nat, value : Values]

LEMMA AssignmentAdvances ==
    ASSUME NEW t \in Seq(Characters), NEW i \in 1..(Len(t) + 1)
    PROVE  /\ Assignment(t, i) \in Pairs
           /\ Assignment(t, i).next = 0 \/ Assignment(t, i).next \in (i + 1)..(Len(t) + 1)
<1> DEFINE key == KeyEnd(t, i)
           equals == Skip(t, key, Blanks)
           assigned == key # 0 /\ Peek(t, equals) = "="
           alone == [next |-> equals, value |-> True]
           item == CASE key = 0 -> Unreadable [] assigned -> Item(t, equals + 1) [] OTHER -> alone
           Good(read) == /\ read.value \in Values
                         /\ read.next = 0 \/ read.next \in (i + 1)..(Len(t) + 1)
<1>1. Assignment(t, i) = [key |-> SubSeq(t, i, key - 1), next |-> item.next, value |-> item.value]
  BY DEF Assignment, Assigned
<1>2. i \in Nat \ {0} /\ Len(t) \in Nat
  OBVIOUS
<1>3. key = 0 \/ key \in (i + 1)..(Len(t) + 1)
  BY KeyAdvances
<1>4. SubSeq(t, i, key - 1) \in Seq(Characters)
  <2> HIDE DEF key
  <2> QED
    BY <1>2, <1>3, PartOf
<1>5. Good(Unreadable)
  BY ReadTyped DEF Readouts
<1>6. ASSUME key # 0 PROVE equals \in key..(Len(t) + 1)
  <2>1. key \in 1..(Len(t) + 1) /\ End \notin Blanks
    BY <1>2, <1>3, <1>6, Alphabet
  <2> HIDE DEF key
  <2> QED
    BY <2>1, SkipStops
<1>7. ASSUME assigned PROVE Good(Item(t, equals + 1))
  <2>1. Peek(t, equals) # End
    BY <1>7 DEF End
  <2> HIDE DEF key
  <2>2. key # 0 /\ equals \in key..(Len(t) + 1)
    BY <1>6, <1>7
  <2> HIDE DEF equals
  <2>3. equals + 1 \in 1..(Len(t) + 1) /\ equals > i /\ equals \in Nat
    BY <1>2, <1>3, <2>1, <2>2, PeekIs
  <2>4. Item(t, equals + 1).value \in Values
    BY <2>3, ItemAdvances DEF Readouts
  <2> DEFINE next == Item(t, equals + 1).next
  <2>5. next = 0 \/ next \in (equals + 1 + 1)..(Len(t) + 1)
    BY <2>3, ItemAdvances
  <2> HIDE DEF next
  <2>6. next = 0 \/ next \in (i + 1)..(Len(t) + 1)
    BY <1>2, <2>3, <2>5
  <2> QED
    BY <2>4, <2>6 DEF next
<1>8. ASSUME key # 0 PROVE Good(alone)
  <2>1. True \in Values
    BY FirstCharacters DEF True, Values, Kinds
  <2>2. alone.value = True /\ alone.next = equals
    OBVIOUS
  <2> HIDE DEF key, equals
  <2>3. equals \in (i + 1)..(Len(t) + 1)
    BY <1>2, <1>3, <1>6, <1>8
  <2> HIDE DEF alone
  <2> QED
    BY <2>1, <2>2, <2>3
<1>9. item = IF key = 0 THEN Unreadable ELSE IF assigned THEN Item(t, equals + 1) ELSE alone
  <2> HIDE DEF key, equals, alone
  <2> QED
    OBVIOUS
<1> HIDE DEF key, equals, alone, item, assigned
<1>10. Good(item)
  <2> HIDE DEF Good
  <2> QED
    BY <1>5, <1>7, <1>8, <1>9
<1>11. item.next \in Nat /\ item.value \in Values
  BY <1>10, <1>2
<1> QED
  BY <1>1, <1>4, <1>10, <1>11 DEF Pairs

-----------------------------------------------------------------------------
(* Parameters *)

\* What _skip_parameters() makes of the position j, when f is what it makes of those behind
ParametersAt(t, j, f) ==
    IF Peek(t, j) # Semicolon THEN j
    ELSE LET parameter == Assignment(t, Skip(t, j + 1, Blanks))
         IN  IF parameter.next = 0 THEN 0 ELSE f[Skip(t, parameter.next, Blanks)]

\* It looks at one position behind j, if any.
LEMMA ParametersCases ==
    ASSUME NEW t \in Seq(Characters), NEW j \in 0..(Len(t) + 1), Peek(t, j) = Semicolon
    PROVE  \/ \A f : ParametersAt(t, j, f) = 0
           \/ \E k \in (j + 1)..(Len(t) + 1) : \A f : ParametersAt(t, j, f) = f[k]
<1> DEFINE begin == Skip(t, j + 1, Blanks)
           parameter == Assignment(t, begin)
           behind == Skip(t, parameter.next, Blanks)
<1>1. ASSUME NEW f PROVE ParametersAt(t, j, f) = IF parameter.next = 0 THEN 0 ELSE f[behind]
  BY DEF ParametersAt
<1>2. End \notin Blanks /\ Semicolon # End
  BY Alphabet DEF Semicolon, End
<1>3. j + 1 \in 1..(Len(t) + 1)
  BY <1>2, PeekIs
<1>4. begin \in (j + 1)..(Len(t) + 1)
  BY <1>2, <1>3, SkipStops
<1> HIDE DEF begin
<1>5. begin \in 1..(Len(t) + 1)
  BY <1>3, <1>4
<1>6. parameter.next = 0 \/ parameter.next \in (begin + 1)..(Len(t) + 1)
  BY <1>5, AssignmentAdvances
<1> HIDE DEF parameter
<1>7. ASSUME parameter.next # 0 PROVE behind \in (j + 1)..(Len(t) + 1)
  <2>1. parameter.next \in 1..(Len(t) + 1) /\ parameter.next > j
    BY <1>3, <1>4, <1>6, <1>7
  <2>2. behind \in parameter.next..(Len(t) + 1)
    BY <1>2, <2>1, SkipStops
  <2> HIDE DEF behind
  <2> QED
    BY <2>1, <2>2
<1> HIDE DEF behind
<1> QED
  BY <1>1, <1>7

\* ParametersEnd() satisfies its equation, and is a position from i on.
LEMMA ParametersEquation ==
    ASSUME NEW t \in Seq(Characters)
    PROVE  \A i \in 0..(Len(t) + 1) :
              /\ Peek(t, i) # Semicolon => ParametersEnd(t, i) = i
              /\ ParametersEnd(t, i) = 0 \/ ParametersEnd(t, i) \in i..(Len(t) + 1)
              /\ LET parameter == Assignment(t, Skip(t, i + 1, Blanks))
                 IN  Peek(t, i) = Semicolon =>
                        ParametersEnd(t, i) =
                           IF parameter.next = 0 THEN 0
                           ELSE ParametersEnd(t, Skip(t, parameter.next, Blanks))
<1> DEFINE D == 0..(Len(t) + 1)
           Equation(f) == f = [j \in D |-> ParametersAt(t, j, f)]
           G == [j \in D |-> [f \in [D -> D] |-> ParametersAt(t, j, f)]]
           F == CHOOSE f : Equation(f)
<1>1. ASSUME NEW i PROVE ParametersEnd(t, i) = F[i]
  BY DEF ParametersEnd, ParametersAt
<1>2. 0 \in Nat /\ Len(t) + 1 \in Nat /\ 0 <= Len(t) + 1 /\ 0 \in D
  OBVIOUS
<1>3. ASSUME NEW j \in D, Peek(t, j) # Semicolon, NEW f PROVE ParametersAt(t, j, f) = j
  BY <1>3 DEF ParametersAt
<1>4. ASSUME NEW j \in D, NEW f \in [D -> D] PROVE G[j][f] \in D
  <2>1. G[j][f] = ParametersAt(t, j, f)
    OBVIOUS
  <2>2. CASE Peek(t, j) # Semicolon
    BY <1>3, <2>1, <2>2
  <2>3. CASE Peek(t, j) = Semicolon
    <3>1. CASE ParametersAt(t, j, f) = 0
      BY <1>2, <2>1, <3>1
    <3>2. CASE \E k \in (j + 1)..(Len(t) + 1) : ParametersAt(t, j, f) = f[k]
      BY <2>1, <3>2
    <3> QED
      BY <2>3, <3>1, <3>2, ParametersCases
  <2> QED
    BY <2>2, <2>3
<1>5. ASSUME NEW j \in D, NEW f \in [D -> D], NEW g \in [D -> D],
             \A k \in (j + 1)..(Len(t) + 1) : f[k] = g[k]
      PROVE  G[j][f] = G[j][g]
  <2>1. G[j][f] = ParametersAt(t, j, f) /\ G[j][g] = ParametersAt(t, j, g)
    OBVIOUS
  <2>2. CASE Peek(t, j) # Semicolon
    BY <1>3, <2>1, <2>2
  <2>3. CASE Peek(t, j) = Semicolon
    BY <1>5, <2>1, <2>3, ParametersCases
  <2> QED
    BY <2>2, <2>3
<1>6. \E f \in [D -> D] : \A j \in D : f[j] = G[j][f]
  <2> HIDE DEF G
  <2>1. \A j \in D : \A f \in [D -> D] : G[j][f] \in D
    BY <1>4
  <2>2. \A j \in D : \A f, g \in [D -> D] :
           (\A k \in (j + 1)..(Len(t) + 1) : f[k] = g[k]) => G[j][f] = G[j][g]
    BY <1>5
  <2>3. LooksAhead(G, 0, Len(t) + 1, D)
    BY <1>2, <2>1, <2>2 DEF LooksAhead
  <2> QED
    BY <2>3, Recursion
<1>7. \E f : Equation(f)
  <2>1. PICK f \in [D -> D] : \A j \in D : f[j] = G[j][f]
    BY <1>6
  <2>2. \A j \in D : f[j] = ParametersAt(t, j, f)
    BY <2>1
  <2>3. f = [j \in D |-> f[j]]
    OBVIOUS
  <2>4. f = [j \in D |-> ParametersAt(t, j, f)]
    BY <2>2, <2>3
  <2> QED
    BY <2>4
<1>8. Equation(F)
  <2> HIDE DEF Equation
  <2> QED
    BY <1>7
<1> HIDE DEF F
<1>9. \A j \in D : F[j] = ParametersAt(t, j, F)
  BY <1>8
<1> DEFINE S == {j \in D : F[j] = 0 \/ F[j] \in j..(Len(t) + 1)}
<1>10. ASSUME NEW j \in D, \A k \in (j + 1)..(Len(t) + 1) : k \in S PROVE j \in S
  <2>1. CASE Peek(t, j) # Semicolon
    BY <1>3, <1>9, <2>1
  <2>2. CASE Peek(t, j) = Semicolon
    <3>1. CASE F[j] = 0
      BY <3>1
    <3>2. CASE \E k \in (j + 1)..(Len(t) + 1) : F[j] = F[k]
      BY <1>10, <3>2
    <3> QED
      BY <1>9, <2>2, <3>1, <3>2, ParametersCases
  <2> QED
    BY <2>1, <2>2
<1> HIDE DEF S
<1>11. \A j \in D : j \in S
  BY <1>2, <1>10, Downwards
<1>12. ASSUME NEW i \in D, Peek(t, i) = Semicolon,
              NEW parameter, parameter = Assignment(t, Skip(t, i + 1, Blanks))
       PROVE  ParametersEnd(t, i) = IF parameter.next = 0 THEN 0
                                    ELSE ParametersEnd(t, Skip(t, parameter.next, Blanks))
  <2>1. ParametersAt(t, i, F) = IF parameter.next = 0 THEN 0 ELSE F[Skip(t, parameter.next, Blanks)]
    BY <1>12 DEF ParametersAt
  <2> QED
    BY <1>1, <1>9, <2>1
<1>13. \A i \in D : Peek(t, i) # Semicolon => ParametersEnd(t, i) = i
  BY <1>1, <1>3, <1>9
<1>14. \A i \in D : ParametersEnd(t, i) = 0 \/ ParametersEnd(t, i) \in i..(Len(t) + 1)
  BY <1>1, <1>11 DEF S
<1> QED
  BY <1>12, <1>13, <1>14

-----------------------------------------------------------------------------
(* Dictionaries *)

Fields == UNION {[K -> Values] : K \in SUBSET Seq(Characters)}
Parsed == [ok : BOOLEAN, fields : Fields]

LEMMA BeforeTyped ==
    /\ <<>> \in Fields
    /\ \A member \in Pairs, fields \in Fields : Before(member, fields) \in Fields
<1>1. <<>> \in Fields
  <2>1. <<>> \in [{} -> Values]
    OBVIOUS
  <2>2. {} \in SUBSET Seq(Characters)
    OBVIOUS
  <2> QED
    BY <2>1, <2>2 DEF Fields
<1>2. ASSUME NEW member \in Pairs, NEW fields \in Fields PROVE Before(member, fields) \in Fields
  <2>1. PICK K \in SUBSET Seq(Characters) : fields \in [K -> Values]
    BY DEF Fields
  <2>2. {member.key} \cup K \in SUBSET Seq(Characters) /\ member.value \in Values
    BY DEF Pairs
  <2>3. Before(member, fields) \in [{member.key} \cup K -> Values]
    BY <2>1, <2>2 DEF Before
  <2> QED
    BY <2>2, <2>3 DEF Fields
<1> QED
  BY <1>1, <1>2

\* What parse_sf_dictionary() makes of the members from i on, when f is what it makes of those
\* from a later position on
DictionaryAt(t, i, f) ==
    LET member == Assignment(t, i)
        end == Skip(t, ParametersEnd(t, member.next), Blanks)
        next == Skip(t, end + 1, Blanks)
        later == f[next]
    IN  CASE end > Len(t) -> Dictionary(Before(member, <<>>))
          [] Peek(t, end) = Comma /\ next <= Len(t) /\ later.ok ->
               Dictionary(Before(member, later.fields))
          [] OTHER -> Malformed

\* It is malformed, the last member, or one before what is at a later position.
DictionaryCase(t, i) ==
    \/ \A f : DictionaryAt(t, i, f) = Malformed
    \/ \A f : DictionaryAt(t, i, f)
                 = Dictionary(Before(Assignment(t, i), <<>>))
    \/ \E next \in (i + 1)..(Len(t) + 1) : \A f :
          DictionaryAt(t, i, f) =
             IF f[next].ok
             THEN Dictionary(Before(Assignment(t, i), f[next].fields))
             ELSE Malformed

LEMMA DictionaryCases ==
    ASSUME NEW t \in Seq(Characters), NEW i \in 1..(Len(t) + 1)
    PROVE  DictionaryCase(t, i)
<1> DEFINE member == Assignment(t, i)
           parameters == ParametersEnd(t, member.next)
           end == Skip(t, parameters, Blanks)
           next == Skip(t, end + 1, Blanks)
           last == end > Len(t)
           goesOn == Peek(t, end) = Comma /\ next <= Len(t)
           alone == Dictionary(Before(member, <<>>))
           more(later) == Dictionary(Before(member, later.fields))
<1>1. ASSUME NEW f
      PROVE  DictionaryAt(t, i, f) = CASE last -> alone
                                       [] goesOn /\ f[next].ok -> more(f[next])
                                       [] OTHER -> Malformed
  BY DEF DictionaryAt
<1>2. End \notin Blanks /\ Comma # End /\ End # Semicolon
  BY Alphabet DEF Comma, End, Semicolon
<1>3. ASSUME end # 0 PROVE end \in (i + 1)..(Len(t) + 1)
  <2>1. member.next = 0 \/ member.next \in (i + 1)..(Len(t) + 1)
    BY AssignmentAdvances
  <2> HIDE DEF member
  <2>2. member.next \in 0..(Len(t) + 1)
    BY <2>1
  <2>3. Peek(t, 0) = End
    BY PeekIs
  <2>4. parameters # 0
    BY <1>2, <1>3, SkipOfNothing
  <2>5. member.next # 0
    BY <1>2, <2>2, <2>3, <2>4, ParametersEquation
  <2>6. parameters = 0 \/ parameters \in member.next..(Len(t) + 1)
    BY <2>2, ParametersEquation
  <2> HIDE DEF parameters
  <2>7. parameters \in (i + 1)..(Len(t) + 1) /\ parameters \in 1..(Len(t) + 1)
    BY <2>1, <2>4, <2>5, <2>6
  <2>8. end \in parameters..(Len(t) + 1)
    BY <1>2, <2>7, SkipStops
  <2> HIDE DEF end
  <2> QED
    BY <2>7, <2>8
<1>4. ASSUME goesOn PROVE ~last /\ next \in (i + 1)..(Len(t) + 1)
  <2>1. Peek(t, end) # End
    BY <1>2, <1>4
  <2> HIDE DEF end
  <2>2. end \in (i + 1)..(Len(t) + 1)
    BY <1>3, <2>1, PeekIs
  <2>3. end + 1 \in 1..(Len(t) + 1) /\ end \in 1..Len(t) /\ end \in (i + 1)..(Len(t) + 1)
    BY <2>1, <2>2, PeekIs
  <2>4. next \in (end + 1)..(Len(t) + 1)
    BY <1>2, <2>3, SkipStops
  <2>5. ~last
    BY <2>3
  <2> HIDE DEF next
  <2> QED
    BY <2>3, <2>4, <2>5
<1> HIDE DEF last, goesOn, next
<1>5. CASE last
  <2>1. ~goesOn
    BY <1>4, <1>5
  <2>2. \A f : DictionaryAt(t, i, f) = alone
    <3> HIDE DEF alone, more
    <3> QED
      BY <1>1, <1>5, <2>1
  <2> QED
    BY <2>2 DEF DictionaryCase
<1>6. CASE goesOn
  <2>1. \A f : DictionaryAt(t, i, f) = IF f[next].ok THEN more(f[next]) ELSE Malformed
    <3> HIDE DEF alone, more
    <3> QED
      BY <1>1, <1>4, <1>6
  <2> QED
    BY <1>4, <1>6, <2>1 DEF DictionaryCase
<1>7. CASE ~last /\ ~goesOn
  <2>1. \A f : DictionaryAt(t, i, f) = Malformed
    <3> HIDE DEF alone, more
    <3> QED
      BY <1>1, <1>7
  <2> QED
    BY <2>1 DEF DictionaryCase
<1> QED
  BY <1>5, <1>6, <1>7

\* The loop of parse_sf_dictionary() satisfies its equation.
LEMMA DictionaryEquation ==
    ASSUME NEW t \in Seq(Characters)
    PROVE  \E F : /\ LET first == Skip(t, 1, Blanks)
                     IN  ParseDictionary(t) = IF first > Len(t) THEN Dictionary(<<>>) ELSE F[first]
                  /\ \A i \in 1..(Len(t) + 1) : F[i] = DictionaryAt(t, i, F)
                  /\ \A i \in 1..(Len(t) + 1) : F[i] \in Parsed
<1> DEFINE D == 1..(Len(t) + 1)
           Equation(f) == f = [i \in D |-> DictionaryAt(t, i, f)]
           G == [i \in D |-> [f \in [D -> Parsed] |-> DictionaryAt(t, i, f)]]
           F == CHOOSE f : Equation(f)
<1>1. LET first == Skip(t, 1, Blanks)
      IN  ParseDictionary(t) = IF first > Len(t) THEN Dictionary(<<>>) ELSE F[first]
  BY DEF ParseDictionary, DictionaryAt
<1>2. 1 \in Nat /\ Len(t) + 1 \in Nat /\ 1 <= Len(t) + 1
  OBVIOUS
<1>3. Malformed \in Parsed /\ \A fields \in Fields : Dictionary(fields) \in Parsed
  BY BeforeTyped DEF Malformed, Dictionary, Parsed
<1>4. ASSUME NEW i \in D, NEW f, \A next \in (i + 1)..(Len(t) + 1) : f[next] \in Parsed
      PROVE  DictionaryAt(t, i, f) \in Parsed
  <2>1. Assignment(t, i) \in Pairs
    BY AssignmentAdvances
  <2>2. \A next \in (i + 1)..(Len(t) + 1) : f[next].fields \in Fields
    BY <1>4 DEF Parsed
  <2> QED
    BY <1>3, <2>1, <2>2, BeforeTyped, DictionaryCases DEF DictionaryCase
<1>5. ASSUME NEW i \in D, NEW f \in [D -> Parsed], NEW g \in [D -> Parsed],
             \A k \in (i + 1)..(Len(t) + 1) : f[k] = g[k]
      PROVE  G[i][f] = G[i][g]
  <2>1. G[i][f] = DictionaryAt(t, i, f) /\ G[i][g] = DictionaryAt(t, i, g)
    OBVIOUS
  <2> QED
    BY <1>5, <2>1, DictionaryCases DEF DictionaryCase
<1>6. \E f \in [D -> Parsed] : \A i \in D : f[i] = G[i][f]
  <2>1. ASSUME NEW i \in D, NEW f \in [D -> Parsed] PROVE G[i][f] \in Parsed
    <3>1. \A next \in (i + 1)..(Len(t) + 1) : f[next] \in Parsed
      OBVIOUS
    <3>2. G[i][f] = DictionaryAt(t, i, f)
      OBVIOUS
    <3> QED
      BY <1>4, <3>1, <3>2
  <2> HIDE DEF G
  <2>2. \A i \in D : \A f, g \in [D -> Parsed] :
           (\A k \in (i + 1)..(Len(t) + 1) : f[k] = g[k]) => G[i][f] = G[i][g]
    BY <1>5
  <2>3. \A i \in D : \A f \in [D -> Parsed] : G[i][f] \in Parsed
    BY <2>1
  <2>4. LooksAhead(G, 1, Len(t) + 1, Parsed)
    BY <1>2, <1>3, <2>2, <2>3 DEF LooksAhead
  <2> QED
    BY <2>4, Recursion
<1>7. \E f : Equation(f)
  <2>1. PICK f \in [D -> Parsed] : \A i \in D : f[i] = G[i][f]
    BY <1>6
  <2>2. \A i \in D : f[i] = DictionaryAt(t, i, f)
    BY <2>1
  <2>3. f = [i \in D |-> f[i]]
    OBVIOUS
  <2>4. f = [i \in D |-> DictionaryAt(t, i, f)]
    BY <2>2, <2>3
  <2> QED
    BY <2>4
<1>8. Equation(F)
  <2> HIDE DEF Equation
  <2> QED
    BY <1>7
<1> HIDE DEF F
<1>9. \A i \in D : F[i] = DictionaryAt(t, i, F)
  BY <1>8
<1>10. \A i \in D : F[i] \in Parsed
  <2> DEFINE S == {i \in D : F[i] \in Parsed}
  <2>1. ASSUME NEW i \in D, \A k \in (i + 1)..(Len(t) + 1) : k \in S PROVE i \in S
    BY <1>4, <1>9, <2>1
  <2> HIDE DEF S
  <2>2. \A i \in D : i \in S
    BY <1>2, <2>1, Downwards
  <2> QED
    BY <2>2 DEF S
<1> QED
  BY <1>1, <1>9, <1>10

(* Whatever text arrives, and however long it is, parse_sf_dictionary() ends *)
(* and makes of it either an error or a dictionary of items: each of its    *)
(* loops goes on behind the place where it was, and none of them needs a    *)
(* character that is not there.                                             *)
THEOREM EveryTextIsParsed == ASSUME NEW t \in Seq(Characters) PROVE ParseDictionary(t) \in Parsed
<1> DEFINE first == Skip(t, 1, Blanks)
<1>1. first \in 1..(Len(t) + 1)
  BY Alphabet, SkipStops
<1>2. PICK F : /\ LET begin == Skip(t, 1, Blanks)
                  IN  ParseDictionary(t) = IF begin > Len(t) THEN Dictionary(<<>>) ELSE F[begin]
               /\ \A i \in 1..(Len(t) + 1) : F[i] \in Parsed
  BY DictionaryEquation
<1>3. Dictionary(<<>>) \in Parsed
  BY BeforeTyped DEF Dictionary, Parsed
<1>4. ParseDictionary(t) = IF first > Len(t) THEN Dictionary(<<>>) ELSE F[first]
  BY <1>2
<1> HIDE DEF first
<1> QED
  BY <1>1, <1>2, <1>3, <1>4

-----------------------------------------------------------------------------
(* What _quote() lets through *)

\* The characters that would end a string of the header, escape in it, end its line
Special == {"\"", "\\", "\n", "\r", ";"}

\* What a character is replaced by is a character, and none of the special ones.
LEMMA SafeIsSafe == ASSUME NEW c \in Characters PROVE Safe(c) \in Characters \ Special
<1>1. {"'", "/", " ", ","} \subseteq Characters \ Special
  BY DEF Characters, Syntax, TokenMarks, Special
<1>2. CASE c \in Special
  BY <1>1, <1>2 DEF Safe, Special
<1>3. CASE c \notin Special
  BY <1>3 DEF Safe, Special
<1> QED
  BY <1>2, <1>3

(* However long a value is and whatever is in it: between the quotes that    *)
(* _quote() puts around it there is no quote, no backslash, no line end and *)
(* no semicolon, and each character stands where it stood.                  *)
THEOREM QuotesHold ==
    ASSUME NEW value \in Seq(Characters)
    PROVE  /\ Cleaned(value) \in Seq(Characters \ Special)
           /\ Len(Cleaned(value)) = Len(value)
           /\ \A k \in 1..Len(value) :
                 value[k] \notin Special => Cleaned(value)[k] = value[k]
<1>1. DOMAIN value = 1..Len(value) /\ Len(value) \in Nat
  OBVIOUS
<1>2. \A k \in 1..Len(value) : value[k] \in Characters
  OBVIOUS
<1>3. Cleaned(value) = [k \in 1..Len(value) |-> Safe(value[k])]
  BY <1>1 DEF Cleaned
<1>4. \A k \in 1..Len(value) : Safe(value[k]) \in Characters \ Special
  BY <1>2, SafeIsSafe
<1>5. Cleaned(value) \in Seq(Characters \ Special) /\ Len(Cleaned(value)) = Len(value)
  BY <1>1, <1>3, <1>4
<1>6. \A k \in 1..Len(value) : value[k] \notin Special => Safe(value[k]) = value[k]
  BY DEF Safe, Special
<1> QED
  BY <1>3, <1>5, <1>6

-----------------------------------------------------------------------------
(* A header is read from its last part to its first *)

Keys == {key \in Seq(KeyCharacters) : key # <<>> /\ key[1] \in KeyStarts}
Field == [key : Keys, value : Seq(Characters)]

\* One field of a header
Part(field) == field.key \o <<"=">> \o Quoted(field.value)

\* s is what t has from p on
Has(t, p, s) == p + Len(s) - 1 <= Len(t) /\ \A q \in 1..Len(s) : t[p + q - 1] = s[q]

LEMMA Joins ==
    ASSUME NEW r \in Seq(Characters), NEW s \in Seq(Characters)
    PROVE  /\ r \o s \in Seq(Characters) /\ Len(r \o s) = Len(r) + Len(s)
           /\ \A q \in 1..Len(r) : (r \o s)[q] = r[q]
           /\ \A q \in 1..Len(s) : (r \o s)[Len(r) + q] = s[q]
OBVIOUS

\* What is where in a part
LEMMA PartIs ==
    ASSUME NEW field \in Field
    PROVE  LET n == Len(field.key)
               m == Len(field.value)
               clean == Cleaned(field.value)
           IN  /\ Part(field) \in Seq(Characters) /\ Len(Part(field)) = n + m + 3
               /\ n \in Nat \ {0} /\ m \in Nat
               /\ \A q \in 1..n : Part(field)[q] = field.key[q] /\ field.key[q] \in KeyCharacters
               /\ field.key[1] \in KeyStarts
               /\ Part(field)[n + 1] = "=" /\ Part(field)[n + 2] = Quote
               /\ \A q \in 1..m : Part(field)[n + 2 + q] = clean[q] /\ clean[q] \notin {Quote, Backslash}
               /\ Part(field)[n + m + 3] = Quote
               /\ clean \in Seq(Characters) /\ Len(clean) = m
<1> DEFINE key == field.key
           clean == Cleaned(field.value)
           n == Len(key)
           m == Len(field.value)
<1>1. key \in Seq(KeyCharacters) /\ key # <<>> /\ key[1] \in KeyStarts /\ field.value \in Seq(Characters)
  BY DEF Field, Keys
<1>2. clean \in Seq(Characters \ Special) /\ Len(clean) = m
  BY <1>1, QuotesHold
<1>3. Quote \in Special /\ Backslash \in Special
  BY DEF Quote, Backslash, Special
<1>4. Part(field) = key \o <<"=">> \o (<<Quote>> \o clean \o <<Quote>>)
  BY DEF Part, Quoted
<1>5. KeyCharacters \subseteq Characters /\ "=" \in Characters /\ Quote \in Characters
  BY Alphabet, Delimiters
<1> HIDE DEF key, clean
<1>6. n \in Nat \ {0} /\ m \in Nat /\ key \in Seq(Characters) /\ clean \in Seq(Characters)
  BY <1>1, <1>2, <1>5
<1>7. \A q \in 1..m : clean[q] \notin {Quote, Backslash}
  BY <1>2, <1>3
<1>8. \A q \in 1..n : key[q] \in KeyCharacters
  BY <1>1
<1> DEFINE quoted == <<Quote>> \o clean \o <<Quote>>
<1> HIDE DEF m, n
<1>9. /\ quoted \in Seq(Characters) /\ Len(quoted) = m + 2
      /\ quoted[1] = Quote /\ quoted[m + 2] = Quote
      /\ \A q \in 1..m : quoted[q + 1] = clean[q]
  BY <1>2, <1>5, <1>6
<1> HIDE DEF quoted
<1>10. /\ Part(field) \in Seq(Characters) /\ Len(Part(field)) = n + m + 3
       /\ \A q \in 1..n : Part(field)[q] = key[q]
       /\ Part(field)[n + 1] = "="
       /\ \A q \in 1..(m + 2) : Part(field)[n + 1 + q] = quoted[q]
  <2> DEFINE head == key \o <<"=">>
  <2>1. <<"=">> \in Seq(Characters) /\ Len(<<"=">>) = 1 /\ 1 \in 1..1 /\ <<"=">>[1] = "="
    BY <1>5
  <2>2. /\ head \in Seq(Characters) /\ Len(head) = n + 1
        /\ \A q \in 1..n : head[q] = key[q]
        /\ head[n + 1] = "="
    BY <1>6, <2>1, Joins DEF n
  <2>3. Part(field) = head \o quoted
    BY <1>4 DEF quoted
  <2> HIDE DEF head
  <2>4. /\ head \o quoted \in Seq(Characters) /\ Len(head \o quoted) = Len(head) + Len(quoted)
        /\ \A q \in 1..Len(head) : (head \o quoted)[q] = head[q]
        /\ \A q \in 1..Len(quoted) : (head \o quoted)[Len(head) + q] = quoted[q]
    BY <1>9, <2>2, Joins
  <2> QED
    BY <1>6, <1>9, <2>2, <2>3, <2>4
<1>11. Part(field)[n + 2] = Quote /\ Part(field)[n + m + 3] = Quote
  BY <1>6, <1>9, <1>10
<1>12. \A q \in 1..m : Part(field)[n + 2 + q] = clean[q]
  BY <1>6, <1>9, <1>10
<1> QED
  BY <1>1, <1>2, <1>6, <1>7, <1>8, <1>10, <1>11, <1>12 DEF key, clean, n, m

LEMMA HasIsSubSeq ==
    ASSUME NEW t \in Seq(Characters), NEW p \in 1..Len(t), NEW n \in Nat, (p + n) - 1 <= Len(t),
           NEW s \in Seq(Characters), Len(s) = n, \A q \in 1..n : t[p + q - 1] = s[q]
    PROVE  SubSeq(t, p, (p + n) - 1) = s
<1>1. SubSeq(t, p, (p + n) - 1) = [q \in 1..n |-> t[p + q - 1]]
  OBVIOUS
<1>2. s = [q \in 1..n |-> s[q]]
  OBVIOUS
<1> QED
  BY <1>1, <1>2

\* What a field is read as
ReadAs(field) == [kind |-> "string", text |-> Cleaned(field.value)]

\* A key, and what is made of what is behind it
LEMMA AssignmentCases ==
    ASSUME NEW t, NEW i, NEW key, NEW equals, key = KeyEnd(t, i), equals = Skip(t, key, Blanks)
    PROVE  /\ key = 0 => Assignment(t, i).next = 0
           /\ key # 0 /\ Peek(t, equals) = "=" =>
                 Assignment(t, i) = Assigned(SubSeq(t, i, key - 1), Item(t, equals + 1))
           /\ key # 0 /\ Peek(t, equals) # "=" =>
                 Assignment(t, i) = Assigned(SubSeq(t, i, key - 1), [next |-> equals, value |-> True])
<1> DEFINE none == key = 0
           assigned == key # 0 /\ Peek(t, equals) = "="
           alone == [next |-> equals, value |-> True]
           read == Item(t, equals + 1)
           item == CASE none -> Unreadable [] assigned -> read [] OTHER -> alone
<1>1. Assignment(t, i) = Assigned(SubSeq(t, i, key - 1), item)
  BY DEF Assignment
<1>2. ~(none /\ assigned)
  OBVIOUS
<1>3. /\ none => item = Unreadable
      /\ assigned => item = read
      /\ ~none /\ ~assigned => item = alone
  <2> HIDE DEF none, assigned, alone, read
  <2> QED
    BY <1>2
<1> HIDE DEF item
<1>4. ASSUME none PROVE Assignment(t, i).next = 0
  <2>1. Unreadable.next = 0
    BY ReadTyped
  <2> QED
    BY <1>1, <1>3, <1>4, <2>1 DEF Assigned
<1> QED
  BY <1>1, <1>3, <1>4

\* The same, where an = follows
LEMMA AssignmentIs ==
    ASSUME NEW t, NEW i, NEW key, NEW equals, key = KeyEnd(t, i), equals = Skip(t, key, Blanks),
           key # 0, Peek(t, equals) = "="
    PROVE  Assignment(t, i) = [key |-> SubSeq(t, i, key - 1), next |-> Item(t, equals + 1).next,
                               value |-> Item(t, equals + 1).value]
BY AssignmentCases DEF Assigned

LEMMA PartIsRead ==
    ASSUME NEW t \in Seq(Characters), NEW p \in 1..Len(t), NEW field \in Field,
           Has(t, p, Part(field))
    PROVE  Assignment(t, p) = [key |-> field.key, next |-> p + Len(Part(field)), value |-> ReadAs(field)]
<1> DEFINE part == Part(field)
           key == field.key
           clean == Cleaned(field.value)
           n == Len(key)
           m == Len(field.value)
<1>1. /\ part \in Seq(Characters) /\ Len(part) = n + m + 3
      /\ n \in Nat \ {0} /\ m \in Nat
      /\ \A q \in 1..n : part[q] = key[q] /\ key[q] \in KeyCharacters
      /\ key[1] \in KeyStarts
      /\ part[n + 1] = "=" /\ part[n + 2] = Quote
      /\ \A q \in 1..m : part[n + 2 + q] = clean[q] /\ clean[q] \notin {Quote, Backslash}
      /\ part[n + m + 3] = Quote
      /\ clean \in Seq(Characters) /\ Len(clean) = m
  BY PartIs
<1>2. key \in Seq(KeyCharacters) /\ key \in Seq(Characters)
  BY Alphabet DEF Field, Keys
<1>3. p + Len(part) - 1 <= Len(t) /\ \A q \in 1..Len(part) : t[p + q - 1] = part[q]
  BY DEF Has
<1>4. p \in Nat \ {0} /\ Len(t) \in Nat
  OBVIOUS
<1> DEFINE e == p + n + m + 2
<1> HIDE DEF part, clean, n, m, key
<1>5. /\ \A q \in 1..n : t[p + q - 1] = key[q]
      /\ t[p + n] = "=" /\ t[p + n + 1] = Quote
      /\ \A q \in 1..m : t[p + n + 1 + q] = clean[q]
      /\ t[e] = Quote
      /\ e <= Len(t)
  <2>1. \A q \in 1..n : t[p + q - 1] = key[q]
    BY <1>1, <1>3
  <2>2. t[p + n] = part[n + 1] /\ t[p + n + 1] = part[n + 2] /\ t[e] = part[n + m + 3] /\ e <= Len(t)
    <3>1. n + 1 \in 1..Len(part) /\ n + 2 \in 1..Len(part) /\ n + m + 3 \in 1..Len(part)
      BY <1>1
    <3>2. /\ t[p + (n + 1) - 1] = part[n + 1] /\ t[p + (n + 2) - 1] = part[n + 2]
          /\ t[p + (n + m + 3) - 1] = part[n + m + 3]
      BY <1>3, <3>1
    <3>3. p + (n + 1) - 1 = p + n /\ p + (n + 2) - 1 = p + n + 1 /\ p + (n + m + 3) - 1 = e
      BY <1>1, <1>4
    <3> QED
      BY <1>1, <1>3, <1>4, <3>2, <3>3
  <2>3. ASSUME NEW q \in 1..m PROVE t[p + n + 1 + q] = clean[q]
    <3>1. n + 2 + q \in 1..Len(part) /\ p + (n + 2 + q) - 1 = p + n + 1 + q
      BY <1>1, <1>4
    <3>2. t[p + (n + 2 + q) - 1] = part[n + 2 + q]
      BY <1>3, <3>1
    <3> QED
      BY <1>1, <3>1, <3>2
  <2> QED
    BY <1>1, <2>1, <2>2, <2>3
<1>6. /\ e \in 1..Len(t) /\ p + n \in 1..Len(t) /\ p + n + 1 \in 1..Len(t)
      /\ p + n + 2 \in 1..Len(t) /\ e \in (p + n + 2)..Len(t)
  BY <1>1, <1>4, <1>5
<1>7. KeyEnd(t, p) = p + n
  <2>1. t[p] = key[1] /\ Peek(t, p) \in KeyStarts
    <3>1. 1 \in 1..n /\ p + 1 - 1 = p
      BY <1>1, <1>4
    <3>2. t[p + 1 - 1] = key[1]
      BY <1>5, <3>1
    <3> QED
      BY <1>1, <3>1, <3>2, PeekIs
  <2>2. Peek(t, p + n) \notin KeyCharacters
    BY <1>5, <1>6, Delimiters, PeekIs
  <2>3. ASSUME NEW k \in p..((p + n) - 1) PROVE t[k] \in KeyCharacters
    <3>1. k - p + 1 \in 1..n /\ p + (k - p + 1) - 1 = k
      BY <1>1, <1>4
    <3>2. t[p + (k - p + 1) - 1] = key[k - p + 1] /\ key[k - p + 1] \in KeyCharacters
      BY <1>1, <1>5, <3>1
    <3> QED
      BY <3>1, <3>2
  <2>4. p + n \in p..(Len(t) + 1) /\ p \in 1..(Len(t) + 1) /\ End \notin KeyCharacters
    BY <1>1, <1>4, <1>6, Alphabet
  <2>5. StopsAt(t, p, KeyCharacters, p + n)
    <3>1. \A k \in p..((p + n) - 1) : t[k] \in KeyCharacters
      BY <2>3
    <3> QED
      BY <2>2, <2>4, <3>1 DEF StopsAt
  <2>6. Skip(t, p, KeyCharacters) = p + n
    BY <2>4, <2>5, SkipIs
  <2> QED
    BY <2>1, <2>6 DEF KeyEnd
<1>8. Skip(t, p + n, Blanks) = p + n /\ Peek(t, p + n) = "="
  <2>1. Peek(t, p + n) = "=" /\ "=" \notin Blanks /\ End \notin Blanks
    BY <1>5, <1>6, Delimiters, PeekIs, Alphabet
  <2>2. p + n \in 1..(Len(t) + 1) /\ p + n \in (p + n)..(Len(t) + 1)
    BY <1>6
  <2>3. \A k \in (p + n)..((p + n) - 1) : t[k] \in Blanks
    BY <1>1, <1>4
  <2>4. StopsAt(t, p + n, Blanks, p + n)
    BY <2>1, <2>2, <2>3 DEF StopsAt
  <2> QED
    BY <2>1, <2>2, <2>4, SkipIs
<1>9. Item(t, p + n + 1) = String(t, p + n + 2)
  <2>1. Peek(t, p + n + 1) = Quote /\ p + n + 1 \in 1..(Len(t) + 1) /\ p + n + 1 + 1 = p + n + 2
    BY <1>1, <1>4, <1>5, <1>6, PeekIs
  <2> QED
    BY <2>1, ItemAdvances
<1>10. String(t, p + n + 2) = Read("string", clean, e + 1)
  <2>1. ASSUME NEW k \in (p + n + 2)..(e - 1) PROVE t[k] \notin {Quote, Backslash}
    <3>1. k - (p + n + 1) \in 1..m /\ p + n + 1 + (k - (p + n + 1)) = k
      BY <1>1, <1>4
    <3>2. t[p + n + 1 + (k - (p + n + 1))] = clean[k - (p + n + 1)]
      BY <1>5, <3>1
    <3>3. clean[k - (p + n + 1)] \notin {Quote, Backslash}
      BY <1>1, <3>1
    <3> QED
      BY <3>1, <3>2, <3>3
  <2>2. String(t, p + n + 2) = Read("string", SubSeq(t, p + n + 2, e - 1), e + 1)
    <3> HIDE DEF e
    <3> QED
      BY <1>5, <1>6, <2>1, StringIsRead
  <2>3. e - 1 = (p + n + 2) + m - 1 /\ (p + n + 2) + m - 1 <= Len(t)
    BY <1>1, <1>4, <1>5
  <2>4. ASSUME NEW q \in 1..m PROVE t[(p + n + 2) + q - 1] = clean[q]
    <3>1. (p + n + 2) + q - 1 = p + n + 1 + q
      BY <1>1, <1>4
    <3> QED
      BY <1>5, <3>1
  <2>5. SubSeq(t, p + n + 2, (p + n + 2) + m - 1) = clean
    BY <1>1, <1>6, <2>3, <2>4, HasIsSubSeq
  <2> QED
    BY <2>2, <2>3, <2>5
<1>11. SubSeq(t, p, (p + n) - 1) = key
  <2>1. (p + n) - 1 <= Len(t) /\ Len(key) = n /\ n \in Nat
    BY <1>1, <1>4, <1>6 DEF n
  <2> QED
    BY <1>2, <1>5, <2>1, HasIsSubSeq
<1>12. e + 1 = p + Len(part) /\ p + n # 0
  BY <1>1, <1>4
<1>13. Assignment(t, p) = [key |-> key, next |-> e + 1, value |-> [kind |-> "string", text |-> clean]]
  <2>1. Assignment(t, p) = [key |-> SubSeq(t, p, (p + n) - 1), next |-> Item(t, p + n + 1).next,
                            value |-> Item(t, p + n + 1).value]
    <3> DEFINE a == p + n
    <3>1. a = KeyEnd(t, p) /\ a = Skip(t, a, Blanks) /\ a # 0 /\ Peek(t, a) = "="
      BY <1>7, <1>8, <1>12
    <3> HIDE DEF a
    <3>2. Assignment(t, p) = [key |-> SubSeq(t, p, a - 1), next |-> Item(t, a + 1).next,
                              value |-> Item(t, a + 1).value]
      BY <3>1, AssignmentIs
    <3> QED
      BY <3>2 DEF a
  <2>2. Item(t, p + n + 1) = Read("string", clean, e + 1)
    BY <1>9, <1>10
  <2>3. Item(t, p + n + 1).next = e + 1
        /\ Item(t, p + n + 1).value = [kind |-> "string", text |-> clean]
    BY <2>2 DEF Read
  <2> QED
    BY <1>11, <2>1, <2>3
<1> QED
  BY <1>12, <1>13 DEF ReadAs, clean, key, part

\* The member that a field becomes
Member(field) == [key |-> field.key, value |-> ReadAs(field)]

\* A part at the end of a header is its last member.
LEMMA LastIsRead ==
    ASSUME NEW t \in Seq(Characters), NEW p \in 1..Len(t), NEW field \in Field,
           Has(t, p, Part(field)), p + Len(Part(field)) = Len(t) + 1, NEW f
    PROVE  DictionaryAt(t, p, f) = Dictionary(Before(Member(field), <<>>))
<1> DEFINE e == Len(t) + 1
<1>1. Assignment(t, p) = [key |-> field.key, next |-> e, value |-> ReadAs(field)]
  BY PartIsRead
<1>2. e \in 1..(Len(t) + 1) /\ e \in 0..(Len(t) + 1) /\ e # 0 /\ e > Len(t)
  OBVIOUS
<1>3. Peek(t, e) = End
  BY <1>2, PeekIs
<1> DEFINE member == Assignment(t, p)
           parameters == ParametersEnd(t, member.next)
           end == Skip(t, parameters, Blanks)
           next == Skip(t, end + 1, Blanks)
           last == end > Len(t)
           goesOn == Peek(t, end) = Comma /\ next <= Len(t) /\ f[next].ok
           alone == Dictionary(Before(member, <<>>))
           more == Dictionary(Before(member, f[next].fields))
<1>4. parameters = e
  <2>1. End # Semicolon /\ member.next = e
    BY <1>1 DEF End, Semicolon
  <2> HIDE DEF e, member
  <2> QED
    BY <1>2, <1>3, <2>1, ParametersEquation
<1>5. end = e
  <2>1. e \in e..(Len(t) + 1) /\ \A k \in e..(e - 1) : t[k] \in Blanks
    OBVIOUS
  <2> HIDE DEF e
  <2>2. StopsAt(t, e, Blanks, e)
    BY <1>3, <2>1, Alphabet DEF StopsAt
  <2>3. Skip(t, e, Blanks) = e
    BY <1>2, <2>2, SkipIs
  <2> QED
    BY <1>4, <2>3
<1>6. last /\ ~goesOn
  <2>1. End # Comma
    BY DEF End, Comma
  <2> HIDE DEF e, parameters, end, next
  <2> QED
    BY <1>2, <1>3, <1>4, <1>5, <2>1
<1>7. DictionaryAt(t, p, f) = CASE last -> alone [] goesOn -> more [] OTHER -> Malformed
  BY DEF DictionaryAt
<1>8. DictionaryAt(t, p, f) = alone
  <2> HIDE DEF last, goesOn, alone, more
  <2> QED
    BY <1>6, <1>7
<1>9. Before(member, <<>>) = Before(Member(field), <<>>)
  <2>1. member.key = Member(field).key /\ member.value = Member(field).value
    BY <1>1 DEF Member
  <2> HIDE DEF member
  <2> QED
    BY <2>1 DEF Before
<1> HIDE DEF member
<1> QED
  BY <1>8, <1>9

\* A part with a comma, a blank and more behind it is a member before what that is.
LEMMA NextIsRead ==
    ASSUME NEW t \in Seq(Characters), NEW p \in 1..Len(t), NEW field \in Field,
           Has(t, p, Part(field)), NEW e, e = p + Len(Part(field)),
           e + 2 <= Len(t), t[e] = Comma, t[e + 1] = Blank, t[e + 2] \notin Blanks, NEW f
    PROVE  DictionaryAt(t, p, f) = IF f[e + 2].ok
                                   THEN Dictionary(Before(Member(field), f[e + 2].fields))
                                   ELSE Malformed
<1>1. Assignment(t, p) = [key |-> field.key, next |-> e, value |-> ReadAs(field)]
  BY PartIsRead
<1>2. /\ e \in Nat /\ e \in 1..Len(t) /\ e \in 1..(Len(t) + 1) /\ e \in 0..(Len(t) + 1) /\ e # 0
      /\ e + 1 \in 1..Len(t) /\ e + 1 \in 1..(Len(t) + 1) /\ e + 2 \in 1..Len(t)
  BY PartIs
<1>3. Peek(t, e) = Comma /\ Peek(t, e + 2) \notin Blanks
  BY <1>2, PeekIs
<1> DEFINE member == Assignment(t, p)
           parameters == ParametersEnd(t, member.next)
           end == Skip(t, parameters, Blanks)
           next == Skip(t, end + 1, Blanks)
           last == end > Len(t)
           goesOn == Peek(t, end) = Comma /\ next <= Len(t) /\ f[next].ok
           alone == Dictionary(Before(member, <<>>))
           more == Dictionary(Before(member, f[next].fields))
<1>4. parameters = e
  <2>1. Comma # Semicolon
    BY DEF Comma, Semicolon
  <2>2. member.next = e
    BY <1>1
  <2> HIDE DEF member
  <2> QED
    BY <1>2, <1>3, <2>1, <2>2, ParametersEquation
<1>5. end = e
  <2>1. e \in e..(Len(t) + 1) /\ \A k \in e..(e - 1) : t[k] \in Blanks
    BY <1>2
  <2>2. StopsAt(t, e, Blanks, e)
    BY <1>3, <2>1, Alphabet, Delimiters DEF StopsAt
  <2>3. Skip(t, e, Blanks) = e
    BY <1>2, <2>2, SkipIs
  <2> QED
    BY <1>4, <2>3
<1>6. next = e + 2
  <2>1. e + 2 \in (e + 1)..(Len(t) + 1)
    BY <1>2
  <2>2. ASSUME NEW k \in (e + 1)..((e + 2) - 1) PROVE t[k] \in Blanks
    <3>1. k = e + 1
      BY <1>2
    <3>2. Blank \in Blanks
      BY DEF Blanks
    <3> QED
      BY <3>1, <3>2
  <2>3. StopsAt(t, e + 1, Blanks, e + 2)
    BY <1>3, <2>1, <2>2, Alphabet DEF StopsAt
  <2>4. Skip(t, e + 1, Blanks) = e + 2
    BY <1>2, <2>3, SkipIs
  <2> HIDE DEF end
  <2> QED
    BY <1>5, <2>4
<1>7. DictionaryAt(t, p, f) = CASE last -> alone [] goesOn -> more [] OTHER -> Malformed
  BY DEF DictionaryAt
<1>8. ~last /\ (goesOn <=> f[e + 2].ok)
  <2> HIDE DEF parameters, end, next
  <2> QED
    BY <1>2, <1>3, <1>4, <1>5, <1>6
<1>9. DictionaryAt(t, p, f) = IF f[e + 2].ok THEN more ELSE Malformed
  <2> HIDE DEF last, goesOn, alone, more
  <2> QED
    BY <1>7, <1>8
<1>10. more = Dictionary(Before(Member(field), f[e + 2].fields))
  <2>1. member.key = Member(field).key /\ member.value = Member(field).value
    BY <1>1 DEF Member
  <2> HIDE DEF member, next
  <2>2. Before(member, f[e + 2].fields) = Before(Member(field), f[e + 2].fields)
    BY <2>1 DEF Before
  <2> QED
    BY <1>6, <2>2
<1> HIDE DEF more
<1> QED
  BY <1>9, <1>10

\* What to_header() joins of the fields from k on, when f is what it joins of those behind
JoinedAt(fields, k, f) ==
    IF k = Len(fields) THEN Part(fields[k])
    ELSE Part(fields[k]) \o <<Comma, Blank>> \o f[k + 1]

LEMMA JoinedTyped ==
    ASSUME NEW fields \in Seq(Field), NEW k \in 1..Len(fields), NEW f,
           \A m \in (k + 1)..Len(fields) : f[m] \in Seq(Characters)
    PROVE  JoinedAt(fields, k, f) \in Seq(Characters)
<1>1. fields[k] \in Field
  OBVIOUS
<1>2. Part(fields[k]) \in Seq(Characters)
  BY <1>1, PartIs
<1>3. <<Comma, Blank>> \in Seq(Characters)
  BY Delimiters
<1>4. CASE k = Len(fields)
  BY <1>2, <1>4 DEF JoinedAt
<1>5. CASE k # Len(fields)
  <2>1. f[k + 1] \in Seq(Characters)
    BY <1>5
  <2>2. Part(fields[k]) \o <<Comma, Blank>> \in Seq(Characters)
    BY <1>2, <1>3, Joins
  <2>3. Part(fields[k]) \o <<Comma, Blank>> \o f[k + 1] \in Seq(Characters)
    BY <2>1, <2>2, Joins
  <2> QED
    BY <1>5, <2>3 DEF JoinedAt
<1> QED
  BY <1>4, <1>5

\* Joined() satisfies its equation.
LEMMA JoinedEquation ==
    ASSUME NEW fields \in Seq(Field), fields # <<>>
    PROVE  \E J : /\ Joined(fields) = J[1]
                 /\ \A k \in 1..Len(fields) :
                       J[k] \in Seq(Characters) /\ J[k] = JoinedAt(fields, k, J)
<1> DEFINE D == 1..Len(fields)
           Equation(f) == f = [k \in DOMAIN fields |-> JoinedAt(fields, k, f)]
           G == [k \in D |-> [f \in [D -> Seq(Characters)] |-> JoinedAt(fields, k, f)]]
           J == CHOOSE f : Equation(f)
<1>1. Joined(fields) = J[1]
  BY DEF Joined, JoinedAt, Part
<1>2. 1 \in Nat /\ Len(fields) \in Nat /\ 1 <= Len(fields) /\ DOMAIN fields = D
  OBVIOUS
<1>3. \E f \in [D -> Seq(Characters)] : \A k \in D : f[k] = G[k][f]
  <2>1. ASSUME NEW k \in D, NEW f \in [D -> Seq(Characters)] PROVE G[k][f] \in Seq(Characters)
    <3>1. \A m \in (k + 1)..Len(fields) : f[m] \in Seq(Characters)
      OBVIOUS
    <3>2. G[k][f] = JoinedAt(fields, k, f)
      OBVIOUS
    <3> QED
      BY <3>1, <3>2, JoinedTyped
  <2>2. ASSUME NEW k \in D, NEW f \in [D -> Seq(Characters)], NEW g \in [D -> Seq(Characters)],
               \A m \in (k + 1)..Len(fields) : f[m] = g[m]
        PROVE  G[k][f] = G[k][g]
    <3>1. G[k][f] = JoinedAt(fields, k, f) /\ G[k][g] = JoinedAt(fields, k, g)
      OBVIOUS
    <3>2. k # Len(fields) => f[k + 1] = g[k + 1]
      BY <2>2
    <3> QED
      BY <3>1, <3>2 DEF JoinedAt
  <2> HIDE DEF G
  <2>3. \A k \in D : \A f \in [D -> Seq(Characters)] : G[k][f] \in Seq(Characters)
    BY <2>1
  <2>4. \A k \in D : \A f, g \in [D -> Seq(Characters)] :
           (\A m \in (k + 1)..Len(fields) : f[m] = g[m]) => G[k][f] = G[k][g]
    BY <2>2
  <2>5. Seq(Characters) # {}
    <3>1. <<>> \in Seq(Characters)
      OBVIOUS
    <3> QED
      BY <3>1
  <2>6. LooksAhead(G, 1, Len(fields), Seq(Characters))
    BY <1>2, <2>3, <2>4, <2>5 DEF LooksAhead
  <2> QED
    BY <2>6, Recursion
<1>4. \E f : Equation(f)
  <2>1. PICK f \in [D -> Seq(Characters)] : \A k \in D : f[k] = G[k][f]
    BY <1>3
  <2>2. \A k \in D : f[k] = JoinedAt(fields, k, f)
    BY <2>1
  <2>3. f = [k \in D |-> f[k]]
    OBVIOUS
  <2>4. f = [k \in DOMAIN fields |-> JoinedAt(fields, k, f)]
    BY <1>2, <2>2, <2>3
  <2> QED
    BY <2>4
<1>5. Equation(J)
  <2> HIDE DEF Equation
  <2> QED
    BY <1>4
<1> HIDE DEF J
<1>6. \A k \in D : J[k] = JoinedAt(fields, k, J)
  BY <1>2, <1>5
<1>7. \A k \in D : J[k] \in Seq(Characters)
  <2> DEFINE S == {k \in D : J[k] \in Seq(Characters)}
  <2>1. ASSUME NEW k \in D, \A m \in (k + 1)..Len(fields) : m \in S PROVE k \in S
    BY <1>6, <2>1, JoinedTyped
  <2> HIDE DEF S
  <2>2. \A k \in D : k \in S
    BY <1>2, <2>1, Downwards
  <2> QED
    BY <2>2 DEF S
<1> QED
  BY <1>1, <1>6, <1>7

\* The last of the fields with a key
LastWith(fields, key) == Max({m \in DOMAIN fields : fields[m].key = key})

LEMMA LastWithIs ==
    ASSUME NEW fields \in Seq(Field), NEW k \in 1..Len(fields)
    PROVE  /\ LastWith(fields, fields[k].key) \in 1..Len(fields)
           /\ fields[LastWith(fields, fields[k].key)].key = fields[k].key
           /\ \A m \in 1..Len(fields) :
                 fields[m].key = fields[k].key => m <= LastWith(fields, fields[k].key)
<1> DEFINE S == {m \in DOMAIN fields : fields[m].key = fields[k].key}
           last == Max(S)
<1>1. Len(fields) \in Nat /\ DOMAIN fields = 1..Len(fields)
  OBVIOUS
<1>2. \A m \in 1..Len(fields) : m \in S <=> fields[m].key = fields[k].key
  BY <1>1
<1>3. S \in SUBSET (1..Len(fields)) /\ k \in S
  BY <1>1
<1>4. LastWith(fields, fields[k].key) = last
  BY DEF LastWith
<1> HIDE DEF S
<1>5. last \in S /\ \A m \in S : last >= m
  BY <1>1, <1>3, GreatestMember
<1> HIDE DEF last
<1>6. last \in 1..Len(fields) /\ \A m \in S : m <= last
  BY <1>1, <1>3, <1>5
<1> QED
  BY <1>2, <1>4, <1>5, <1>6

\* What the fields from k on say
SaidFrom(fields, k) ==
    [key \in {fields[m].key : m \in k..Len(fields)} |-> ReadAs(fields[LastWith(fields, key)])]

LEMMA SaidBefore ==
    ASSUME NEW fields \in Seq(Field), NEW k \in 1..Len(fields)
    PROVE  SaidFrom(fields, k) = Before(Member(fields[k]),
                                        IF k = Len(fields) THEN <<>> ELSE SaidFrom(fields, k + 1))
<1> DEFINE n == Len(fields)
           behind == {fields[m].key : m \in (k + 1)..n}
           said == SaidFrom(fields, k)
           later == IF k = n THEN <<>> ELSE SaidFrom(fields, k + 1)
           key1 == fields[k].key
           before == Before(Member(fields[k]), later)
<1>1. {fields[m].key : m \in k..n} = {key1} \cup behind
  <2>1. \A m : m \in k..n <=> m = k \/ m \in (k + 1)..n
    OBVIOUS
  <2> QED
    BY <2>1
<1>2. DOMAIN later = behind /\ \A key \in behind : later[key] = ReadAs(fields[LastWith(fields, key)])
  <2>1. CASE k = n
    <3>1. behind = {}
      BY <2>1
    <3>2. DOMAIN later = {}
      BY <2>1
    <3> QED
      BY <3>1, <3>2
  <2>2. CASE k # n
    BY <2>2 DEF SaidFrom
  <2> QED
    BY <2>1, <2>2
<1>3. key1 \notin behind => LastWith(fields, key1) = k
  <2>1. ASSUME key1 \notin behind PROVE LastWith(fields, key1) = k
    <3> DEFINE last == LastWith(fields, key1)
    <3>1. last \in 1..n /\ fields[last].key = key1 /\ k <= last
      BY LastWithIs
    <3>2. last \notin (k + 1)..n
      BY <2>1, <3>1
    <3> HIDE DEF last
    <3>3. last = k
      BY <3>1, <3>2
    <3> QED
      BY <3>3 DEF last
  <2> QED
    BY <2>1
<1>4. said = [key \in {key1} \cup behind |-> ReadAs(fields[LastWith(fields, key)])]
  BY <1>1 DEF SaidFrom
<1>5. before = [key \in {key1} \cup behind |-> IF key \in behind THEN later[key] ELSE ReadAs(fields[k])]
  <2> HIDE DEF behind, later
  <2>1. Member(fields[k]).key = key1 /\ Member(fields[k]).value = ReadAs(fields[k])
    BY DEF Member
  <2> QED
    BY <1>2, <2>1 DEF Before
<1>6. \A key \in {key1} \cup behind :
         ReadAs(fields[LastWith(fields, key)])
            = IF key \in behind THEN later[key] ELSE ReadAs(fields[k])
  <2> HIDE DEF behind, later
  <2> QED
    BY <1>2, <1>3
<1>7. said = before
  <2> HIDE DEF behind, later, said, before, key1
  <2> QED
    BY <1>4, <1>5, <1>6
<1> QED
  BY <1>7

-----------------------------------------------------------------------------
(* The header *)

\* What a header is read as, whatever fields it is made of
LEMMA HeaderIsRead ==
    ASSUME NEW fields \in Seq(Field), fields # <<>>
    PROVE  ParseDictionary(Joined(fields)) = Dictionary(SaidFrom(fields, 1))
<1> DEFINE n == Len(fields)
           t == Joined(fields)
<1>1. PICK J : /\ t = J[1]
               /\ \A k \in 1..n : J[k] \in Seq(Characters) /\ J[k] = JoinedAt(fields, k, J)
  BY JoinedEquation
<1>2. n \in Nat /\ 1 \in 1..n /\ \A k \in 1..n : fields[k] \in Field
  OBVIOUS
<1>3. t \in Seq(Characters)
  BY <1>1, <1>2
<1> HIDE DEF t, n
<1>4. PICK D : /\ LET first == Skip(t, 1, Blanks)
                  IN  ParseDictionary(t) = IF first > Len(t) THEN Dictionary(<<>>) ELSE D[first]
               /\ \A i \in 1..(Len(t) + 1) : D[i] = DictionaryAt(t, i, D)
  BY <1>3, DictionaryEquation
<1>5. ASSUME NEW k \in 1..n
      PROVE  /\ Len(Part(fields[k])) >= 1 /\ Len(Part(fields[k])) \in Nat
             /\ Part(fields[k])[1] \in KeyStarts /\ Part(fields[k]) \in Seq(Characters)
  <2>1. fields[k] \in Field
    BY <1>2
  <2> DEFINE part == Part(fields[k])
             a == Len(fields[k].key)
             b == Len(fields[k].value)
  <2>2. /\ part \in Seq(Characters) /\ Len(part) = a + b + 3 /\ a \in Nat \ {0} /\ b \in Nat
        /\ \A q \in 1..a : part[q] = fields[k].key[q]
        /\ fields[k].key[1] \in KeyStarts
    BY <2>1, PartIs
  <2> HIDE DEF part, a, b
  <2>3. 1 \in 1..a /\ Len(part) >= 1 /\ Len(part) \in Nat
    BY <2>2
  <2>4. part[1] \in KeyStarts
    BY <2>2, <2>3
  <2> QED
    BY <2>2, <2>3, <2>4 DEF part
<1>6. ASSUME NEW k \in 1..n, k # n
      PROVE  LET e == Len(Part(fields[k])) + 1
             IN  /\ k + 1 \in 1..n /\ J[k + 1] \in Seq(Characters)
                 /\ Len(J[k]) = e + 1 + Len(J[k + 1])
                 /\ \A q \in 1..Len(Part(fields[k])) : J[k][q] = Part(fields[k])[q]
                 /\ J[k][e] = Comma /\ J[k][e + 1] = Blank
                 /\ \A q \in 1..Len(J[k + 1]) : J[k][e + 1 + q] = J[k + 1][q]
  <2> DEFINE part == Part(fields[k])
             head == part \o <<Comma, Blank>>
  <2>1. k + 1 \in 1..n /\ J[k + 1] \in Seq(Characters)
    BY <1>1, <1>2, <1>6
  <2>2. J[k] = head \o J[k + 1]
    BY <1>1, <1>6 DEF JoinedAt, n
  <2>3. part \in Seq(Characters) /\ Len(part) \in Nat
    BY <1>5
  <2>4. <<Comma, Blank>> \in Seq(Characters) /\ Len(<<Comma, Blank>>) = 2
        /\ <<Comma, Blank>>[1] = Comma /\ <<Comma, Blank>>[2] = Blank
    BY Delimiters
  <2> HIDE DEF part
  <2>5. /\ head \in Seq(Characters) /\ Len(head) = Len(part) + 2
        /\ \A q \in 1..Len(part) : head[q] = part[q]
        /\ head[Len(part) + 1] = Comma /\ head[Len(part) + 2] = Blank
    BY <2>3, <2>4, Joins
  <2> HIDE DEF head
  <2>6. /\ Len(head \o J[k + 1]) = Len(head) + Len(J[k + 1])
        /\ \A q \in 1..Len(head) : (head \o J[k + 1])[q] = head[q]
        /\ \A q \in 1..Len(J[k + 1]) : (head \o J[k + 1])[Len(head) + q] = J[k + 1][q]
    BY <2>1, <2>5, Joins
  <2> DEFINE next == J[k + 1]
             all == J[k]
  <2>7. /\ Len(all) = Len(head) + Len(next) /\ next \in Seq(Characters)
        /\ \A q \in 1..Len(head) : all[q] = head[q]
        /\ \A q \in 1..Len(next) : all[Len(head) + q] = next[q]
    BY <2>1, <2>2, <2>6
  <2> HIDE DEF next, all
  <2>8. /\ Len(all) = Len(part) + 1 + 1 + Len(next)
        /\ \A q \in 1..Len(part) : all[q] = part[q]
        /\ all[Len(part) + 1] = Comma /\ all[Len(part) + 1 + 1] = Blank
        /\ \A q \in 1..Len(next) : all[Len(part) + 1 + 1 + q] = next[q]
    BY <2>3, <2>5, <2>7
  <2> QED
    BY <2>1, <2>8 DEF part, next, all
<1>7. ASSUME NEW k \in 1..n PROVE Len(J[k]) \in Nat \ {0} /\ J[k][1] \in KeyStarts
  <2>1. J[k] \in Seq(Characters)
    BY <1>1
  <2>2. CASE k = n
    <3>1. J[k] = Part(fields[k])
      BY <1>1, <2>2 DEF JoinedAt, n
    <3> QED
      BY <1>5, <3>1
  <2>3. CASE k # n
    <3> DEFINE part == Part(fields[k])
               all == J[k]
    <3>1. part \in Seq(Characters) /\ Len(part) \in Nat /\ Len(part) >= 1 /\ part[1] \in KeyStarts
      BY <1>5
    <3>2. \A q \in 1..Len(part) : all[q] = part[q]
      BY <1>6, <2>3
    <3>3. Len(all) = Len(part) + 1 + 1 + Len(J[k + 1])
      BY <1>6, <2>3
    <3>4. J[k + 1] \in Seq(Characters)
      BY <1>6, <2>3
    <3>5. Len(J[k + 1]) \in Nat
      BY <3>4
    <3> HIDE DEF part, all
    <3>6. 1 \in 1..Len(part) /\ Len(all) \in Nat \ {0}
      <4> DEFINE a == Len(part)
                 b == Len(J[k + 1])
                 c == Len(all)
      <4>1. a \in Nat /\ a >= 1 /\ b \in Nat /\ c = a + 1 + 1 + b
        BY <3>1, <3>3, <3>5
      <4> HIDE DEF a, b, c
      <4>2. 1 \in 1..a /\ c \in Nat \ {0}
        BY <4>1
      <4> QED
        BY <4>2 DEF a, c
    <3>7. all[1] \in KeyStarts
      BY <3>1, <3>2, <3>6
    <3> QED
      BY <3>6, <3>7 DEF all
  <2> QED
    BY <2>2, <2>3
<1> DEFINE S == {k \in 1..n : \A p \in 1..Len(t) :
                      Has(t, p, J[k]) /\ p + Len(J[k]) = Len(t) + 1 => D[p] = Dictionary(SaidFrom(fields, k))}
<1>8. ASSUME NEW k \in 1..n, \A m \in (k + 1)..n : m \in S
      PROVE  k \in S
  <2> SUFFICES ASSUME NEW p \in 1..Len(t), Has(t, p, J[k]), p + Len(J[k]) = Len(t) + 1
               PROVE  D[p] = Dictionary(SaidFrom(fields, k))
    OBVIOUS
  <2> DEFINE part == Part(fields[k])
             e == p + Len(part)
  <2>1. fields[k] \in Field /\ p \in 1..(Len(t) + 1) /\ D[p] = DictionaryAt(t, p, D)
    BY <1>2, <1>4
  <2>2. /\ p + Len(J[k]) - 1 <= Len(t)
        /\ \A q \in 1..Len(J[k]) : t[p + q - 1] = J[k][q]
    BY DEF Has
  <2>3. CASE k = n
    <3>1. J[k] = part /\ SaidFrom(fields, k) = Before(Member(fields[k]), <<>>)
      BY <1>1, <2>3, SaidBefore DEF JoinedAt, n
    <3>2. Has(t, p, Part(fields[k])) /\ p + Len(Part(fields[k])) = Len(t) + 1
      BY <3>1
    <3>3. DictionaryAt(t, p, D) = Dictionary(Before(Member(fields[k]), <<>>))
      BY <1>3, <2>1, <3>2, LastIsRead
    <3> QED
      BY <2>1, <3>1, <3>3
  <2>4. CASE k # n
    <3> DEFINE all == J[k]
               next == J[k + 1]
               a == Len(part)
    <3>1. a \in Nat /\ a >= 1
      BY <1>5
    <3>2. k + 1 \in 1..n /\ next \in Seq(Characters)
      BY <1>6, <2>4
    <3>3. Len(next) \in Nat \ {0} /\ next[1] \in KeyStarts
      BY <1>7, <3>2
    <3>4. Len(all) = a + 1 + 1 + Len(next)
      BY <1>6, <2>4
    <3>5. \A q \in 1..a : all[q] = part[q]
      BY <1>6, <2>4
    <3>6. all[a + 1] = Comma /\ all[a + 1 + 1] = Blank
      BY <1>6, <2>4
    <3>7. \A q \in 1..Len(next) : all[a + 1 + 1 + q] = next[q]
      BY <1>6, <2>4
    <3>8. /\ p + Len(all) = Len(t) + 1
          /\ \A q \in 1..Len(all) : t[p + q - 1] = all[q]
      BY <2>2
    <3>9. p \in Nat \ {0} /\ Len(t) \in Nat /\ e = p + a
      BY <1>3
    <3>10. Has(t, p, part)
      <4> SUFFICES p + a - 1 <= Len(t) /\ \A q \in 1..a : t[p + q - 1] = part[q]
        BY DEF Has
      <4> HIDE DEF part, a, all, next, e
      <4> QED
        BY <3>1, <3>3, <3>4, <3>5, <3>8, <3>9
    <3> HIDE DEF part, a, all, next, e
    <3>11. t[e] = Comma /\ t[e + 1] = Blank
      <4>1. a + 1 \in 1..Len(all) /\ a + 1 + 1 \in 1..Len(all)
        BY <3>1, <3>3, <3>4
      <4>2. t[p + (a + 1) - 1] = Comma /\ t[p + (a + 1 + 1) - 1] = Blank
        BY <3>6, <3>8, <4>1
      <4>3. p + (a + 1) - 1 = e /\ p + (a + 1 + 1) - 1 = e + 1
        BY <3>1, <3>9
      <4> QED
        BY <4>2, <4>3
    <3>12. \A q \in 1..Len(next) : t[(e + 2) + q - 1] = next[q]
      <4>1. ASSUME NEW q \in 1..Len(next) PROVE t[(e + 2) + q - 1] = next[q]
        <5>1. a + 1 + 1 + q \in 1..Len(all)
          BY <3>1, <3>3, <3>4
        <5>2. t[p + (a + 1 + 1 + q) - 1] = next[q]
          BY <3>7, <3>8, <5>1
        <5>3. p + (a + 1 + 1 + q) - 1 = (e + 2) + q - 1
          BY <3>1, <3>3, <3>9
        <5> QED
          BY <5>2, <5>3
      <4> QED
        BY <4>1
    <3>13. e + 2 \in 1..Len(t) /\ e + 2 + Len(next) = Len(t) + 1 /\ e + 2 <= Len(t)
      BY <3>1, <3>3, <3>4, <3>8, <3>9
    <3>14. Has(t, e + 2, next)
      <4>1. e + 2 + Len(next) - 1 <= Len(t)
        BY <3>3, <3>13
      <4> QED
        BY <3>12, <4>1 DEF Has
    <3>15. t[e + 2] \notin Blanks
      <4>1. 1 \in 1..Len(next) /\ (e + 2) + 1 - 1 = e + 2
        BY <3>1, <3>3, <3>9
      <4>2. t[(e + 2) + 1 - 1] = next[1]
        BY <3>12, <4>1
      <4> QED
        BY <3>3, <4>1, <4>2, Delimiters
    <3>16. D[e + 2] = Dictionary(SaidFrom(fields, k + 1))
      <4>1. k + 1 \in S
        BY <1>2, <1>8, <3>2
      <4> QED
        BY <3>13, <3>14, <4>1 DEF next
    <3>17. D[p] = IF D[e + 2].ok
                  THEN Dictionary(Before(Member(fields[k]), D[e + 2].fields))
                  ELSE Malformed
      <4>1. e = p + Len(Part(fields[k])) /\ Has(t, p, Part(fields[k]))
        BY <3>9, <3>10 DEF part, a
      <4>2. fields[k] \in Field /\ e + 2 <= Len(t)
        BY <2>1, <3>13
      <4>3. DictionaryAt(t, p, D)
               = IF D[e + 2].ok
                 THEN Dictionary(Before(Member(fields[k]), D[e + 2].fields))
                 ELSE Malformed
        BY <1>3, <3>11, <3>15, <4>1, <4>2, NextIsRead
      <4> QED
        BY <2>1, <4>3
    <3>18. D[e + 2].ok /\ D[e + 2].fields = SaidFrom(fields, k + 1)
      BY <3>16 DEF Dictionary
    <3>19. SaidFrom(fields, k) = Before(Member(fields[k]), SaidFrom(fields, k + 1))
      BY <2>4, SaidBefore DEF n
    <3> QED
      BY <3>17, <3>18, <3>19
  <2> QED
    BY <2>3, <2>4
<1> HIDE DEF S
<1>9. 1 \in S
  <2>1. \A k \in 1..n : k \in S
    BY <1>2, <1>8, Downwards
  <2> QED
    BY <1>2, <2>1
<1>10. Len(t) \in Nat \ {0} /\ t[1] \in KeyStarts
  BY <1>1, <1>2, <1>7
<1>11. D[1] = Dictionary(SaidFrom(fields, 1))
  <2>1. 1 \in 1..Len(t) /\ 1 + Len(t) = Len(t) + 1
    BY <1>10
  <2>2. Has(t, 1, t)
    BY <1>10 DEF Has
  <2> QED
    BY <1>1, <1>9, <2>1, <2>2 DEF S
<1>12. Skip(t, 1, Blanks) = 1
  <2>1. 1 \in 1..(Len(t) + 1) /\ 1 \in 1..Len(t) /\ \A k \in 1..(1 - 1) : t[k] \in Blanks
    BY <1>10
  <2>2. Peek(t, 1) \notin Blanks
    BY <1>3, <1>10, <2>1, PeekIs, Delimiters
  <2>3. StopsAt(t, 1, Blanks, 1)
    BY <2>1, <2>2, Alphabet DEF StopsAt
  <2> QED
    BY <1>3, <2>1, <2>3, SkipIs
<1>13. ParseDictionary(t) = D[1]
  <2>1. ~(1 > Len(t))
    BY <1>10
  <2> QED
    BY <1>4, <1>12, <2>1
<1> QED
  BY <1>11, <1>13 DEF t

\* What an agent may say of itself
AgentIdentity ==
    [name : Seq(Characters), version : Seq(Characters), intent : Seq(Characters),
     contact : Seq(Characters), extra : Seq(Field)]

LEMMA FieldsAreFields ==
    ASSUME NEW identity \in AgentIdentity
    PROVE  FieldsOf(identity) \in Seq(Field) /\ FieldsOf(identity) # <<>>
<1>1. /\ <<"n">> \in Keys /\ <<"v">> \in Keys /\ <<"i">> \in Keys /\ <<"c">> \in Keys
  BY AgentHeaderAssumption DEF Keys, KeyCharacters, KeyStarts, Alphanumerics, Digits
<1> DEFINE three == <<[key |-> <<"n">>, value |-> identity.name],
                      [key |-> <<"v">>, value |-> identity.version],
                      [key |-> <<"i">>, value |-> identity.intent]>>
           contact == IF identity.contact # <<>> THEN <<[key |-> <<"c">>, value |-> identity.contact]>>
                      ELSE <<>>
<1>2. three \in Seq(Field) /\ Len(three) = 3
  BY <1>1 DEF AgentIdentity, Field
<1>3. contact \in Seq(Field)
  <2>1. <<[key |-> <<"c">>, value |-> identity.contact]>> \in Seq(Field) /\ <<>> \in Seq(Field)
    BY <1>1 DEF AgentIdentity, Field
  <2> QED
    BY <2>1
<1>4. identity.extra \in Seq(Field)
  BY DEF AgentIdentity
<1>5. FieldsOf(identity) = three \o contact \o identity.extra
  BY DEF FieldsOf
<1> HIDE DEF three, contact
<1>6. three \o contact \in Seq(Field) /\ Len(three \o contact) = Len(three) + Len(contact)
  <2>1. \A r, s \in Seq(Field) : r \o s \in Seq(Field) /\ Len(r \o s) = Len(r) + Len(s)
    OBVIOUS
  <2> QED
    BY <1>2, <1>3, <2>1
<1> DEFINE front == three \o contact
           all == front \o identity.extra
<1>7. front \in Seq(Field) /\ Len(front) >= 3
  <2>1. Len(contact) \in Nat
    BY <1>3
  <2> QED
    BY <1>2, <1>6, <2>1
<1> HIDE DEF front
<1>8. all \in Seq(Field) /\ Len(all) = Len(front) + Len(identity.extra)
  BY <1>4, <1>7
<1>9. all # <<>>
  <2>1. Len(identity.extra) \in Nat /\ Len(front) \in Nat
    BY <1>4, <1>7
  <2> HIDE DEF all
  <2>2. Len(all) # 0
    BY <1>7, <1>8, <2>1
  <2> QED
    BY <2>2
<1>10. FieldsOf(identity) = all
  BY <1>5 DEF front
<1> HIDE DEF all
<1> QED
  BY <1>8, <1>9, <1>10

\* That a site reads what an agent said
ReadsBack(identity) ==
    LET said == LastOfEach(FieldsOf(identity))
        parsed == ParseDictionary(ToHeader(identity))
    IN  /\ parsed.ok
        /\ ParseHeader(parsed) = [key \in DOMAIN said |-> Cleaned(said[key])]

(* parse_header() of to_header() gives each field its value, but for the     *)
(* characters that _quote() replaces, and has no field besides: for every   *)
(* identity, with values of any length and of any characters and with any   *)
(* number of extra fields, as long as their names are keys.                 *)
THEOREM IdentityReadsBack == ASSUME NEW identity \in AgentIdentity PROVE ReadsBack(identity)
<1> DEFINE fields == FieldsOf(identity)
           said == LastOfEach(fields)
           parsed == ParseDictionary(ToHeader(identity))
           keys == {fields[m].key : m \in 1..Len(fields)}
<1>1. fields \in Seq(Field) /\ fields # <<>> /\ DOMAIN fields = 1..Len(fields)
  BY FieldsAreFields
<1> HIDE DEF fields
<1>2. parsed = Dictionary(SaidFrom(fields, 1))
  BY <1>1, HeaderIsRead DEF ToHeader, fields
<1>3. said = [key \in keys |-> fields[LastWith(fields, key)].value]
  BY <1>1 DEF LastOfEach, LastWith
<1>4. SaidFrom(fields, 1) = [key \in keys |-> ReadAs(fields[LastWith(fields, key)])]
  BY DEF SaidFrom
<1> HIDE DEF said, parsed, keys
<1>5. parsed.ok /\ parsed.fields = SaidFrom(fields, 1)
  BY <1>2 DEF Dictionary
<1>6. ParseHeader(parsed) = [key \in keys |-> SaidFrom(fields, 1)[key].text]
  BY <1>4, <1>5 DEF ParseHeader
<1>7. ASSUME NEW key \in keys PROVE SaidFrom(fields, 1)[key].text = Cleaned(said[key])
  BY <1>3, <1>4 DEF ReadAs
<1>8. DOMAIN said = keys
  BY <1>3
<1>9. ParseHeader(parsed) = [key \in DOMAIN said |-> Cleaned(said[key])]
  BY <1>6, <1>7, <1>8
<1> QED
  BY <1>5, <1>9 DEF ReadsBack, said, parsed, fields

\* What is typed is a text.
Text == text \in Seq(Characters)

LEMMA TextIsTyped == Spec => []Text
<1>1. Init => Text
  BY AgentHeaderAssumption DEF Init, Text
<1>2. Text /\ [Next]_vars => Text'
  <2> SUFFICES ASSUME Text, [Next]_vars PROVE Text'
    OBVIOUS
  <2>1. ASSUME NEW c \in Typed, Type(c) PROVE Text'
    <3>1. c \in Characters
      BY AgentHeaderAssumption
    <3> QED
      BY <2>1, <3>1 DEF Type, Text
  <2>2. CASE UNCHANGED vars
    BY <2>2 DEF vars, Text
  <2> QED
    BY <2>1, <2>2 DEF Next
<1> QED
  BY <1>1, <1>2, PTL DEF Spec

(* So whatever is typed, wherever an agent has it in its identity, a site    *)
(* reads it back.                                                           *)
THEOREM WhatIsTypedReadsBack == Spec => []HeaderReadsBack
<1>1. Text => HeaderReadsBack
  <2> SUFFICES ASSUME Text, NEW identity \in Identities PROVE ReadsBack(identity)
    BY DEF HeaderReadsBack, ReadsBack
  <2>1. text \in Seq(Characters) /\ <<>> \in Seq(Characters) /\ <<"1">> \in Seq(Characters)
    BY FirstCharacters DEF Text
  <2>2. <<"*", "1">> \in Keys /\ <<"v">> \in Keys
    BY AgentHeaderAssumption, StructuredFieldsAssumption DEF Keys, KeyCharacters, KeyStarts, Alphanumerics, Digits
  <2>3. PICK contact \in {<<>>, text}, key \in {<<"*", "1">>, <<"v">>} :
            identity = [ name |-> text, version |-> <<"1">>, intent |-> <<>>, contact |-> contact,
                         extra |-> <<[key |-> key, value |-> text]>> ]
    BY DEF Identities
  <2>4. contact \in Seq(Characters) /\ key \in Keys
    BY <2>1, <2>2
  <2>5. [key |-> key, value |-> text] \in Field
    BY <2>1, <2>4 DEF Field
  <2>6. <<[key |-> key, value |-> text]>> \in Seq(Field)
    BY <2>5
  <2>7. identity \in AgentIdentity
    BY <2>1, <2>3, <2>4, <2>6 DEF AgentIdentity
  <2> QED
    BY <2>7, IdentityReadsBack
<1> QED
  BY <1>1, TextIsTyped, PTL

=============================================================================
