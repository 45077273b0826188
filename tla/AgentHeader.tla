----------------------------- MODULE AgentHeader -----------------------------
(***************************************************************************)
(* The Considerate-Agent header: identity.py renders what an agent says of *)
(* itself (to_header), and a site reads such a header, or whatever else    *)
(* it is sent (parse_header, with parse_sf_dictionary).                    *)
(*                                                                         *)
(* A text is typed character by character.  Each text is checked twice: as *)
(* a header that arrives, against a grammar that is stated here without    *)
(* the parser, and as what an agent has in the fields of its identity.     *)
(* The field names are one letter long: n, v, i, c for name, version,      *)
(* intent and contact.                                                     *)
(***************************************************************************)
EXTENDS StructuredFields, SequencesExt

CONSTANTS
    Typed,          \* the characters that are typed
    Beginnings,     \* what a text begins with
    LongestRest     \* how many characters are typed after that

ASSUME AgentHeaderAssumption ==
    /\ {"n", "v", "i", "c"} \subseteq Letters /\ {"\n", "\r"} \subseteq Others
    /\ Typed \subseteq Characters /\ Beginnings \subseteq Seq(Characters)
    /\ LongestRest \in Nat

VARIABLES text, rest        \* rest: how many characters may follow
vars == <<text, rest>>

Init == text \in Beginnings /\ rest = LongestRest

Type(c) == rest > 0 /\ text' = Append(text, c) /\ rest' = rest - 1

Next == \E c \in Typed : Type(c)

Spec == Init /\ [][Next]_vars

-----------------------------------------------------------------------------
(* identity.py *)

\* _TOKEN_SAFE
Safe(c) ==
    CASE c = "\"" -> "'"
      [] c = "\\" -> "/"
      [] c \in {"\n", "\r"} -> " "
      [] c = ";" -> ","
      [] OTHER -> c

Cleaned(value) == [k \in DOMAIN value |-> Safe(value[k])]

\* Fault: only the quotes of a value are replaced
QuotedUnescaped(value) ==
    <<Quote>> \o [k \in DOMAIN value |-> IF value[k] = Quote THEN "'" ELSE value[k]] \o <<Quote>>

\* _quote()
Quoted(value) == <<Quote>> \o Cleaned(value) \o <<Quote>>

\* The fields of an AgentIdentity that its header has, in order
FieldsOf(identity) ==
    <<[key |-> <<"n">>, value |-> identity.name], [key |-> <<"v">>, value |-> identity.version],
      [key |-> <<"i">>, value |-> identity.intent]>>
    \o (IF identity.contact # <<>> THEN <<[key |-> <<"c">>, value |-> identity.contact]>> ELSE <<>>)
    \o identity.extra

\* The parts of the fields, joined
Joined(fields) ==
    LET Part(field) == field.key \o <<"=">> \o Quoted(field.value)
        From[k \in DOMAIN fields] ==
            IF k = Len(fields) THEN Part(fields[k])
            ELSE Part(fields[k]) \o <<Comma, Blank>> \o From[k + 1]
    IN  From[1]

\* to_header()
ToHeader(identity) == Joined(FieldsOf(identity))

\* parse_header() of what the parser made of a header whose items are all strings
ParseHeader(parsed) == [key \in DOMAIN parsed.fields |-> parsed.fields[key].text]

\* Identities that have the text where an agent may have any
Identities ==
    { [ name |-> text, version |-> <<"1">>, intent |-> <<>>, contact |-> contact,
        extra |-> <<[key |-> key, value |-> text]>> ] :
      contact \in {<<>>, text}, key \in {<<"*", "1">>, <<"v">>} }

\* The function that pairs of a key and a value make, where the last pair of a key counts
LastOfEach(pairs) ==
    [key \in {pairs[k].key : k \in DOMAIN pairs} |->
        pairs[Max({k \in DOMAIN pairs : pairs[k].key = key})].value]

(* What an agent says of itself is what a site reads: each field has its     *)
(* value, whatever quotes, backslashes, commas and line ends are in it, but *)
(* for the characters that are replaced; an extra field replaces the one    *)
(* with its name; and nothing of a value is taken for another field.        *)
HeaderReadsBack ==
    \A identity \in Identities :
        LET said == LastOfEach(FieldsOf(identity))
            parsed == ParseDictionary(ToHeader(identity))
        IN  /\ parsed.ok
            /\ ParseHeader(parsed) = [key \in DOMAIN said |-> Cleaned(said[key])]

-----------------------------------------------------------------------------
(* The grammar: each way to read a part of t from i on, and where it ends *)

\* Where characters of S that begin at i may end
Ends(t, i, S) == {j \in i..(Len(t) + 1) : \A k \in i..(j - 1) : t[k] \in S}

\* Where a word may end, a key or a token: it goes on with characters of S
WordEnds(t, i, S) == IF Peek(t, i) \in KeyStarts THEN Ends(t, i, S) \ {i} ELSE {}

\* The choices of backslashes from i to before j as those that escape the character behind
\* them, such that each escapes something and every quote and backslash is escaped or escapes
Escapings(t, i, j) ==
    {E \in SUBSET {k \in i..(j - 1) : t[k] = Backslash} :
        \A k \in i..(j - 1) :
            IF k \in E THEN k + 1 \in (i..(j - 1)) \ E /\ t[k + 1] \in {Quote, Backslash}
            ELSE t[k] \in {Quote, Backslash} => k - 1 \in E}

\* t from i to before j without what is at the positions in E
Without(t, E, i, j) ==
    LET From[k \in 1..j] ==
            IF k = j THEN <<>> ELSE (IF k \in E THEN <<>> ELSE <<t[k]>>) \o From[k + 1]
    IN  From[i]

Strings(t, i) ==
    UNION {{Read("string", Without(t, E, i, j), j + 1) : E \in Escapings(t, i, j)} :
           j \in {j \in i..Len(t) : t[j] = Quote}}

BytesEnds(t, i) ==
    {j \in Ends(t, i, Characters \ {":"}) : Peek(t, j) = ":" /\ Decodes(SubSeq(t, i, j - 1))}

\* Decimals, after a sign or not: a few of them, or any number before a point and behind it
DigitEnds(t, i) == Ends(t, i, Decimals) \ {i}
NumberEnds(t, i) ==
    LET first == IF Peek(t, i) = "-" THEN i + 1 ELSE i
        whole == DigitEnds(t, first)
    IN  {j \in whole : j - first <= LongestInteger}
        \cup UNION {DigitEnds(t, k + 1) : k \in {k \in whole : Peek(t, k) = "."}}

Items(t, i) ==
    (IF Peek(t, i) = Quote THEN Strings(t, i + 1) ELSE {})
    \cup (IF Peek(t, i) = "?" /\ Peek(t, i + 1) \in {"0", "1"}
          THEN {Read("boolean", <<t[i + 1]>>, i + 2)} ELSE {})
    \cup (IF Peek(t, i) = ":"
          THEN {Read("bytes", SubSeq(t, i + 1, j - 1), j + 1) : j \in BytesEnds(t, i + 1)} ELSE {})
    \cup {Read("number", SubSeq(t, i, j - 1), j) : j \in NumberEnds(t, i)}
    \cup {Read("token", SubSeq(t, i, j - 1), j) : j \in WordEnds(t, i, TokenCharacters)}

\* key, or key=item
Assignments(t, i) ==
    UNION {{Assigned(SubSeq(t, i, k - 1), [next |-> e, value |-> True]) : e \in Ends(t, k, Blanks)}
           \cup UNION {{Assigned(SubSeq(t, i, k - 1), item) : item \in Items(t, e + 1)} :
                       e \in {e \in Ends(t, k, Blanks) : Peek(t, e) = "="}} :
           k \in WordEnds(t, i, KeyCharacters)}

\* Any number of parameters, which are read and dropped
ParameterEnds(t, i) ==
    LET From[j \in 1..(Len(t) + 1)] ==
            {j} \cup UNION {UNION {From[k] : k \in Ends(t, parameter.next, Blanks)} :
                            parameter \in IF Peek(t, j) = Semicolon
                                          THEN UNION {Assignments(t, k) : k \in Ends(t, j + 1, Blanks)}
                                          ELSE {}}
    IN  From[i]

\* Where the parameters of a member end and the blanks behind them
MemberEnds(t, member) == UNION {Ends(t, e, Blanks) : e \in ParameterEnds(t, member.next)}

\* Members with a comma between each two
Members(t, i) ==
    LET From[j \in 1..(Len(t) + 1)] ==
            UNION {UNION {IF e > Len(t) THEN {<<member>>}
                          ELSE {<<member>> \o later :
                                  later \in IF t[e] = Comma
                                            THEN UNION {From[k] : k \in Ends(t, e + 1, Blanks)}
                                            ELSE {}} :
                          e \in MemberEnds(t, member)} :
                   member \in Assignments(t, j)}
    IN  From[i]

\* The readings of a dictionary: of several members with a key the last one counts
Readings(t) ==
    {LastOfEach(members) :
       members \in (IF Len(t) + 1 \in Ends(t, 1, Blanks) THEN {<<>>} ELSE {})
                   \cup UNION {Members(t, k) : k \in Ends(t, 1, Blanks)}}

(* A text is read just when the grammar has a reading of it, the only one,   *)
(* and as that one: a delimiter in a string is no delimiter, what is cut    *)
(* off or goes on behind an item is an error and not half a header, and a   *)
(* character is never read past the end.                                    *)
ReadsByGrammar ==
    Readings(text) = IF ParseDictionary(text).ok THEN {ParseDictionary(text).fields} ELSE {}

=============================================================================
