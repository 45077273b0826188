-------------------------- MODULE StructuredFields --------------------------
(***************************************************************************)
(* _structured_fields.py: parse_sf_dictionary() reads a header value, a    *)
(* sequence of characters, into a function from keys to items.             *)
(*                                                                         *)
(* A method of _Parser is an operator from the position it begins at to    *)
(* the one where it ends, or 0 where it raises ValueError.  The characters *)
(* are told apart by what the methods of str that the parser calls, and    *)
(* int() and b64decode(), say of them.  What an item is read from is kept, *)
(* with its kind: int(), float() and b64decode() of it are not computed,   *)
(* only whether they fail.                                                 *)
(***************************************************************************)
EXTENDS Integers, Sequences, FiniteSets

CONSTANTS
    Letters,            \* characters that isalpha()
    Decimals,           \* ... that isdecimal(), which int() and float() take
    Superscripts,       \* ... that isdigit() and not isdecimal(), which they refuse
    Numerals,           \* ... that isalnum() and none of these: a fraction, a Roman numeral
    Others,             \* the other characters that mean nothing here
    NonAscii,           \* those of all these that are not in ASCII
    LongestInteger      \* the most digits that int() takes: 4300

Digits == Decimals \cup Superscripts
Alphanumerics == Letters \cup Digits \cup Numerals

\* What peek() gives at the end
End == ""

\* What only a token may hold (a string of TLA+ cannot hold a backquote)
TokenMarks == {"/", "!", "#", "$", "%", "&", "'", "^", "backquote", "|", "~"}
Syntax ==
    TokenMarks
    \cup {"\"", "\\", "=", ",", ";", "?", ":", "_", "-", ".", "*", "+", " ", "\t"}
Characters == Alphanumerics \cup Others \cup Syntax

ASSUME StructuredFieldsAssumption ==
    /\ {"0", "1"} \subseteq Decimals \ NonAscii
    /\ Letters \cap Digits = {} /\ Decimals \cap Superscripts = {}
    /\ Numerals \cap (Letters \cup Digits) = {}
    /\ Others \cap Alphanumerics = {}
    /\ Syntax \cap (Alphanumerics \cup Others) = {}
    /\ Superscripts \cup Numerals \subseteq NonAscii
    /\ NonAscii \subseteq Alphanumerics \cup Others
    /\ End \notin Characters
    /\ LongestInteger \in Nat \ {0}

Quote == "\""
Backslash == "\\"
Comma == ","
Semicolon == ";"
Blank == " "
Blanks == {Blank, "\t"}
KeyStarts == Letters \cup {"*"}
KeyCharacters == Alphanumerics \cup {"_", "-", ".", "*"}
TokenCharacters == KeyCharacters \cup TokenMarks \cup {":"}

-----------------------------------------------------------------------------
(* The parser *)

Peek(t, i) == IF i \in DOMAIN t THEN t[i] ELSE End

\* The first position from i on whose character is not in S (and 0 of 0, where something raised)
Skip(t, i, S) ==
    IF i = 0 THEN 0
    ELSE CHOOSE j \in i..(Len(t) + 1) : Peek(t, j) \notin S /\ \A k \in i..(j - 1) : t[k] \in S

\* parse_key()
KeyEnd(t, i) == IF Peek(t, i) \in KeyStarts THEN Skip(t, i, KeyCharacters) ELSE 0

\* What parse_item() returns and where it ends
Read(kind, text, next) == [next |-> next, value |-> [kind |-> kind, text |-> text]]
Unreadable == Read("none", <<>>, 0)

\* key is shorthand for key=?1
True == [kind |-> "boolean", text |-> <<"1">>]

\* Fault: the string ends at the next quote
StringUpToQuote(t, i) ==
    LET end == Skip(t, i, Characters \ {Quote})
    IN  IF end > Len(t) THEN Unreadable ELSE Read("string", SubSeq(t, i, end - 1), end + 1)

\* _parse_string() after its opening quote
String(t, i) ==
    LET From[j \in 1..(Len(t) + 1)] ==
            LET escaped == Peek(t, j) = Backslash
                rest == IF escaped THEN From[j + 2] ELSE From[j + 1]
                c == IF escaped THEN Peek(t, j + 1) ELSE Peek(t, j)
            IN  CASE c = Quote /\ ~escaped -> Read("string", <<>>, j + 1)
                  [] c # End /\ (escaped <=> c \in {Quote, Backslash}) ->
                        Read("string", <<c>> \o rest.value.text, rest.next)
                  [] OTHER -> Unreadable
    IN  From[i]

\* Where _parse_number() ends
NumberEnd(t, i) ==
    LET digits == IF Peek(t, i) = "-" THEN i + 1 ELSE i
        point == Skip(t, digits, Digits)
        end == Skip(t, point + 1, Digits)
    IN  CASE point > digits /\ Peek(t, point) # "." -> point
          [] point > digits /\ Peek(t, point) = "." /\ end > point + 1 -> end
          [] OTHER -> 0

\* Where int() or float() takes it: no superscript, and an integer not too long
Converts(number) ==
    LET digits == IF number[1] = "-" THEN Len(number) - 1 ELSE Len(number)
    IN  /\ \A k \in DOMAIN number : number[k] \notin Superscripts
        /\ (\A k \in DOMAIN number : number[k] # ".") => digits <= LongestInteger

\* b64decode() of the characters between two colons.  It raises where one is not in ASCII,
\* skips those that are no digit of base64, ends at the = that fill up four digits, and raises
\* when the last four are not full
Decodes(encoded) ==
    LET kept == SelectSeq(encoded, LAMBDA c : c \in Letters \cup Decimals \cup {"+", "/", "="})
        DigitsOf(k) == Cardinality({j \in 1..k : kept[j] # "="})
    IN  /\ \A k \in DOMAIN encoded : encoded[k] \notin NonAscii
        /\ \/ DigitsOf(Len(kept)) % 4 = 0
           \/ \E k \in 1..Len(kept) :
                 /\ kept[k] = "="
                 /\ \/ DigitsOf(k) % 4 = 3
                    \/ DigitsOf(k) % 4 = 2 /\ kept[k - 1] = "="

\* parse_item()
Item(t, i) ==
    LET c == Peek(t, i)
        colon == Skip(t, i + 1, Characters \ {":"})
        encoded == SubSeq(t, i + 1, colon - 1)
        number == NumberEnd(t, i)
        token == Skip(t, i, TokenCharacters)
    IN  CASE c = Quote -> String(t, i + 1)
          [] c = "?" -> IF Peek(t, i + 1) \in {"0", "1"}
                        THEN Read("boolean", <<t[i + 1]>>, i + 2) ELSE Unreadable
          [] c = ":" -> IF colon <= Len(t) /\ Decodes(encoded)
                        THEN Read("bytes", encoded, colon + 1) ELSE Unreadable
          [] c \in Digits \cup {"-"} ->
                IF number # 0 /\ Converts(SubSeq(t, i, number - 1))
                THEN Read("number", SubSeq(t, i, number - 1), number) ELSE Unreadable
          [] c \in KeyStarts -> Read("token", SubSeq(t, i, token - 1), token)
          [] OTHER -> Unreadable

\* A key, and its item when an = follows, blanks before it or not
Assigned(key, item) == [key |-> key, next |-> item.next, value |-> item.value]
Assignment(t, i) ==
    LET key == KeyEnd(t, i)
        equals == Skip(t, key, Blanks)
    IN  Assigned(SubSeq(t, i, key - 1),
                 CASE key = 0 -> Unreadable
                   [] key # 0 /\ Peek(t, equals) = "=" -> Item(t, equals + 1)
                   [] OTHER -> [next |-> equals, value |-> True])

\* _skip_parameters()
ParametersEnd(t, i) ==
    LET From[j \in 0..(Len(t) + 1)] ==
            IF Peek(t, j) # Semicolon THEN j
            ELSE LET parameter == Assignment(t, Skip(t, j + 1, Blanks))
                 IN  IF parameter.next = 0 THEN 0 ELSE From[Skip(t, parameter.next, Blanks)]
    IN  From[i]

\* What the loop of parse_sf_dictionary() has when it ends
Malformed == [ok |-> FALSE, fields |-> <<>>]
Dictionary(fields) == [ok |-> TRUE, fields |-> fields]

\* The fields with one before them: a key that comes again replaces what it was before
Before(member, fields) ==
    [k \in {member.key} \cup DOMAIN fields |-> IF k \in DOMAIN fields THEN fields[k] ELSE member.value]

\* parse_sf_dictionary()
ParseDictionary(t) ==
    LET From[i \in 1..(Len(t) + 1)] ==
            LET member == Assignment(t, i)
                end == Skip(t, ParametersEnd(t, member.next), Blanks)
                next == Skip(t, end + 1, Blanks)
                rest == From[next]
            IN  CASE end > Len(t) -> Dictionary(Before(member, <<>>))
                  [] Peek(t, end) = Comma /\ next <= Len(t) /\ rest.ok ->
                       Dictionary(Before(member, rest.fields))
                  [] OTHER -> Malformed
        first == Skip(t, 1, Blanks)
    IN  IF first > Len(t) THEN Dictionary(<<>>) ELSE From[first]

=============================================================================
