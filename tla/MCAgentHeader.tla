---------------------------- MODULE MCAgentHeader ----------------------------
(* All short texts: typed characters of each part there is to play, behind    *)
(* beginnings with what is rarer.  int() takes two digits here.               *)
EXTENDS AgentHeader

MCLetters == {"a", "c", "i", "n", "v", "e acute"}
MCDecimals == {"0", "1"}
MCSuperscripts == {"superscript two"}
MCNumerals == {"one half"}
MCOthers == {"\n", "\r"}
MCNonAscii == {"e acute", "superscript two", "one half"}

\* One character for each part it can play
MCTyped ==
    {"a", "1", "superscript two", "\n", "\"", "\\", "=", ",", ";", "?", ":", "-", ".", " "}

\* No header so far, or one that stands at an item, in a string, in a number, in base64, at
\* a parameter, at its item, at a second member, at its item
MCBeginnings ==
    {<<>>, <<"a", "=">>, <<"a", "=", Quote>>, <<"a", "=", "1">>, <<"a", "=", "-">>,
     <<"a", "=", ":", "a", "+">>, <<"e acute", "one half", ";">>, <<"a", ";", "a", "=">>,
     <<"a", "=", "1", ",">>, <<"a", ",", "a", "=">>}

=============================================================================
