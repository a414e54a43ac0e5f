----------------------------- MODULE MCUserTools -----------------------------
(* Cards with capitals, an accent, separators, dropped characters and a      *)
(* colon; "b" is the only field prefix that is known.                        *)
EXTENDS UserTools, TLC

Text(kind, weak, duplicate, title, url) ==
    [kind |-> kind, weak |-> weak, duplicate |-> duplicate, title |-> title, url |-> url]

MCCards ==
    {Text("Password", TRUE, FALSE, <<"a", "b", "A", "b", " ", "a^", "b">>, <<>>),
     Text("ApiToken", FALSE, TRUE, <<"A", "-", "b", " ", "-", "a">>, <<"a", ":", "/", "b">>),
     Text("Password", TRUE, TRUE, <<"b", ":", "a", " ", "a", ":", "-">>, <<"b", "a", "a", "b", "b">>)}

MCKeyNames == (<<"b">> :> "url")
=============================================================================
