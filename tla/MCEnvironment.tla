--------------------------- MODULE MCEnvironment ---------------------------
(* Instances of Environment for TLC: one name is the beginning of another. *)
EXTENDS Environment

MCChars == {"NUL", "=", "e", "a", "b", "c", "s", "1"}
MCNames == {<<"e">>, <<"a">>, <<"a", "b">>, <<"c">>, <<"s">>}
MCValues == {<<>>, <<"1">>}
MCEthaddr == <<"e">>
MCEthValue == <<"1">>
MCServerip == <<"a">>
MCIpaddr == <<"a", "b">>
MCBootfile == <<"s">>
MCAnswers == {<<<<"2">>, <<"2">>>>, <<<<"2">>, NoIP>>}
MCBaudrate == {<<"s">>}
MCConsole == {<<"c">>}
MCDefault == <<"a", "b", "=", "1", "NUL", "NUL">>
============================================================================
