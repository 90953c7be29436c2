------------------------ MODULE MCSentenceSplitting ------------------------
EXTENDS SentenceSplitting

(* Two tables.  The first has two sections, one of them in a language SaT  *)
(* does not read; its second edition adds one and empties another.         *)
MCTables == <<"a", "b">>
S(language, length) == [language |-> language, length |-> length]
MCSections ==
    [t \in {"a", "b"} |->
        IF t = "a"
        THEN 0 :> <<S("en", 3), S("xx", 2)>> @@ 1 :> <<S("en", 0), S("en", 2), S("xx", 2)>>
        ELSE 0 :> <<S("en", 1)>> @@ 1 :> <<S("en", 2)>>]
(* The second version cuts elsewhere, and loses a character of three.      *)
MCPieces == [s1 |-> <<<<1>>, <<1, 1>>, <<1, 2>>>>, s2 |-> <<<<1>>, <<2>>, <<1, 1>>>>]
=============================================================================
