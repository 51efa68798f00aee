---------------------------- MODULE MCJsonDocument ----------------------------
(* Instances of JsonDocument for TLC.                                        *)
EXTENDS JsonDocument, TLC

PlainKeys == {<<"a">>, <<"b">>}
Quoted == "\"a\""     \* is read as a
Marked == "a\""       \* leaves its string open

SomeNames == {"a", Quoted, Marked}
ReadAs    == [n \in {Quoted} |-> "a"]
OpenNames == {Marked}

DottedKeys == {<<"a">>, <<"b">>, <<"a", "b">>}
===============================================================================
