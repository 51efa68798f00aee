------------------------------ MODULE MCWebBuild ------------------------------
(***************************************************************************)
(* Two pages, one with a class of its own and one without, and one language *)
(* file.  The page "b" has a value where the project has a section, and "a" *)
(* puts a text into it: built in the order a, b the pages can be joined once*)
(* only, and in the order b, a never.  The project has a list of lines for  *)
(* which both pages have a section, and "c" puts a list of its own around a *)
(* text of "a".                                                             *)
(***************************************************************************)
EXTENDS WebBuild

MCPages == {"a", "b", "c"}
MCHandlerOf == [p \in MCPages |-> IF p = "a" THEN "CPageA" ELSE "none"]
MCLanguages == <<"de.json">>
MCTextsOf == [p \in MCPages |-> [l \in {"de.json"} |->
                CASE p = "a" -> { <<"main", "title">>, <<"menu", "a">>, <<"help", "a">>, <<"info", "a">> }
                  [] p = "b" -> { <<"main", "title">>, <<"menu">>, <<"help", "b">> }
                  [] p = "c" -> { <<"main", "title">>, <<"info">> }]]
MCOwnTexts == { <<"menu", "signin">>, <<"main", "ok">>, <<"help">> }
MCListsOf == [p \in MCPages \cup {"own"} |-> [l \in {"de.json"} |->
                CASE p = "own" -> { <<"help">> } [] p = "c" -> { <<"info">> } [] OTHER -> {}]]
MCPageLists == { <<"a">>, <<"a", "b">>, <<"b", "a">>, <<"c", "a">> }
===============================================================================
