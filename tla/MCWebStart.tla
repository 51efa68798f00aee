------------------------------ MODULE MCWebStart ------------------------------
(* An instance of WebStart for TLC: two pages in two submenus, and variables   *)
(* that refer to others, one of which the status brings.                      *)
EXTENDS WebStart, TLC

CONSTANTS s1, s2

TwoSockets == {s1, s2}

MCPageMenus  == {<<"Settings", "MQTT">>, <<"Maintenance", "System">>}
MCHome       == <<"Settings", "MQTT">>
MCSettings   == <<[name |-> "prog_name", text |-> <<"LSC">>],
                  [name |-> "title", text |-> <<"prog_name", "/", "prog_ver">>],
                  [name |-> "footer", text |-> <<"title", "by", "title">>]>>
MCStatusVars == <<[name |-> "prog_name", text |-> <<>>],
                  [name |-> "prog_ver", text |-> <<"1.0">>]>>
MCLanguages  == [default |-> "en", user |-> "de"]

ASSUME MenusHaveTwoLevels == TwoLevels
ASSUME VarsHaveSevenLevels == SevenLevels
===============================================================================
