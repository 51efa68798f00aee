---------------------------- MODULE MCConfigStore ----------------------------
(* Instances of ConfigStore for TLC.                                         *)
EXTENDS ConfigStore

None == NoFile

\* The names of the settings and of the variables need no quoting.
NoMisread == [n \in {} |-> ""]

\* A file of an older version, with the settings at their old places, and with
\* settings that no module has registered.
OldFile ==
    Serialize(Node("", Object, "", TRUE,
        <<Scalar("custom", "u", TRUE),
          Node("web", Object, "", TRUE, <<Scalar("httpPasswd", "p", TRUE), Scalar("extra", "u", TRUE)>>),
          Node("wifi", Object, "", TRUE, <<Scalar("hostname", "d", TRUE)>>),
          Node("mqtt", Object, "", TRUE, <<Scalar("server", "s", TRUE), Scalar("extra", "u", TRUE)>>)>>))

\* A file that has the variables, and a setting that no module has registered on either side.
FileWithVariables ==
    Serialize(Node("", Object, "", TRUE,
        <<Scalar("custom", "u", TRUE),
          Node("cfg", Object, "", TRUE, <<Scalar("x", "w", TRUE)>>),
          Scalar("later", "u", TRUE)>>))

ForeignKeys == {<<"custom">>, <<"later">>, <<"mqtt", "extra">>, <<"web", "extra">>}

\* What the web page changes: the device password, which has an old place in the file.
PageSettings == {<<<<"devicepwd">>, "q">>}

EmptyPassword == {<<<<"devicepwd">>, "">>, <<<<"devicename">>, "d">>}

\* The memory behind the text of a file: zero, or an opening brace.
OnlyZero    == {<<>>}
ZeroOrBrace == {<<>>, <<Open(Object)>>}

TwoFiles == {OldFile, FileWithVariables}
===============================================================================
