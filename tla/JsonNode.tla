------------------------------- MODULE JsonNode -------------------------------
(***************************************************************************)
(* CJsonNode (CJsonNode.cpp): the tree in which every configuration and    *)
(* every message of the library is built, its text, and the parser that    *)
(* reads the text back.                                                    *)
(*                                                                         *)
(* A node is a record.  A key is a sequence of names: "wifi.ip" is         *)
(* <<"wifi", "ip">>.  A place in a tree is the sequence of the positions   *)
(* that lead to it, as the pointer returned by getObject() would.          *)
(*                                                                         *)
(* A text is a sequence of tokens: a delimiter <<"{">>, <<":">>, ... or a  *)
(* scalar <<"s", text, quoted>>.  What parseValue() does to the characters *)
(* of a scalar, and serializeNode() before it, is Scan and Quote below.    *)
(*                                                                         *)
(* Names are not quoted: serializeNode() writes their characters as they   *)
(* are, between quotation marks.  Without a quotation mark and a backslash *)
(* in it that is what Quote makes of a name.  With one of them it is read  *)
(* as another name (it stands in Misread), or its string is not closed     *)
(* where it ends (it is in Unclosed): an odd number of quotation marks, a  *)
(* backslash before a letter or at the end.  Names with a delimiter        *)
(* outside their own quotation marks are left out.                         *)
(***************************************************************************)
EXTENDS Integers, Sequences, SequencesExt

CONSTANTS
    MaxDepth,  \* bound: the levels of a document below its root
    Misread,   \* what parseValue() makes of the names that are read as others
    Unclosed   \* the names whose string goes on behind them

ASSUME DepthAssumption == MaxDepth \in Nat

Object == "object"
Array  == "array"
Value  == "value"

Node(name, type, value, quoted, elements) ==
    [name |-> name, type |-> type, value |-> value, quoted |-> quoted,
     elements |-> elements]

NoName == ""
ASSUME NoNameAssumption == NoName \in STRING  \* the provers have no rule for it

\* What is read as a name, or as a value, when the string is not closed.
Swallowed == "all that follows"

IsPlain(name) == name \notin DOMAIN Misread \cup Unclosed
ASSUME NamesAssumption ==
    /\ Misread \in [DOMAIN Misread -> STRING] /\ DOMAIN Misread \subseteq STRING
    /\ Unclosed \subseteq STRING /\ IsPlain(NoName) /\ Swallowed \in STRING

Empty(name, type) == Node(name, type, "", TRUE, <<>>)
Scalar(name, value, quoted) == Node(name, Value, value, quoted, <<>>)

\* CJsonNode oDoc;
NewDocument == Empty(NoName, Object)

\* The nodes with at most h levels below them.
Trees[h \in 0..MaxDepth] ==
    [name : STRING, type : {Object, Array, Value}, value : STRING, quoted : BOOLEAN,
     elements : IF h = 0 THEN {<<>>} ELSE Seq(Trees[h - 1])]

Documents == Trees[MaxDepth]

-------------------------------------------------------------------------------
(* Searching.                                                                *)

\* The first child with this name, or 0.
ChildNamed(node, name) ==
    LET found == {i \in 1..Len(node.elements) : node.elements[i].name = name}
    IN  IF found = {} THEN 0 ELSE CHOOSE i \in found : \A j \in found : i <= j

At(node, place) ==
    LET at[n \in 0..Len(place)] ==
            IF n = 0 THEN node ELSE at[n - 1].elements[place[n]]
    IN  at[Len(place)]

WithElement(node, i, new) == [node EXCEPT !.elements[i] = new]

\* The node with another one at a place.
Put(node, place, new) ==
    LET put[n \in 0..Len(place)] ==   \* seen from the place: n steps above it
            IF n = 0 THEN new
            ELSE LET above == Len(place) - n
                 IN  WithElement(At(node, SubSeq(place, 1, above)), place[above + 1], put[n - 1])
    IN  put[Len(place)]

\* find(): the place of a key below a node, name by name; nothing is at <<0>>.
Nowhere == <<0>>

Find(node, key) ==
    LET found[n \in 0..Len(key)] ==
            IF n = 0 THEN <<>>
            ELSE IF found[n - 1] = Nowhere THEN Nowhere
            ELSE LET i == ChildNamed(At(node, found[n - 1]), key[n])
                 IN  IF i = 0 THEN Nowhere ELSE Append(found[n - 1], i)
    IN  found[Len(key)]

\* The places of a node and of all that are below it; places has those of its elements.
Below(places, node) ==
    {<<>>} \cup UNION {{<<i>> \o p : p \in places[node.elements[i]]} : i \in DOMAIN node.elements}

PlacesOf[h \in 0..MaxDepth] == [node \in Trees[h] |-> Below(PlacesOf[h - 1], node)]

Places(node) == PlacesOf[MaxDepth][node]

-------------------------------------------------------------------------------
(* Elements that are created on demand.                                      *)

AddChild(node, child) == [node EXCEPT !.elements = Append(@, child)]

\* A node that is wanted as another type is cleared and converted.
Converted(node, type) ==
    IF node.type = type THEN node ELSE Node(node.name, type, node.value, node.quoted, <<>>)

\* A mutant of GetOrAdd: an element of the wrong type is not reused but added.
GetOrAddSameType(owner, key, type) ==
    LET place == Find(owner, key)
    IN  IF place = Nowhere \/ (place # Nowhere /\ At(owner, place).type # type)
        THEN [tree |-> AddChild(owner, Empty(Last(key), type)), place |-> <<Len(owner.elements) + 1>>]
        ELSE [tree |-> owner, place |-> place]

\* getObject(), getArray() and getElement() with bCreateIfNotExist, behind the
\* path: [tree, place of the element].  The code looks for the complete key, and
\* adds an element with its last name if that fails.
GetOrAdd(owner, key, type) ==
    LET place == Find(owner, key)
    IN  IF place = Nowhere
        THEN [tree |-> AddChild(owner, Empty(Last(key), type)), place |-> <<Len(owner.elements) + 1>>]
        ELSE [tree |-> Put(owner, place, Converted(At(owner, place), type)), place |-> place]

\* An element of an inner tree, which is at a place of an outer one.
Within(outer, inner) ==
    [tree |-> Put(outer.tree, outer.place, inner.tree), place |-> outer.place \o inner.place]

\* createJsonPathToElement(): the objects before the last name of the key.
PathTo(node, key) ==
    LET path[n \in 0..Len(key) - 1] ==
            IF n = 0 THEN [tree |-> node, place |-> <<>>]
            ELSE Within(path[n - 1],
                        GetOrAdd(At(path[n - 1].tree, path[n - 1].place), <<key[n]>>, Object))
    IN  path[Len(key) - 1]

\* The same three functions as a whole.
Get(node, key, type) ==
    LET path == PathTo(node, key)
    IN  Within(path, GetOrAdd(At(path.tree, path.place), key, type))

\* (*this)[key] = value
SetScalar(got, value, quoted) ==
    Put(got.tree, got.place, Scalar(At(got.tree, got.place).name, value, quoted))

Assign(node, key, value, quoted) == SetScalar(Get(node, key, Value), value, quoted)

WithObject(node, key) == Get(node, key, Object).tree

\* remove(): a direct child only.
Removed(node, name) ==
    LET i == ChildNamed(node, name)
    IN  IF i = 0 THEN node ELSE [node EXCEPT !.elements = RemoveAt(@, i)]

\* getValue(key): "" when there is none.
Lookup(node, key) ==
    LET place == Find(node, key)
    IN  IF place = Nowhere THEN "" ELSE At(node, place).value

-------------------------------------------------------------------------------
(* The text of a tree.                                                       *)

Open(type)  == IF type = Object THEN <<"{">> ELSE <<"[">>
Close(type) == IF type = Object THEN <<"}">> ELSE <<"]">>
Colon       == <<":">>
Comma       == <<",">>
Text(s, quoted) == <<"s", s, quoted>>

\* A name that leaves its string open.
OpenName == <<"s", Swallowed, TRUE, "not closed">>

\* A name is written as it is: the token that its characters are to parseValue().
NameText(name) ==
    IF name \in Unclosed THEN OpenName
    ELSE Text(IF name \in DOMAIN Misread THEN Misread[name] ELSE name, TRUE)

\* serializeNode(), without the indentation of the pretty form: the text of a child,
\* and of a node, when texts has those of its elements.
NameOf(node) == IF node.name # NoName THEN <<NameText(node.name), Colon>> ELSE <<>>

ChildText(texts, node, i) ==
    (IF i > 1 THEN <<Comma>> ELSE <<>>) \o NameOf(node.elements[i]) \o texts[node.elements[i]]

NodeText(texts, node) ==
    IF node.type = Value THEN <<Text(node.value, node.quoted)>>
    ELSE <<Open(node.type)>>
         \o FlattenSeq([i \in DOMAIN node.elements |-> ChildText(texts, node, i)])
         \o <<Close(node.type)>>

TextOf[h \in 0..MaxDepth] == [node \in Trees[h] |-> NodeText(TextOf[h - 1], node)]

Serialize(node) == TextOf[MaxDepth][node]

-------------------------------------------------------------------------------
(* parse(): a turn of its loop begins at a cursor: the position, the key that was *)
(* read, and the type of the node that is being filled.  The text ends with a     *)
(* zero byte at Len(text) + 1.                                                    *)

Cursors == [pos : Nat \ {0}, key : STRING, type : {Object, Array, Value}]
Cursor(pos, key, type) == [pos |-> pos, key |-> key, type |-> type]

IsOpening(token)   == token \in {Open(Object), Open(Array)}
IsSeparator(token) == token \in {Close(Object), Close(Array), Comma}

\* Where parse() starts in a node of a type: behind the opening bracket, if there is one.
Entered(text, pos, type) ==
    IF pos <= Len(text) /\ IsOpening(text[pos])
    THEN Cursor(pos + 1, NoName, IF text[pos] = Open(Object) THEN Object ELSE Array)
    ELSE Cursor(pos, NoName, type)

IsKey(text, pos) == pos < Len(text) /\ text[pos + 1] = Colon

\* Where the scalar at a position ends.  In an open string the strings that follow are
\* outside and all between them is inside, up to the next name that leaves its own open.
\* (What is read is taken for a plain text, and no value holds delimiters.)
EndOf(text, pos) ==
    LET later == {q \in pos + 1..Len(text) : text[q] = OpenName}
    IN  IF text[pos] # OpenName THEN pos
        ELSE IF later = {} THEN Len(text)
        ELSE CHOOSE q \in later : \A r \in later : q <= r

\* A mutant of Past: the delimiter behind the element is left to the loop.
OnDelimiter(pos) == pos

\* The delimiter behind an element is skipped.
Past(pos) == pos + 1

\* What the loop reads from a cursor on - where it stops, and the elements - when
\* read is what it reads further behind.
\*
\* A container that is done leaves the cursor on the token that ended its loop.
\* Behind a scalar that is one token behind its closing bracket, which has been
\* skipped as the delimiter of the scalar; in an empty container it is the
\* closing bracket itself.
Stop(pos) == [pos |-> pos, elements |-> <<>>]
Read(element, rest) == [pos |-> rest.pos, elements |-> <<element>> \o rest.elements]

Turn(text, read, at) ==
    LET token == text[at.pos]
    IN  IF at.pos > Len(text) \/ IsSeparator(token) THEN Stop(at.pos)
        ELSE IF IsOpening(token)
        THEN LET inner == Entered(text, at.pos, Object)
                 sub   == read[inner]
             IN  Read(Node(at.key, inner.type, "", TRUE, sub.elements),
                      read[Cursor(Past(sub.pos), at.key, at.type)])
        ELSE IF token = Colon   \* behind an empty name
        THEN IF at.type = Array THEN Stop(at.pos)
             ELSE read[Cursor(at.pos + 1, NoName, at.type)]
        ELSE LET end == EndOf(text, at.pos)
             IN  IF IsKey(text, end)
                 THEN IF at.type = Array THEN Stop(end + 1)
                      ELSE read[Cursor(end + 2, token[2], at.type)]
                 ELSE Read(Scalar(IF at.type = Array THEN NoName ELSE at.key, token[2], token[3]),
                           read[Cursor(Past(end + 1), NoName, at.type)])

Reading(text) == LET read[at \in Cursors] == Turn(text, read, at) IN read

\* parse() adds to what the node already holds; ReadsAll tells where it stopped.
Parse(node, text) ==
    LET start == Entered(text, 1, node.type)
    IN  Node(node.name, start.type, node.value, node.quoted,
             node.elements \o Reading(text)[start].elements)

ReadsAll(text) == Reading(text)[Entered(text, 1, Object)].pos > Len(text)

-------------------------------------------------------------------------------
(* The characters of a scalar: serializeNode() escapes the backslash and the   *)
(* quote, parseValue() runs over the characters with two flags.                *)

Quotation == "quotation mark"
Backslash == "backslash"
Bracket   == "bracket, brace, colon or comma"
Letter    == "letter"
Blank     == "white space"

Escaped(c) == IF c \in {Backslash, Quotation} THEN <<Backslash, c>> ELSE <<c>>

Quote(chars) ==
    <<Quotation>> \o FlattenSeq([i \in DOMAIN chars |-> Escaped(chars[i])]) \o <<Quotation>>

\* A mutant of ScanOne: the escape stays active behind an escaped backslash.
ScanOneKeepsEscape(at, c) ==
    CASE at.stop -> at
      [] ~at.stop /\ c = Quotation ->
            IF at.escape THEN [at EXCEPT !.data = Append(@, c), !.escape = FALSE]
                         ELSE [at EXCEPT !.inside = ~@]
      [] ~at.stop /\ c = Backslash ->
            IF at.escape THEN [at EXCEPT !.data = Append(@, c)]
                         ELSE [at EXCEPT !.escape = TRUE]
      [] ~at.stop /\ c = Bracket ->
            IF at.inside THEN [at EXCEPT !.data = Append(@, c)] ELSE [at EXCEPT !.stop = TRUE]
      [] ~at.stop /\ c \in {Blank, Letter} -> [at EXCEPT !.data = Append(@, c)]

\* One character: data, bEscapeIsActive, bStringIsActive, bStopParsing.
ScanOne(at, c) ==
    CASE at.stop -> at
      [] ~at.stop /\ c = Quotation ->
            IF at.escape THEN [at EXCEPT !.data = Append(@, c), !.escape = FALSE]
                         ELSE [at EXCEPT !.inside = ~@]
      [] ~at.stop /\ c = Backslash ->
            IF at.escape THEN [at EXCEPT !.data = Append(@, c), !.escape = FALSE]
                         ELSE [at EXCEPT !.escape = TRUE]
      [] ~at.stop /\ c = Bracket ->
            IF at.inside THEN [at EXCEPT !.data = Append(@, c)] ELSE [at EXCEPT !.stop = TRUE]
      [] ~at.stop /\ c = Blank ->
            IF at.inside THEN [at EXCEPT !.data = Append(@, c)] ELSE at
      [] ~at.stop /\ c = Letter -> [at EXCEPT !.data = Append(@, c)]

Scan(chars) ==
    LET at[n \in 0..Len(chars)] ==
            IF n = 0 THEN [data |-> <<>>, escape |-> FALSE, inside |-> FALSE, stop |-> FALSE]
            ELSE ScanOne(at[n - 1], chars[n])
    IN  at[Len(chars)]
===============================================================================
