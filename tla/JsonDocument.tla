----------------------------- MODULE JsonDocument -----------------------------
(***************************************************************************)
(* A document of CJsonNode in use: elements are set, created and removed   *)
(* at any node the program holds a pointer to, and the document goes to a  *)
(* file and comes back from it.                                            *)
(***************************************************************************)
EXTENDS JsonNode, FiniteSets

CONSTANTS
    Keys,      \* the keys in use: sequences of names
    Names,     \* the names of direct children
    Values,    \* the texts of values
    MaxNodes,  \* bound on the nodes of the document (MaxDepth bounds its levels)
    MaxRawNodes, \* the same for one with names that are not read as they are
    MaxConverted, \* the same for one with a container that keeps the text of the value it was
    MaxChars   \* bound on the characters of a scalar, for ScanInvertsQuote

VARIABLE doc   \* the document

ASSUME DocumentAssumption ==
    /\ Keys \subseteq Seq(STRING) /\ Names \subseteq STRING \ {NoName} /\ Values \subseteq STRING
    /\ \A key \in Keys : Len(key) > 0 /\ \A i \in 1..Len(key) : key[i] # NoName
    /\ {MaxNodes, MaxRawNodes, MaxConverted} \subseteq Nat /\ MaxChars \in Nat

Init == doc = NewDocument

ObjectsOf(node) == {p \in Places(node) : At(node, p).type = Object}
ArraysOf(node)  == {p \in Places(node) : At(node, p).type = Array}

\* No name of the document is changed by being written as it is.
NamesArePlain(node) == \A p \in Places(node) : IsPlain(At(node, p).name)

\* No object or array was a value before.
IsFresh(node) == \A p \in Places(node) : At(node, p).type = Value \/ At(node, p).value = ""

Bounded(node) ==
    LET size == Cardinality(Places(node))
    IN  /\ node \in Documents
        /\ size <= MaxNodes
        /\ size <= MaxRawNodes \/ NamesArePlain(node)
        /\ size <= MaxConverted \/ IsFresh(node)

\* The document with the node at place p replaced by what an operation made of it.
Changed(p, new) ==
    /\ doc' = Put(doc, p, new)
    /\ Bounded(doc')

SetValue(p, key, v) == Changed(p, Assign(At(doc, p), key, v, TRUE))

GetObject(p, key) == Changed(p, Get(At(doc, p), key, Object).tree)

GetArray(p, key) == Changed(p, Get(At(doc, p), key, Array).tree)

\* createElement(), with the value it is given then, and createObject(), without a
\* name, into an array.
CreateElement(p, v) == Changed(p, AddChild(At(doc, p), Scalar(NoName, v, TRUE)))
CreateObject(p)     == Changed(p, AddChild(At(doc, p), Empty(NoName, Object)))

\* The same two and createArray() with a name, into an object.
NewElements(name) ==
    {Scalar(name, v, TRUE) : v \in Values} \cup {Empty(name, type) : type \in {Object, Array}}

CreateNamed(p, new) ==
    /\ ChildNamed(At(doc, p), new.name) = 0
    /\ Changed(p, AddChild(At(doc, p), new))

\* Where an element has that name already it is cleared, keeps its value, and stands in
\* the list once more.
Again(old, new) ==
    IF new.type = Value THEN new ELSE Node(new.name, new.type, old.value, old.quoted, <<>>)

Twice(node, i, new) ==
    LET again == Again(node.elements[i], new) IN AddChild(WithElement(node, i, again), again)

CreateAgain(p, new) ==
    LET i == ChildNamed(At(doc, p), new.name)
    IN  i # 0 /\ Changed(p, Twice(At(doc, p), i, new))

CreatedAgain ==
    \E p \in ObjectsOf(doc), name \in Names : \E new \in NewElements(name) : CreateAgain(p, new)

RemoveChild(p, name) == Changed(p, Removed(At(doc, p), name))

Clear(p) == Changed(p, [At(doc, p) EXCEPT !.elements = <<>>])

\* The document is saved and a new one is loaded from its text.
Reloaded(node) == Parse(NewDocument, Serialize(node))

Reload == doc' = Reloaded(doc) /\ Bounded(doc')

\* Bound: a document in which one node stands twice (or two equal ones do) is only saved
\* and loaded.  A change of that node is seen in both places, and clear(), remove() and the
\* destructor delete it twice.
NodeStandsTwice ==
    \E p \in ObjectsOf(doc) :
        LET e == At(doc, p).elements
        IN  \E i, j \in DOMAIN e : i < j /\ e[i] = e[j] /\ e[i].name # NoName

Call ==
    \/ \E p \in ObjectsOf(doc), key \in Keys :
          GetObject(p, key) \/ GetArray(p, key) \/ \E v \in Values : SetValue(p, key, v)
    \/ \E p \in ArraysOf(doc) : CreateObject(p) \/ \E v \in Values : CreateElement(p, v)
    \/ \E p \in ObjectsOf(doc), name \in Names : \E new \in NewElements(name) : CreateNamed(p, new)
    \/ CreatedAgain
    \/ \E p \in ObjectsOf(doc), name \in Names : RemoveChild(p, name)
    \/ \E p \in ObjectsOf(doc) \cup ArraysOf(doc) : Clear(p)

Next == (~NodeStandsTwice /\ Call) \/ Reload

Spec == Init /\ [][Next]_doc

-------------------------------------------------------------------------------
\* No object or array of the document is empty, but the document itself may be;
\* the elements of an object have names.  (A document that has lost elements at
\* an empty container may come back with a nameless element in an object.)
NoEmptyContainer(node) ==
    \A p \in Places(node) \ {<<>>} :
        At(node, p).type # Value => At(node, p).elements # <<>>

ElementsAreNamed(node) ==
    \A p \in ObjectsOf(node) :
        \A i \in 1..Len(At(node, p).elements) : At(node, p).elements[i].name # NoName

\* What is saved is read back, to the last element, from whatever sequence of
\* calls the document comes - as long as it contains no empty object or array,
\* and its names need no quoting, which serializeNode() leaves out.
RoundTrip ==
    NoEmptyContainer(doc) /\ ElementsAreNamed(doc) /\ NamesArePlain(doc)
        => Serialize(Reloaded(doc)) = Serialize(doc)

\* find() returns the first element of a name, so an object must not have two of
\* them: no conversion, no parsing and no call but createElement() with the name
\* of an element that exists adds a second one - under the same conditions - and
\* a value keeps no elements.
WellFormed(node) ==
    \A p \in Places(node) :
        LET e == At(node, p).elements
        IN  CASE At(node, p).type = Value -> e = <<>>
              [] At(node, p).type = Array -> TRUE
              [] At(node, p).type = Object ->
                    \A i, j \in 1..Len(e) : e[i].name = e[j].name /\ e[i].name # NoName => i = j

NamesStayUnique ==
    [][WellFormed(doc) /\ NoEmptyContainer(doc) /\ ElementsAreNamed(doc) /\ NamesArePlain(doc)
        => WellFormed(doc') \/ CreatedAgain]_doc

\* "Parse JSON text into this node tree. Supported inputs are [...] a JSON
\* object starting with '{', or a JSON array starting with '['." (CJsonNode.cpp)
ParsesWhatItWrites == Serialize(Reloaded(doc)) = Serialize(doc)

\* "Return an existing value element or create it on demand." (CJsonNode.cpp):
\* (*node)[key] = v is what getValue(key) finds, and the values of the other
\* keys stay, unless the key goes through them or they through it.
Unrelated(key, other) == ~IsPrefix(key, other) /\ ~IsPrefix(other, key)

AssignedIsRead ==
    \A p \in ObjectsOf(doc), key \in Keys, v \in Values \cup {"another value"} :
        LET before == At(doc, p)
            after  == Assign(before, key, v, TRUE)
        IN  /\ Lookup(after, key) = v
            /\ \A other \in Keys :
                  Unrelated(key, other) => Lookup(after, other) = Lookup(before, other)

\* parseValue() gives back every text that serializeNode() has quoted, whatever
\* quotes, backslashes, brackets and blanks it contains: said of the characters
\* alone, so that one document is enough, the new one.
ScanInvertsQuote ==
    doc = NewDocument =>
    \A chars \in BoundedSeq({Quotation, Backslash, Bracket, Letter, Blank}, MaxChars) :
        LET at == Scan(Quote(chars) \o <<Bracket>>)
        IN  at.stop /\ at.data = chars
===============================================================================
