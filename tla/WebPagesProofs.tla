---------------------------- MODULE WebPagesProofs ----------------------------
(***************************************************************************)
(* Proofs about a session of the web user interface: for any pages with any *)
(* elements and conditions that are built as the pages of the library are,  *)
(* any configurations of the device and any number of login requests.      *)
(***************************************************************************)
EXTENDS WebPages, TLAPS

-------------------------------------------------------------------------------
(* Elements and values.                                                      *)

\* The elements of a name are on one page and of one type.
LEMMA GroupOnPage ==
    ASSUME NEW p, NEW e \in ElementsOf(p), NEW d \in Group(e)
    PROVE  d \in ElementsOf(p) /\ e \in Group(e) /\ Type[d] = Type[e] /\ Group(d) = Group(e)
  BY PagesAssumption, Zenon DEF ElementsOf, Group

LEMMA NothingOnNoPage == ElementsOf(NoPage) = {}
  BY PagesAssumption DEF ElementsOf

\* The values of each type of element.
LEMMA ValuesOf ==
    ASSUME NEW e \in Elements
    PROVE  /\ IsSwitch(e) => Values(e) = {"checked", "unchecked"} /\ ConfigValues(e) = {"0", "1", "TRUE", "FALSE"}
           /\ IsList(e) => Values(e) = Networks \cup {""} /\ ~IsSwitch(e)
           /\ ~IsSwitch(e) /\ ~IsList(e) => Values(e) = {"good", "bad"}
           /\ ~IsSwitch(e) => /\ ConfigValues(e) = Values(e)
                              /\ \A x : SetValue(e, x) = x /\ GetValue(e, x) = x
                              /\ Undefined \notin Values(e) /\ Type[e] # "radio"
<1>1. IsList(e) => ~IsSwitch(e)
  BY DEF IsSwitch, IsList
<1>2. /\ IsSwitch(e) => Values(e) = {"checked", "unchecked"} /\ ConfigValues(e) = {"0", "1", "TRUE", "FALSE"}
      /\ IsList(e) => Values(e) = Networks \cup {""}
      /\ ~IsSwitch(e) /\ ~IsList(e) => Values(e) = {"good", "bad"}
      /\ ~IsSwitch(e) => ConfigValues(e) = Values(e)
  BY <1>1 DEF Values, ConfigValues
<1>3. ~IsSwitch(e) => Undefined \notin Values(e)
  <2>1. Undefined \notin Networks
    BY PagesAssumption, Zenon
  <2>2. Undefined \notin {"", "good", "bad"}
    BY DEF Undefined
  <2>. QED  BY <1>2, <2>1, <2>2
<1>4. ~IsSwitch(e) => \A x : SetValue(e, x) = x /\ GetValue(e, x) = x
  BY SMT DEF SetValue, GetValue, IsSwitch
<1>5. ~IsSwitch(e) => Type[e] # "radio"
  BY DEF IsSwitch
<1>. QED  BY <1>1, <1>2, <1>3, <1>4, <1>5

LEMMA ValuesAreStates ==
    ASSUME NEW e PROVE Values(e) \subseteq States
  BY DEF Values, States

\* What the elements of a page are set to is a state of them.
LEMMA SetValueTyped ==
    ASSUME NEW e \in Elements, NEW x \in ConfigValues(e)
    PROVE  SetValue(e, x) \in Values(e)
<1>1. CASE IsSwitch(e)
  <2>1. SetValue(e, x) \in {"checked", "unchecked"}
    BY <1>1, SMT DEF IsSwitch, SetValue, Checked
  <2>. QED  BY <1>1, <2>1, ValuesOf
<1>2. CASE ~IsSwitch(e)
  BY <1>2, ValuesOf
<1>. QED  BY <1>1, <1>2

\* What an element gives is a value that a configuration may have for it.
LEMMA GetValueTyped ==
    ASSUME NEW e \in Elements, NEW s \in Values(e), GetValue(e, s) # Undefined
    PROVE  GetValue(e, s) \in ConfigValues(e)
<1>1. Type[e] = "radio" => Button[e] \in {"0", "1"}
  BY RadioAssumption, Zenon DEF Group
<1>2. CASE IsSwitch(e)
  <2>1. GetValue(e, s) \in {"0", "1"}
    BY <1>1, <1>2, SMT DEF GetValue, IsSwitch
  <2>. QED  BY <1>2, <2>1, ValuesOf
<1>3. CASE ~IsSwitch(e)
  BY <1>3, ValuesOf
<1>. QED  BY <1>2, <1>3

\* Among the buttons of a name one is set, whatever value the configuration has.
LEMMA OneButtonIsSet ==
    ASSUME NEW e \in Elements, Type[e] = "radio", NEW x \in {"0", "1", "TRUE", "FALSE"}
    PROVE  \E d \in Group(e) : \A f \in Group(e) : SetValue(f, x) = "checked" <=> f = d
<1>1. PICK b \in {"0", "1"} : \A c \in {"0", "1"} : LooseEq(c, x) <=> c = b
  <2>1. CASE x \in {"1", "TRUE"}
    BY <2>1 DEF LooseEq
  <2>2. CASE x \in {"0", "FALSE"}
    BY <2>2 DEF LooseEq
  <2>. QED  BY <2>1, <2>2
<1>2. PICK d \in Group(e) : \A f \in Group(e) : Button[f] = b <=> f = d
  BY RadioAssumption, Zenon
<1>3. ASSUME NEW f \in Group(e) PROVE SetValue(f, x) = "checked" <=> f = d
  <2>1. Type[f] = "radio" /\ Button[f] \in {"0", "1"}
    BY RadioAssumption, PagesAssumption, Zenon DEF Group
  <2>2. SetValue(f, x) = Checked(LooseEq(Button[f], x))
    BY <2>1, SMT DEF SetValue
  <2>3. LooseEq(Button[f], x) <=> f = d
    BY <1>1, <1>2, <2>1, Zenon
  <2>. QED  BY <2>2, <2>3 DEF Checked
<1>. QED  BY <1>3, Zenon

\* What one element of a name gives sets all of them to what they are.
LEMMA GivenIsSet ==
    ASSUME NEW e \in Elements, NEW d \in Group(e), NEW v,
           \A f \in Group(e) : v[f] \in Values(f),
           Type[e] = "radio" => OneChecked(e, v),
           GetValue(d, v[d]) # Undefined
    PROVE  SetValue(e, GetValue(d, v[d])) = v[e]
<1>1. d \in Elements /\ e \in Group(e) /\ Type[d] = Type[e]
  BY PagesAssumption DEF Group
<1>2. CASE Type[e] = "radio"
  <2>1. GetValue(d, v[d]) = Button[d] /\ v[d] = "checked"
    BY <1>1, <1>2, SMT DEF GetValue
  <2>2. PICK c \in Group(e) : \A f \in Group(e) : v[f] = "checked" <=> f = c
    BY <1>2, Zenon DEF OneChecked
  <2>3. v[e] = "checked" <=> e = d
    BY <1>1, <2>1, <2>2, Zenon
  <2>4. Button[d] \in {"0", "1"} /\ Button[e] \in {"0", "1"}
    <3>1. \A f \in Group(e) : Button[f] \in {"0", "1"}
      BY <1>2, RadioAssumption, Zenon
    <3>. QED  BY <1>1, <3>1, Zenon
  <2>5. \E c2 \in Group(e) : \A f \in Group(e) : Button[f] = Button[d] <=> f = c2
    <3>1. \A b \in {"0", "1"} : \E c2 \in Group(e) : \A f \in Group(e) : Button[f] = b <=> f = c2
      BY <1>2, RadioAssumption, Zenon
    <3>. QED  BY <2>4, <3>1, Zenon
  <2>6. Button[e] = Button[d] <=> e = d
    BY <1>1, <2>5, Zenon
  <2>7. LooseEq(Button[e], Button[d]) <=> e = d
    BY <2>4, <2>6 DEF LooseEq
  <2>8. v[e] \in {"checked", "unchecked"}
    BY <1>1, <1>2, ValuesOf DEF IsSwitch
  <2>9. SetValue(e, Button[d]) = Checked(LooseEq(Button[e], Button[d]))
    BY <1>2, SMT DEF SetValue
  <2>. QED  BY <2>1, <2>3, <2>7, <2>8, <2>9 DEF Checked
<1>3. CASE Type[e] # "radio"
  <2>1. d = e
    BY <1>3, RadioAssumption
  <2>2. v[e] \in Values(e)
    BY <1>1
  <2>3. CASE Type[e] = "checkbox"
    <3>1. v[e] \in {"checked", "unchecked"}
      BY <2>2, <2>3, ValuesOf DEF IsSwitch
    <3>. QED  BY <2>1, <2>3, <3>1, SMT DEF GetValue, SetValue, Checked
  <2>4. CASE Type[e] # "checkbox"
    BY <1>3, <2>1, <2>4, ValuesOf DEF IsSwitch
  <2>. QED  BY <2>3, <2>4
<1>. QED  BY <1>2, <1>3

-------------------------------------------------------------------------------
(* The fields of a page and the configuration.                               *)

\* Reading a configuration into the fields of a page leaves fields of the page.
LEMMA SetConfigTyped ==
    ASSUME NEW p, NEW v \in Fields(p), NEW c, IsConfig(c)
    PROVE  SetConfigValues(v, c) \in Fields(p)
<1>1. /\ DOMAIN v = ElementsOf(p)
      /\ \A e \in ElementsOf(p) : v[e] \in States /\ v[e] \in Values(e)
  BY DEF Fields
<1>2. \A e \in ElementsOf(p) : Key[e] \in DOMAIN c => SetValue(e, c[Key[e]]) \in Values(e)
  BY SetValueTyped, Zenon DEF IsConfig, ElementsOf
<1>3. \A e \in Elements : Values(e) \subseteq States
  BY ValuesAreStates
<1>4. \A e \in ElementsOf(p) : SetConfigValues(v, c)[e] \in Values(e)
  BY <1>1, <1>2 DEF SetConfigValues
<1>5. SetConfigValues(v, c) \in [ElementsOf(p) -> States]
  BY <1>1, <1>2, <1>3 DEF SetConfigValues, ElementsOf
<1>. QED  BY <1>4, <1>5 DEF Fields

\* It leaves one button of each name checked.
LEMMA SetConfigOneChecked ==
    ASSUME NEW p, NEW v \in Fields(p), NEW c, IsConfig(c),
           NEW e \in ElementsOf(p), Type[e] = "radio", OneChecked(e, v)
    PROVE  OneChecked(e, SetConfigValues(v, c))
<1>1. e \in Elements /\ DOMAIN v = ElementsOf(p)
  BY DEF ElementsOf, Fields
<1>2. \A f \in Group(e) : f \in ElementsOf(p) /\ Key[f] = Key[e]
  BY GroupOnPage DEF Group
<1>3. CASE Key[e] \in DOMAIN c
  <2>1. c[Key[e]] \in {"0", "1", "TRUE", "FALSE"}
    BY <1>1, <1>3 DEF IsConfig, ConfigValues, IsSwitch
  <2>2. PICK d \in Group(e) : \A f \in Group(e) : SetValue(f, c[Key[e]]) = "checked" <=> f = d
    BY <1>1, <2>1, OneButtonIsSet
  <2>3. \A f \in Group(e) : SetConfigValues(v, c)[f] = SetValue(f, c[Key[e]])
    BY <1>1, <1>2, <1>3 DEF SetConfigValues
  <2>. QED  BY <2>2, <2>3, Zenon DEF OneChecked
<1>4. CASE Key[e] \notin DOMAIN c
  <2>1. \A f \in Group(e) : SetConfigValues(v, c)[f] = v[f]
    BY <1>1, <1>2, <1>4 DEF SetConfigValues
  <2>. QED  BY <2>1, Zenon DEF OneChecked
<1>. QED  BY <1>3, <1>4

\* What a page is loaded with.
LEMMA DefaultTyped ==
    ASSUME NEW p
    PROVE  /\ [e \in ElementsOf(p) |-> Default[e]] \in Fields(p)
           /\ \A e \in ElementsOf(p) :
                 Type[e] = "radio" => OneChecked(e, [d \in ElementsOf(p) |-> Default[d]])
<1>1. \A e \in ElementsOf(p) : Default[e] \in Values(e)
      /\ Values(e) \subseteq States
  BY PagesAssumption, ValuesAreStates DEF ElementsOf
<1>2. ASSUME NEW e \in ElementsOf(p), Type[e] = "radio"
      PROVE  OneChecked(e, [d \in ElementsOf(p) |-> Default[d]])
  <2>1. e \in Elements
    BY DEF ElementsOf
  <2>2. OneChecked(e, Default)
    BY <1>2, <2>1, RadioAssumption
  <2>3. \A f \in Group(e) : [d \in ElementsOf(p) |-> Default[d]][f] = Default[f]
    BY GroupOnPage
  <2>. QED  BY <2>2, <2>3, Zenon DEF OneChecked
<1>. QED  BY <1>1, <1>2 DEF Fields

\* The elements of a name are hidden together.
LEMMA HiddenTogether ==
    ASSUME NEW p, NEW v \in Fields(p), NEW e \in ElementsOf(p), Type[e] = "radio", NEW d \in Group(e)
    PROVE  d \in HiddenBy(v) <=> e \in HiddenBy(v)
<1>1. d \in ElementsOf(p) /\ e \in Elements
  BY GroupOnPage DEF ElementsOf
<1>2. ViewOn[d] = ViewOn[e]
  BY <1>1, RadioAssumption
<1>. QED  BY <1>1, <1>2, Zenon DEF HiddenBy, Fields

LEMMA HiddenOnPage ==
    ASSUME NEW p, NEW v \in Fields(p) PROVE HiddenBy(v) \subseteq ElementsOf(p)
  BY DEF HiddenBy, Fields

\* The elements that give a value for a key.
Given(elements, k) == {e \in elements : GetValue(e, form[e]) # Undefined /\ Key[e] = k}

\* What saving some elements leaves: of a key, what one of them gives that gives something,
\* or what was there.
LEMMA SavedValues ==
    ASSUME NEW elements, NEW c, NEW k
    PROVE  /\ k \in DOMAIN SaveElements(elements, c) <=> k \in DOMAIN c \/ Given(elements, k) # {}
           /\ Given(elements, k) # {} =>
                \E e \in Given(elements, k) : SaveElements(elements, c)[k] = GetValue(e, form[e])
           /\ Given(elements, k) = {} /\ k \in DOMAIN c => SaveElements(elements, c)[k] = c[k]
           /\ SaveElements(elements, c) =
                [l \in DOMAIN SaveElements(elements, c) |-> SaveElements(elements, c)[l]]
<1>. DEFINE defined == {e \in elements : GetValue(e, form[e]) # Undefined}
            keys    == {Key[e] : e \in defined}
            first(l) == CHOOSE d \in defined : Key[d] = l
            b       == [l \in keys |-> GetValue(first(l), form[first(l)])]
            given   == Given(elements, k)
            saved   == SaveElements(elements, c)
<1>1. saved = Overlay(c, b)
  BY DEF SaveElements
<1>2. DOMAIN b = keys /\ (given # {} <=> k \in keys)
  BY DEF Given
<1>3. given # {} => first(k) \in defined /\ Key[first(k)] = k
  BY DEF Given
<1>4. k \in keys => b[k] = GetValue(first(k), form[first(k)])
  OBVIOUS
<1>. HIDE DEF b, keys, defined, saved
<1>5. /\ DOMAIN saved = DOMAIN c \cup keys
      /\ \A l \in DOMAIN saved : saved[l] = IF l \in keys THEN b[l] ELSE c[l]
      /\ saved = [l \in DOMAIN saved |-> saved[l]]
  BY <1>1, <1>2 DEF Overlay
<1>6. given # {} => first(k) \in given /\ saved[k] = GetValue(first(k), form[first(k)])
  BY <1>2, <1>3, <1>4, <1>5 DEF defined, Given
<1>7. k \in DOMAIN saved <=> k \in DOMAIN c \/ given # {}
  BY <1>2, <1>5
<1>8. given = {} /\ k \in DOMAIN c => saved[k] = c[k]
  BY <1>2, <1>5
<1>9. saved = [l \in DOMAIN saved |-> saved[l]]
  BY <1>5
<1>. HIDE DEF given, first
<1>10. given # {} => \E e \in given : saved[k] = GetValue(e, form[e])
  BY <1>6
<1>. QED  BY <1>7, <1>8, <1>9, <1>10 DEF given, saved

\* What a page saves is a configuration, and each key is what the page shows of it or what
\* it was.
LEMMA SavedConfig ==
    ASSUME TypeOK, OneButton, NEW elements \in SUBSET ElementsOf(page)
    PROVE  LET saved == SaveElements(elements, config)
           IN  /\ IsConfig(saved)
               /\ \A e \in ElementsOf(page) :
                     \/ Key[e] \in DOMAIN config /\ Key[e] \in DOMAIN saved
                        /\ saved[Key[e]] = config[Key[e]]
                     \/ SetValue(e, saved[Key[e]]) = form[e]
                     \/ Key[e] \notin DOMAIN saved
               /\ \A e \in ElementsOf(page) : \A d \in elements \cap Group(e) :
                     GetValue(d, form[d]) # Undefined =>
                        Key[e] \in DOMAIN saved /\ SetValue(e, saved[Key[e]]) = form[e]
<1>. DEFINE saved == SaveElements(elements, config)
            given(k) == Given(elements, k)
<1>1. \A k : /\ k \in DOMAIN saved <=> k \in DOMAIN config \/ given(k) # {}
             /\ given(k) # {} => \E e \in given(k) : saved[k] = GetValue(e, form[e])
             /\ given(k) = {} /\ k \in DOMAIN config => saved[k] = config[k]
             /\ saved = [l \in DOMAIN saved |-> saved[l]]
  <2>. TAKE k
  <2>. QED  BY SavedValues
<1>2. /\ elements \subseteq ElementsOf(page) /\ ElementsOf(page) \subseteq Elements
      /\ \A e \in ElementsOf(page) : form[e] \in Values(e)
      /\ IsConfig(config)
  BY DEF TypeOK, Fields, ElementsOf
<1>. HIDE DEF saved
<1>3. ASSUME NEW e \in Elements, NEW d \in given(Key[e]), saved[Key[e]] = GetValue(d, form[d])
      PROVE  saved[Key[e]] \in ConfigValues(e) /\ SetValue(e, saved[Key[e]]) = form[e]
  <2>1. d \in Group(e) /\ d \in ElementsOf(page) /\ GetValue(d, form[d]) # Undefined
        /\ d \in Elements /\ e \in Group(d)
    BY <1>2 DEF Group, Given
  <2>2. e \in Group(d) /\ Type[e] = Type[d] /\ Group(e) = Group(d)
    BY <2>1, GroupOnPage
  <2>3. e \in ElementsOf(page) /\ \A f \in Group(e) : f \in ElementsOf(page)
    BY <2>1, <2>2, GroupOnPage
  <2>4. Type[e] = "radio" => OneChecked(e, form)
    BY <2>3 DEF OneButton
  <2>5. SetValue(e, GetValue(d, form[d])) = form[e]
    BY <1>2, <2>1, <2>3, <2>4, GivenIsSet
  <2>6. GetValue(d, form[d]) \in ConfigValues(d)
    BY <1>2, <2>1, GetValueTyped
  <2>7. ConfigValues(e) = ConfigValues(d)
    BY <2>2, Zenon DEF ConfigValues, Values, IsSwitch, IsList
  <2>. QED  BY <1>3, <2>5, <2>6, <2>7
<1>4. ASSUME NEW e \in Elements, given(Key[e]) # {}
      PROVE  /\ Key[e] \in DOMAIN saved
             /\ saved[Key[e]] \in ConfigValues(e) /\ SetValue(e, saved[Key[e]]) = form[e]
  <2>1. PICK d \in given(Key[e]) : saved[Key[e]] = GetValue(d, form[d])
    BY <1>1, <1>4
  <2>. QED  BY <1>1, <1>3, <1>4, <2>1
<1>5. IsConfig(saved)
  <2>1. \A k : given(k) # {} => k \in Keys
    BY <1>2 DEF Keys, Given
  <2>2. DOMAIN saved \subseteq Keys /\ saved = [l \in DOMAIN saved |-> saved[l]]
    BY <1>1, <1>2, <2>1 DEF IsConfig
  <2>3. ASSUME NEW e \in Elements, Key[e] \in DOMAIN saved PROVE saved[Key[e]] \in ConfigValues(e)
    <3>1. CASE given(Key[e]) # {}
      BY <1>4, <3>1
    <3>2. CASE given(Key[e]) = {}
      BY <1>1, <1>2, <2>3, <3>2 DEF IsConfig
    <3>. QED  BY <3>1, <3>2
  <2>. QED  BY <2>2, <2>3, Zenon DEF IsConfig
<1>6. ASSUME NEW e \in ElementsOf(page)
      PROVE  \/ Key[e] \in DOMAIN config /\ Key[e] \in DOMAIN saved
                /\ saved[Key[e]] = config[Key[e]]
             \/ SetValue(e, saved[Key[e]]) = form[e]
             \/ Key[e] \notin DOMAIN saved
  BY <1>1, <1>2, <1>4
<1>7. ASSUME NEW e \in ElementsOf(page), NEW d \in elements \cap Group(e), GetValue(d, form[d]) # Undefined
      PROVE  Key[e] \in DOMAIN saved /\ SetValue(e, saved[Key[e]]) = form[e]
  <2>1. d \in given(Key[e])
    BY <1>7 DEF Group, Given
  <2>. QED  BY <1>2, <1>4, <2>1
<1>. QED  BY <1>5, <1>6, <1>7 DEF saved

-------------------------------------------------------------------------------
(* The invariant of a session.                                               *)

\* SessionInv without SavedIsShownAgain, which follows from it.
PagesInv ==
    /\ TypeOK
    /\ ViewFollowsToken
    /\ FormFollowsConfig
    /\ OneButton
    /\ UnsavedIsAnnounced
    /\ RestartIsAfterSave
    /\ TypedIsSignedIn

\* What is about the fields of the page.
FieldsInv ==
    /\ form \in Fields(page)
    /\ origin \in [ElementsOf(page) -> Origins]
    /\ hidden \subseteq ElementsOf(page)
    /\ IsConfig(config)
    /\ FormFollowsConfig /\ OneButton /\ TypedIsSignedIn

\* The rest.
OthersInv ==
    /\ page \in Pages \cup {NoPage}
    /\ IsConfig(received)
    /\ dialog \in {"none", "signin", "review", "wait", "scan"}
    /\ logins \in 0..MaxLogins
    /\ saveOn \in BOOLEAN /\ pending \in BOOLEAN /\ waiting \in BOOLEAN
    /\ token \in BOOLEAN /\ authView \in BOOLEAN
    /\ device \subseteq {"saveconfig", "restart"}
    /\ ViewFollowsToken /\ UnsavedIsAnnounced /\ RestartIsAfterSave

LEMMA PagesInvParts == PagesInv <=> FieldsInv /\ OthersInv
  BY Zenon DEF PagesInv, FieldsInv, OthersInv, TypeOK

\* The fields are right if their values come from the configuration or, in some of them,
\* from the user who is signed in; all elements of a name get their values from one of both.
LEMMA FieldsAreRight ==
    ASSUME form' \in Fields(page'), origin' \in [ElementsOf(page') -> Origins],
           hidden' \subseteq ElementsOf(page'), IsConfig(config'),
           \A e \in ElementsOf(page') :
              origin'[e] = "loaded" /\ Key[e] \in DOMAIN config' => form'[e] = SetValue(e, config'[Key[e]]),
           \A e \in ElementsOf(page') : Type[e] = "radio" =>
              OneChecked(e, form') /\ \A d \in Group(e) : d \in hidden' <=> e \in hidden',
           \A e \in ElementsOf(page') : origin'[e] = "typed" => authView'
    PROVE  FieldsInv'
  BY Zenon DEF FieldsInv, FormFollowsConfig, OneButton, TypedIsSignedIn

\* A step that changes nothing of it.
LEMMA FieldsUnchanged ==
    ASSUME FieldsInv, UNCHANGED <<page, form, hidden, origin, config, authView>>
    PROVE  FieldsInv'
  BY SMT DEF FieldsInv, FormFollowsConfig, OneButton, OneChecked, TypedIsSignedIn

\* loadPage(): the page shows what its HTML and the configuration say.
LEMMA LoadPageKeepsFields ==
    ASSUME FieldsInv, NEW p \in Pages, LoadPage(p)
    PROVE  FieldsInv'
<1>. DEFINE v == [e \in ElementsOf(p) |-> Default[e]]
<1>1. /\ page' = p /\ form' = SetConfigValues(v, config)
      /\ origin' = [e \in ElementsOf(p) |-> "loaded"]
      /\ hidden' = HiddenBy(form') /\ config' = config
  BY DEF LoadPage, UpdateView, dataVars
<1>2. v \in Fields(p) /\ \A e \in ElementsOf(p) : Type[e] = "radio" => OneChecked(e, v)
  BY DefaultTyped
<1>3. IsConfig(config)
  BY DEF FieldsInv
<1>4. DOMAIN v = ElementsOf(p)
  OBVIOUS
<1>. HIDE DEF v
<1>5. form' \in Fields(p) /\ \A e \in ElementsOf(p) : Type[e] = "radio" => OneChecked(e, form')
  BY <1>1, <1>2, <1>3, SetConfigTyped, SetConfigOneChecked
<1>6. \A e \in ElementsOf(p) : Type[e] = "radio" =>
          \A d \in Group(e) : d \in hidden' <=> e \in hidden'
  BY <1>1, <1>5, HiddenTogether
<1>7. hidden' \subseteq ElementsOf(p)
  BY <1>1, <1>5, HiddenOnPage
<1>8. \A e \in ElementsOf(p) : Key[e] \in DOMAIN config => form'[e] = SetValue(e, config[Key[e]])
  BY <1>1, <1>4 DEF SetConfigValues
<1>9. /\ origin' \in [ElementsOf(p) -> Origins]
      /\ \A e \in ElementsOf(p) : origin'[e] # "typed"
  BY <1>1 DEF Origins
<1>. QED  BY <1>1, <1>3, <1>5, <1>6, <1>7, <1>8, <1>9, FieldsAreRight

\* A value that the user gives a text or a password.
LEMMA EnterKeepsFields ==
    ASSUME FieldsInv, NEW e \in Elements, NEW v \in Values(e),
           OnTextKeyUp(e, v) \/ Enter(e, v)
    PROVE  FieldsInv'
<1>1. /\ e \in ElementsOf(page) /\ Type[e] \in {"text", "password"}
      /\ form' = [form EXCEPT ![e] = v]
      /\ \/ authView /\ (\E o \in {"typed", "entered"} : origin' = [origin EXCEPT ![e] = o])
         \/ v = form[e] /\ origin' = origin
      /\ UNCHANGED <<page, hidden, config, authView>>
  <2>1. CASE OnTextKeyUp(e, v)
    <3>1. /\ e \in ElementsOf(page) /\ Type[e] = "text"
          /\ form' = [form EXCEPT ![e] = v]
          /\ authView \/ v = form[e]
          /\ UNCHANGED <<page, hidden, config, authView>>
      BY <2>1, Zenon DEF OnTextKeyUp, AtPage, dataVars, loginVars
    <3>2. authView => origin' = [origin EXCEPT ![e] = "typed"]
      BY <2>1, Zenon DEF OnTextKeyUp
    <3>3. ~authView => origin' = origin
      BY <2>1, Zenon DEF OnTextKeyUp
    <3>. QED  BY <3>1, <3>2, <3>3
  <2>2. CASE Enter(e, v)
    <3>1. /\ e \in ElementsOf(page) /\ Type[e] \in {"text", "password"} /\ authView
          /\ form' = [form EXCEPT ![e] = v] /\ origin' = [origin EXCEPT ![e] = "entered"]
          /\ UNCHANGED <<page, hidden, config, authView>>
      BY <2>2, Zenon DEF Enter, AtPage, dataVars, loginVars
    <3>. QED  BY <3>1
  <2>. QED  BY <2>1, <2>2
<1>2. /\ form \in Fields(page) /\ form \in [ElementsOf(page) -> States]
      /\ \A d \in ElementsOf(page) : form[d] \in Values(d)
      /\ origin \in [ElementsOf(page) -> Origins]
  BY DEF FieldsInv, Fields
<1>3. v \in States
  BY ValuesAreStates
<1>4. /\ form' \in [ElementsOf(page) -> States]
      /\ \A d \in ElementsOf(page) : form'[d] = IF d = e THEN v ELSE form[d]
  BY <1>1, <1>2, <1>3
<1>5. form' \in Fields(page)
  BY <1>2, <1>4 DEF Fields
<1>6. /\ origin' \in [ElementsOf(page) -> Origins]
      /\ \A d \in ElementsOf(page) : d # e => origin'[d] = origin[d]
      /\ origin'[e] = "loaded" => origin[e] = "loaded" /\ v = form[e]
      /\ authView \/ origin' = origin
  BY <1>1, <1>2 DEF Origins
<1>7. ASSUME NEW d \in ElementsOf(page), origin'[d] = "loaded", Key[d] \in DOMAIN config
      PROVE  form'[d] = SetValue(d, config[Key[d]])
  BY <1>4, <1>6, <1>7 DEF FieldsInv, FormFollowsConfig
<1>8. ASSUME NEW d \in ElementsOf(page), Type[d] = "radio" PROVE OneChecked(d, form')
  <2>1. \A f \in Group(d) : f \in ElementsOf(page) /\ f # e
    BY <1>1, <1>8, GroupOnPage
  <2>2. \A f \in Group(d) : form'[f] = form[f]
    BY <1>4, <2>1
  <2>3. OneChecked(d, form)
    BY <1>8 DEF FieldsInv, OneButton
  <2>. QED  BY <2>2, <2>3, Zenon DEF OneChecked
<1>9. \A d \in ElementsOf(page) : Type[d] = "radio" => \A f \in Group(d) : f \in hidden <=> d \in hidden
  BY DEF FieldsInv, OneButton
<1>10. \A d \in ElementsOf(page) : origin'[d] = "typed" => authView
  BY <1>6 DEF FieldsInv, TypedIsSignedIn
<1>11. hidden \subseteq ElementsOf(page) /\ IsConfig(config)
  BY DEF FieldsInv
<1>. QED  BY <1>1, <1>5, <1>6, <1>7, <1>8, <1>9, <1>10, <1>11, FieldsAreRight

\* A click on a radio button or a checkbox.
LEMMA SwitchKeepsFields ==
    ASSUME FieldsInv, NEW e \in Elements, OnSwitch(e)
    PROVE  FieldsInv'
<1>1. /\ e \in ElementsOf(page) /\ IsSwitch(e)
      /\ form' = Clicked(e)
      /\ origin' = [d \in DOMAIN origin |-> IF d \in Group(e) THEN "entered" ELSE origin[d]]
      /\ hidden' = HiddenBy(form')
      /\ UNCHANGED <<page, config, authView>>
  BY Zenon DEF OnSwitch, AtPage, UpdateView, dataVars, loginVars
<1>2. /\ form \in [ElementsOf(page) -> States]
      /\ \A d \in ElementsOf(page) : form[d] \in Values(d)
      /\ origin \in [ElementsOf(page) -> Origins]
  BY DEF FieldsInv, Fields
<1>3. \A d \in Group(e) : d \in ElementsOf(page) /\ e \in Group(d) /\ Type[d] = Type[e]
  BY <1>1, GroupOnPage
<1>4. e \in Group(e)
  BY DEF Group
<1>5. /\ form' \in [ElementsOf(page) -> States]
      /\ \A d \in ElementsOf(page) : d \notin Group(e) => form'[d] = form[d]
      /\ \A d \in Group(e) : form'[d] \in {"checked", "unchecked"}
      /\ Type[e] = "radio" => \A d \in Group(e) : form'[d] = "checked" <=> d = e
  <2>1. CASE Type[e] = "radio"
    <3>1. form' = [d \in ElementsOf(page) |-> IF d \in Group(e) THEN Checked(d = e) ELSE form[d]]
      BY <1>1, <1>2, <2>1 DEF Clicked
    <3>2. \A d : Checked(d = e) = IF d = e THEN "checked" ELSE "unchecked"
      BY DEF Checked
    <3>. QED  BY <1>2, <1>3, <3>1, <3>2 DEF States
  <2>2. CASE Type[e] # "radio"
    <3>1. Group(e) = {e}
      BY <2>2, RadioAssumption
    <3>2. form' = [form EXCEPT ![e] = Checked(@ = "unchecked")]
      BY <1>1, <2>2 DEF Clicked
    <3>3. Checked(form[e] = "unchecked") \in {"checked", "unchecked"}
      BY DEF Checked
    <3>. QED  BY <1>1, <1>2, <2>2, <3>1, <3>2, <3>3 DEF States
  <2>. QED  BY <2>1, <2>2
<1>6. form' \in Fields(page)
  <2>1. \A d \in Group(e) : Values(d) = {"checked", "unchecked"}
    <3>1. \A d \in Group(e) : d \in Elements /\ IsSwitch(d)
      BY <1>1, <1>3 DEF IsSwitch, Group
    <3>. QED  BY <3>1, ValuesOf
  <2>2. \A d \in ElementsOf(page) : form'[d] \in Values(d)
    BY <1>2, <1>5, <2>1
  <2>. QED  BY <1>5, <2>2 DEF Fields
<1>7. /\ origin' \in [ElementsOf(page) -> Origins]
      /\ \A d \in ElementsOf(page) : d \notin Group(e) => origin'[d] = origin[d]
      /\ \A d \in Group(e) : origin'[d] = "entered"
  BY <1>1, <1>2, <1>3 DEF Origins
<1>8. ASSUME NEW d \in ElementsOf(page), origin'[d] = "loaded", Key[d] \in DOMAIN config
      PROVE  form'[d] = SetValue(d, config[Key[d]])
  BY <1>5, <1>7, <1>8 DEF FieldsInv, FormFollowsConfig
<1>9. ASSUME NEW d \in ElementsOf(page), Type[d] = "radio" PROVE OneChecked(d, form')
  <2>1. CASE d \in Group(e)
    <3>1. Group(d) = Group(e) /\ Type[e] = "radio"
      BY <1>1, <1>9, <2>1, GroupOnPage
    <3>2. e \in Group(d) /\ \A f \in Group(d) : form'[f] = "checked" <=> f = e
      BY <1>4, <1>5, <3>1
    <3>. QED  BY <3>2, Zenon DEF OneChecked
  <2>2. CASE d \notin Group(e)
    <3>1. \A f \in Group(d) : f \in ElementsOf(page) /\ f \notin Group(e)
      BY <2>2, GroupOnPage DEF Group
    <3>2. \A f \in Group(d) : form'[f] = form[f]
      BY <1>5, <3>1
    <3>3. OneChecked(d, form)
      BY <1>9 DEF FieldsInv, OneButton
    <3>. QED  BY <3>2, <3>3, Zenon DEF OneChecked
  <2>. QED  BY <2>1, <2>2
<1>10. \A d \in ElementsOf(page) : Type[d] = "radio" => \A f \in Group(d) : f \in hidden' <=> d \in hidden'
  BY <1>1, <1>6, HiddenTogether
<1>11. \A d \in ElementsOf(page) : origin'[d] = "typed" => authView
  BY <1>7 DEF FieldsInv, TypedIsSignedIn
<1>12. hidden' \subseteq ElementsOf(page) /\ IsConfig(config)
  BY <1>1, <1>6, HiddenOnPage DEF FieldsInv
<1>. QED  BY <1>1, <1>6, <1>7, <1>8, <1>9, <1>10, <1>11, <1>12, FieldsAreRight

\* A step of the dialog for networks: it gives values to elements that are no buttons, which
\* are not loaded any longer, and none of which was typed.
LEMMA ScanKeepsFields ==
    ASSUME FieldsInv, UNCHANGED <<page, config, authView>>,
           hidden' = hidden \/ hidden' = HiddenBy(form'),
           form' \in [ElementsOf(page) -> States], origin' \in [ElementsOf(page) -> Origins],
           \A d \in ElementsOf(page) :
              \/ form'[d] = form[d] /\ origin'[d] = origin[d]
              \/ Type[d] # "radio" /\ form'[d] \in Values(d) /\ origin'[d] \in {"entered", "scanned"}
    PROVE  FieldsInv'
<1>1. /\ form \in Fields(page) /\ \A d \in ElementsOf(page) : form[d] \in Values(d)
      /\ hidden \subseteq ElementsOf(page) /\ IsConfig(config)
  BY DEF FieldsInv, Fields
<1>2. form' \in Fields(page)
  BY <1>1 DEF Fields
<1>3. ASSUME NEW d \in ElementsOf(page), origin'[d] = "loaded", Key[d] \in DOMAIN config
      PROVE  form'[d] = SetValue(d, config[Key[d]])
  BY <1>3 DEF FieldsInv, FormFollowsConfig
<1>4. ASSUME NEW d \in ElementsOf(page), Type[d] = "radio" PROVE OneChecked(d, form')
  <2>1. \A f \in Group(d) : f \in ElementsOf(page) /\ Type[f] = "radio"
    BY <1>4, GroupOnPage
  <2>2. \A f \in Group(d) : form'[f] = form[f]
    BY <2>1
  <2>3. OneChecked(d, form)
    BY <1>4 DEF FieldsInv, OneButton
  <2>4. PICK c \in Group(d) : \A f \in Group(d) : form[f] = "checked" <=> f = c
    BY <2>3 DEF OneChecked
  <2>5. \A f \in Group(d) : form'[f] = "checked" <=> f = c
    BY <2>2, <2>4
  <2>. QED  BY <2>5 DEF OneChecked
<1>5. \A d \in ElementsOf(page) : Type[d] = "radio" => \A f \in Group(d) : f \in hidden' <=> d \in hidden'
  <2>1. CASE hidden' = hidden
    BY <2>1 DEF FieldsInv, OneButton
  <2>2. CASE hidden' = HiddenBy(form')
    <3>1. \A d \in ElementsOf(page) : Type[d] = "radio" =>
             \A f \in Group(d) : f \in HiddenBy(form') <=> d \in HiddenBy(form')
      BY <1>2, HiddenTogether
    <3>. QED  BY <2>2, <3>1
  <2>. QED  BY <2>1, <2>2
<1>6. hidden' \subseteq ElementsOf(page)
  BY <1>1, <1>2, HiddenOnPage
<1>7. \A d \in ElementsOf(page) : origin'[d] = "typed" => authView
  BY DEF FieldsInv, TypedIsSignedIn
<1>. QED  BY <1>1, <1>2, <1>3, <1>4, <1>5, <1>6, <1>7, FieldsAreRight

\* A step that gives a list a value.
ListStep(e, v) ==
    \/ ShowScanDialog(e) /\ v = ""
    \/ v \in Networks /\ (InsertFoundNetworks(e, v) \/ OnSelectChanged(e, v))

\* What these steps have in common.
LEMMA ListSteps ==
    ASSUME FieldsInv, NEW e \in Elements, NEW v,
           ListStep(e, v)
    PROVE  /\ e \in ElementsOf(page) /\ Type[e] = "select" /\ v \in Values(e)
           /\ form' = [form EXCEPT ![e] = v]
           /\ \E o \in {"entered", "scanned"} : origin' = [origin EXCEPT ![e] = o]
           /\ UNCHANGED <<page, config, authView>>
<1>1. CASE ShowScanDialog(e) /\ v = ""
  <2>1. /\ e \in ElementsOf(page) /\ Type[e] = "select"
        /\ form' = [form EXCEPT ![e] = v] /\ origin' = [origin EXCEPT ![e] = "scanned"]
        /\ UNCHANGED <<page, config, authView>>
    BY <1>1, Zenon DEF ShowScanDialog, IsList, dataVars, loginVars
  <2>2. v \in Values(e)
    BY <1>1, <2>1 DEF Values, IsSwitch, IsList
  <2>. QED  BY <2>1, <2>2
<1>2. CASE v \in Networks /\ (InsertFoundNetworks(e, v) \/ OnSelectChanged(e, v))
  <2>1. /\ e \in ElementsOf(page) /\ Type[e] = "select" /\ form' = [form EXCEPT ![e] = v]
        /\ UNCHANGED <<page, config, authView>>
    BY <1>2, Zenon DEF InsertFoundNetworks, OnSelectChanged, IsList, dataVars, loginVars
  <2>2. origin' = [origin EXCEPT ![e] = "scanned"] \/ origin' = [origin EXCEPT ![e] = "entered"]
    BY <1>2, Zenon DEF InsertFoundNetworks, OnSelectChanged
  <2>3. v \in Values(e)
    BY <1>2, <2>1 DEF Values, IsSwitch, IsList
  <2>. QED  BY <2>1, <2>2, <2>3
<1>. QED  BY <1>1, <1>2 DEF ListStep

LEMMA ListKeepsFields ==
    ASSUME FieldsInv, NEW e \in Elements, NEW v,
           ListStep(e, v)
    PROVE  FieldsInv'
<1>1. /\ e \in ElementsOf(page) /\ Type[e] = "select" /\ v \in Values(e)
      /\ form' = [form EXCEPT ![e] = v]
      /\ \E o \in {"entered", "scanned"} : origin' = [origin EXCEPT ![e] = o]
      /\ UNCHANGED <<page, config, authView>>
  BY ListSteps
<1>2. hidden' = hidden \/ hidden' = HiddenBy(form')
  BY Zenon DEF ListStep, ShowScanDialog, InsertFoundNetworks, OnSelectChanged, UpdateView
<1>3. form \in [ElementsOf(page) -> States] /\ origin \in [ElementsOf(page) -> Origins]
  BY DEF FieldsInv, Fields
<1>4. v \in States
  BY <1>1, ValuesAreStates
<1>5. /\ form' \in [ElementsOf(page) -> States]
      /\ \A d \in ElementsOf(page) : form'[d] = IF d = e THEN v ELSE form[d]
  BY <1>1, <1>3, <1>4
<1>6. /\ origin' \in [ElementsOf(page) -> Origins]
      /\ origin'[e] \in {"entered", "scanned"}
      /\ \A d \in ElementsOf(page) : d # e => origin'[d] = origin[d]
  BY <1>1, <1>3 DEF Origins
<1>. QED  BY <1>1, <1>2, <1>5, <1>6, ScanKeepsFields

\* The button "use" of the dialog.
LEMMA UseSteps ==
    ASSUME FieldsInv, UseNetwork
    PROVE  /\ UNCHANGED <<page, hidden, config, authView, saveOn>>
           /\ form' \in [ElementsOf(page) -> States] /\ origin' \in [ElementsOf(page) -> Origins]
           /\ \A d \in ElementsOf(page) :
                 \/ form'[d] = form[d] /\ origin'[d] = origin[d]
                 \/ Type[d] # "radio" /\ form'[d] \in Values(d) /\ origin'[d] = "entered"
<1>1. /\ \E network \in [FromScan -> {"good", "bad"}] :
            form' = [e \in DOMAIN form |-> IF e \in FromScan THEN network[e] ELSE form[e]]
      /\ origin' = [e \in DOMAIN origin |-> IF e \in FromScan THEN "entered" ELSE origin[e]]
      /\ UNCHANGED <<page, hidden, config, authView, saveOn>>
  BY Zenon DEF UseNetwork, dataVars, loginVars
<1>2. PICK network \in [FromScan -> {"good", "bad"}] :
         form' = [e \in DOMAIN form |-> IF e \in FromScan THEN network[e] ELSE form[e]]
  BY <1>1
<1>3. form \in [ElementsOf(page) -> States] /\ origin \in [ElementsOf(page) -> Origins]
  BY DEF FieldsInv, Fields
<1>4. ASSUME NEW e \in FromScan
      PROVE  Type[e] = "text" /\ network[e] \in Values(e) /\ network[e] \in States
  <2>1. Type[e] = "text" /\ network[e] \in {"good", "bad"}
    BY PagesAssumption
  <2>. QED  BY <2>1 DEF Values, IsSwitch, IsList, States
<1>5. \A d \in ElementsOf(page) :
         /\ d \in FromScan => form'[d] = network[d] /\ origin'[d] = "entered"
         /\ d \notin FromScan => form'[d] = form[d] /\ origin'[d] = origin[d]
  BY <1>1, <1>2, <1>3
<1>6. form' \in [ElementsOf(page) -> States] /\ origin' \in [ElementsOf(page) -> Origins]
  BY <1>1, <1>2, <1>3, <1>4 DEF Origins
<1>7. ASSUME NEW d \in ElementsOf(page)
      PROVE  \/ form'[d] = form[d] /\ origin'[d] = origin[d]
             \/ Type[d] # "radio" /\ form'[d] \in Values(d) /\ origin'[d] = "entered"
  BY <1>4, <1>5
<1>. QED  BY <1>1, <1>6, <1>7

LEMMA UseKeepsFields ==
    ASSUME FieldsInv, UseNetwork PROVE FieldsInv'
  BY UseSteps, ScanKeepsFields

\* A configuration is read into the page that is shown: what it has no value for keeps what
\* it shows.
LEMMA ReadKeepsFields ==
    ASSUME FieldsInv, NEW c, IsConfig(c), LoadPageConfig(c), config' = c,
           UNCHANGED <<page, hidden, authView>>
    PROVE  FieldsInv'
<1>1. /\ form' = SetConfigValues(form, c)
      /\ origin' = [e \in DOMAIN origin |-> IF Key[e] \in DOMAIN c THEN "loaded" ELSE origin[e]]
  BY DEF LoadPageConfig
<1>2. form \in Fields(page) /\ DOMAIN form = ElementsOf(page)
      /\ origin \in [ElementsOf(page) -> Origins]
  BY DEF FieldsInv, Fields
<1>3. \A e \in ElementsOf(page) : Type[e] = "radio" =>
          OneChecked(e, form) /\ \A d \in Group(e) : d \in hidden <=> e \in hidden
  BY DEF FieldsInv, OneButton
<1>4. form' \in Fields(page) /\ \A e \in ElementsOf(page) : Type[e] = "radio" => OneChecked(e, form')
  BY <1>1, <1>2, <1>3, SetConfigTyped, SetConfigOneChecked
<1>5. \A e \in ElementsOf(page) : Key[e] \in DOMAIN c => form'[e] = SetValue(e, c[Key[e]])
  BY <1>1, <1>2 DEF SetConfigValues
<1>6. /\ origin' \in [ElementsOf(page) -> Origins]
      /\ \A e \in ElementsOf(page) : origin'[e] = "typed" => origin[e] = "typed"
  BY <1>1, <1>2 DEF Origins
<1>7. \A e \in ElementsOf(page) : origin'[e] = "typed" => authView
  BY <1>6 DEF FieldsInv, TypedIsSignedIn
<1>8. hidden \subseteq ElementsOf(page)
  BY DEF FieldsInv
<1>. QED  BY <1>3, <1>4, <1>5, <1>6, <1>7, <1>8, FieldsAreRight

\* savePage(): the elements that keep what was loaded still show what the configuration says.
LEMMA SavePageKeepsFields ==
    ASSUME PagesInv, SavePage PROVE FieldsInv'
<1>1. /\ config' = SaveConfigValues(config)
      /\ UNCHANGED <<page, form, hidden, origin, authView>>
  BY Zenon DEF SavePage, viewVars, loginVars
<1>2. TypeOK /\ OneButton /\ DOMAIN form = ElementsOf(page)
  BY DEF PagesInv, TypeOK, Fields
<1>. DEFINE shown == {e \in DOMAIN form : IsVisible(e, hidden, authView)}
<1>3. /\ IsConfig(config')
      /\ \A e \in ElementsOf(page) :
            \/ Key[e] \in DOMAIN config /\ config'[Key[e]] = config[Key[e]]
            \/ SetValue(e, config'[Key[e]]) = form[e]
            \/ Key[e] \notin DOMAIN config'
  <2>1. shown \in SUBSET ElementsOf(page)
    BY <1>2
  <2>2. config' = SaveElements(shown, config)
    BY <1>1 DEF SaveConfigValues
  <2>. HIDE DEF shown
  <2>. QED  BY <1>2, <2>1, <2>2, SavedConfig
<1>4. FieldsInv
  BY PagesInvParts
<1>5. ASSUME NEW e \in ElementsOf(page), origin[e] = "loaded", Key[e] \in DOMAIN config'
      PROVE  form[e] = SetValue(e, config'[Key[e]])
  BY <1>3, <1>4, <1>5 DEF FieldsInv, FormFollowsConfig
<1>6. /\ form \in Fields(page) /\ origin \in [ElementsOf(page) -> Origins]
      /\ hidden \subseteq ElementsOf(page)
      /\ \A e \in ElementsOf(page) : Type[e] = "radio" =>
            OneChecked(e, form) /\ \A d \in Group(e) : d \in hidden <=> e \in hidden
      /\ \A e \in ElementsOf(page) : origin[e] = "typed" => authView
  BY <1>4 DEF FieldsInv, OneButton, TypedIsSignedIn
<1>. QED  BY <1>1, <1>3, <1>5, <1>6, FieldsAreRight

\* The token comes or goes: who is signed out has typed nothing.
LEMMA AuthKeepsFields ==
    ASSUME FieldsInv, NEW auth, UpdateAuthModeView(auth),
           UNCHANGED <<page, form, hidden, config>>
    PROVE  FieldsInv'
<1>1. authView' = auth
      /\ origin' = [e \in DOMAIN origin |->
                       IF auth # authView /\ origin[e] = "typed" THEN "entered" ELSE origin[e]]
  BY DEF UpdateAuthModeView
<1>2. /\ form \in Fields(page) /\ origin \in [ElementsOf(page) -> Origins]
      /\ hidden \subseteq ElementsOf(page) /\ IsConfig(config)
      /\ \A e \in ElementsOf(page) : Type[e] = "radio" =>
            OneChecked(e, form) /\ \A d \in Group(e) : d \in hidden <=> e \in hidden
      /\ \A e \in ElementsOf(page) : origin[e] = "typed" => authView
      /\ \A e \in ElementsOf(page) :
            origin[e] = "loaded" /\ Key[e] \in DOMAIN config => form[e] = SetValue(e, config[Key[e]])
  BY DEF FieldsInv, OneButton, TypedIsSignedIn, FormFollowsConfig
<1>3. /\ origin' \in [ElementsOf(page) -> Origins]
      /\ \A e \in ElementsOf(page) : origin'[e] = "loaded" => origin[e] = "loaded"
      /\ \A e \in ElementsOf(page) : origin'[e] = "typed" => origin[e] = "typed" /\ auth = authView
  BY <1>1, <1>2 DEF Origins
<1>4. \A e \in ElementsOf(page) : origin'[e] = "typed" => authView'
  BY <1>1, <1>2, <1>3
<1>5. \A e \in ElementsOf(page) :
         origin'[e] = "loaded" /\ Key[e] \in DOMAIN config => form[e] = SetValue(e, config[Key[e]])
  BY <1>2, <1>3
<1>. QED  BY <1>2, <1>3, <1>4, <1>5, FieldsAreRight

\* Before a page is loaded there is nothing.
LEMMA NothingIsRight ==
    /\ IsConfig(NoConfig)
    /\ NoConfig \in Fields(NoPage)
    /\ NoConfig \in [ElementsOf(NoPage) -> Origins]
<1>1. DOMAIN NoConfig = {} /\ NoConfig = [k \in {} |-> NoConfig[k]]
  BY DEF NoConfig
<1>. QED  BY <1>1, NothingOnNoPage DEF IsConfig, Fields

LEMMA ReloadKeepsInv ==
    ASSUME Reload PROVE PagesInv'
<1>1. /\ page' = NoPage /\ form' = NoConfig /\ hidden' = {} /\ saveOn' = FALSE /\ origin' = NoConfig
      /\ config' = NoConfig /\ pending' = FALSE /\ received' = NoConfig
      /\ dialog' = "none" /\ waiting' = FALSE
      /\ token' = FALSE /\ authView' = FALSE /\ logins' = 0
      /\ device' = {}
  BY Zenon DEF Reload
<1>2. FieldsInv'
  BY <1>1, NothingIsRight, NothingOnNoPage, FieldsAreRight
<1>3. OthersInv'
  <2>1. 0 \in 0..MaxLogins
    BY PagesAssumption
  <2>. QED
    BY <1>1, <2>1, NothingIsRight
       DEF OthersInv, ViewFollowsToken, UnsavedIsAnnounced, RestartIsAfterSave
<1>. QED  BY <1>2, <1>3, Zenon DEF PagesInv, FieldsInv, OthersInv, TypeOK

LEMMA InitIsInv ==
    ASSUME Init PROVE PagesInv
<1>1. FieldsInv
  BY NothingIsRight, NothingOnNoPage, Zenon
     DEF Init, FieldsInv, FormFollowsConfig, OneButton, TypedIsSignedIn
<1>2. OthersInv
  <2>1. 0 \in 0..MaxLogins
    BY PagesAssumption
  <2>. QED
    BY <2>1, NothingIsRight
       DEF Init, OthersInv, ViewFollowsToken, UnsavedIsAnnounced, RestartIsAfterSave
<1>. QED  BY <1>1, <1>2, PagesInvParts

\* What SetConfigValues, HiddenBy and IsPageValid leave of the save button is a Boolean.
LEMMA PageValidTyped ==
    \A v, h, a : IsPageValid(v, h, a) \in BOOLEAN
  BY DEF IsPageValid

\* The dialogs, the token, the bar and the device go through every step rightly.
LEMMA NextKeepsOthers ==
    ASSUME PagesInv, Next PROVE OthersInv'
<1>. USE DEF viewVars, dataVars, loginVars, ViewFollowsToken, UnsavedIsAnnounced, RestartIsAfterSave
<1>1. OthersInv
  BY PagesInvParts
<1>2. ASSUME NEW p \in Pages, LoadPage(p) PROVE OthersInv'
  <2>1. saveOn' \in BOOLEAN
    BY <1>2, PageValidTyped, Zenon DEF LoadPage, UpdateView
  <2>. QED  BY <1>1, <1>2, <2>1, Zenon DEF OthersInv, LoadPage
<1>3. ASSUME NEW e \in Elements, OnSwitch(e) PROVE OthersInv'
  <2>1. saveOn' \in BOOLEAN
    BY <1>3, PageValidTyped, Zenon DEF OnSwitch, UpdateView
  <2>. QED  BY <1>1, <1>3, <2>1 DEF OthersInv, OnSwitch
<1>4. ASSUME NEW e \in Elements, NEW v \in Values(e), OnTextKeyUp(e, v) PROVE OthersInv'
  <2>1. saveOn' \in BOOLEAN
    BY <1>4, PageValidTyped, Zenon DEF OnTextKeyUp
  <2>. QED  BY <1>1, <1>4, <2>1 DEF OthersInv, OnTextKeyUp
<1>5. ASSUME NEW e \in Elements, NEW v \in Values(e), Enter(e, v) PROVE OthersInv'
  BY <1>1, <1>5 DEF OthersInv, Enter
<1>6. CASE SavePage
  BY <1>1, <1>6 DEF OthersInv, SavePage, ShowChangePending
<1>7. CASE ReviewChanges
  BY <1>1, <1>7 DEF OthersInv, ReviewChanges, ShowModal
<1>8. CASE CloseDialog
  BY <1>1, <1>8 DEF OthersInv, CloseDialog
<1>9. CASE CommitChanges
  <2>1. PICK n \in 0..2 : device' = device \cup Obeyed(n)
    BY <1>9 DEF CommitChanges
  <2>2. /\ Obeyed(n) \subseteq {"saveconfig", "restart"}
        /\ "restart" \in Obeyed(n) => "saveconfig" \in Obeyed(n)
    <3>1. Commands[1] = "saveconfig" /\ Commands[2] = "restart"
      BY DEF Commands
    <3>2. CASE n = 0
      BY <3>2, SMT DEF Obeyed
    <3>3. CASE n = 1
      BY <3>1, <3>3, SMT DEF Obeyed
    <3>4. CASE n = 2
      BY <3>1, <3>4, SMT DEF Obeyed
    <3>. QED  BY <3>2, <3>3, <3>4, SMT
  <2>3. /\ device' \subseteq {"saveconfig", "restart"}
        /\ "restart" \in device' => "saveconfig" \in device'
    BY <1>1, <2>1, <2>2 DEF OthersInv
  <2>4. pending' = FALSE /\ dialog' = "wait" /\ waiting' = TRUE
        /\ UNCHANGED <<page, saveOn, received, config, token, authView, logins>>
    BY <1>9, Zenon DEF CommitChanges, ShowChangePending, ShowWait, ShowModal
  <2>. QED  BY <1>1, <2>3, <2>4 DEF OthersInv
<1>10. CASE AskSystem
  BY <1>1, <1>10 DEF OthersInv, AskSystem, ShowWait, ShowModal
<1>11. CASE Reload
  BY <1>11, ReloadKeepsInv, Zenon DEF PagesInv, OthersInv, TypeOK
<1>12. CASE Signin
  BY <1>1, <1>12 DEF OthersInv, Signin, ShowModal
<1>13. CASE Signout
  BY <1>1, <1>13 DEF OthersInv, Signout, UpdateAuthModeView
<1>14. CASE Authenticate
  <2>1. logins' \in 0..MaxLogins
    BY <1>1, <1>14, PagesAssumption DEF OthersInv, Authenticate
  <2>. QED  BY <1>1, <1>14, <2>1 DEF OthersInv, Authenticate
<1>15. ASSUME LoginGranted \/ LoginDenied \/ LoginLost PROVE OthersInv'
  <2>1. logins' \in 0..MaxLogins
    <3>1. logins > 0 /\ logins' = logins - 1
      BY <1>15, Zenon DEF LoginGranted, LoginDenied, LoginLost
    <3>2. logins \in 0..MaxLogins
      BY <1>1 DEF OthersInv
    <3>. QED  BY <3>1, <3>2, PagesAssumption
  <2>2. CASE LoginGranted
    BY <1>1, <2>1, <2>2 DEF OthersInv, LoginGranted, UpdateAuthModeView
  <2>3. CASE LoginDenied
    BY <1>1, <2>1, <2>3 DEF OthersInv, LoginDenied, UpdateAuthModeView
  <2>4. CASE LoginLost
    BY <1>1, <2>1, <2>4 DEF OthersInv, LoginLost
  <2>. QED  BY <1>15, <2>2, <2>3, <2>4
<1>16. ASSUME NEW c \in DeviceConfigs, OnUpdateConfig(c) PROVE OthersInv'
  <2>1. IsConfig(c)
    BY PagesAssumption
  <2>. QED  BY <1>1, <1>16, <2>1 DEF OthersInv, OnUpdateConfig
<1>17. CASE OnUpdateOther
  BY <1>1, <1>17 DEF OthersInv, OnUpdateOther
<1>18. ASSUME NEW e \in Elements, ShowScanDialog(e) PROVE OthersInv'
  BY <1>1, <1>18 DEF OthersInv, ShowScanDialog, ShowModal
<1>19. ASSUME NEW e \in Elements, NEW v \in Networks, InsertFoundNetworks(e, v) PROVE OthersInv'
  BY <1>1, <1>19 DEF OthersInv, InsertFoundNetworks
<1>20. ASSUME NEW e \in Elements, NEW v \in Networks, OnSelectChanged(e, v) PROVE OthersInv'
  <2>1. saveOn' \in BOOLEAN
    BY <1>20, PageValidTyped, Zenon DEF OnSelectChanged, UpdateView
  <2>. QED  BY <1>1, <1>20, <2>1 DEF OthersInv, OnSelectChanged
<1>21. CASE UseNetwork
  <2>1. /\ dialog' = "none"
        /\ UNCHANGED <<page, saveOn, config, pending, received, waiting, token, authView, logins, device>>
    BY <1>21, Zenon DEF UseNetwork
  <2>. QED  BY <1>1, <2>1 DEF OthersInv
<1>. QED
  BY <1>18, <1>19, <1>20, <1>21, <1>2, <1>3, <1>4, <1>5, <1>6, <1>7, <1>8, <1>9, <1>10, <1>11, <1>12, <1>13, <1>14, <1>15,
     <1>16, <1>17, Zenon DEF Next

LEMMA NextKeepsInv ==
    ASSUME PagesInv, [Next]_vars PROVE PagesInv'
<1>1. FieldsInv /\ OthersInv
  BY PagesInvParts
<1>2. FieldsInv' /\ OthersInv' => PagesInv'
  BY Zenon DEF PagesInv, FieldsInv, OthersInv, TypeOK
<1>3. CASE UNCHANGED vars
  <2>1. UNCHANGED <<page, form, hidden, saveOn, origin, config, pending, received, dialog, waiting,
                    token, authView, logins, device>>
    BY <1>3, Zenon DEF vars, viewVars, dataVars, loginVars
  <2>2. FieldsInv'
    BY <1>1, <2>1, FieldsUnchanged
  <2>3. OthersInv'
    BY <1>1, <2>1 DEF OthersInv, ViewFollowsToken, UnsavedIsAnnounced, RestartIsAfterSave
  <2>. QED  BY <1>2, <2>2, <2>3
<1>4. ASSUME Next PROVE FieldsInv'
  <2>1. ASSUME NEW p \in Pages, LoadPage(p) PROVE FieldsInv'
    BY <1>1, <2>1, LoadPageKeepsFields
  <2>2. ASSUME NEW e \in Elements, OnSwitch(e) PROVE FieldsInv'
    BY <1>1, <2>2, SwitchKeepsFields
  <2>3. ASSUME NEW e \in Elements, NEW v \in Values(e), OnTextKeyUp(e, v) \/ Enter(e, v)
        PROVE  FieldsInv'
    BY <1>1, <2>3, EnterKeepsFields
  <2>4. CASE SavePage
    BY <2>4, SavePageKeepsFields
  <2>5. CASE ReviewChanges \/ CloseDialog \/ CommitChanges \/ AskSystem
    <3>1. UNCHANGED <<page, form, hidden, origin, config, authView>>
      BY <2>5, Zenon DEF ReviewChanges, CloseDialog, CommitChanges, AskSystem, viewVars, dataVars, loginVars
    <3>. QED  BY <1>1, <3>1, FieldsUnchanged
  <2>6. CASE Signin \/ Authenticate \/ LoginLost
    <3>1. UNCHANGED <<page, form, hidden, origin, config, authView>>
      BY <2>6, Zenon DEF Signin, Authenticate, LoginLost, viewVars, dataVars, loginVars
    <3>. QED  BY <1>1, <3>1, FieldsUnchanged
  <2>7. CASE Reload
    BY <2>7, ReloadKeepsInv, Zenon DEF PagesInv, FieldsInv, TypeOK
  <2>8. CASE Signout \/ LoginGranted \/ LoginDenied
    <3>1. /\ \E auth \in {TRUE, FALSE, token} : UpdateAuthModeView(auth)
          /\ UNCHANGED <<page, form, hidden, config>>
      BY <2>8, Zenon DEF Signout, LoginGranted, LoginDenied, dataVars
    <3>. QED  BY <1>1, <3>1, AuthKeepsFields
  <2>9. ASSUME NEW c \in DeviceConfigs, OnUpdateConfig(c) PROVE FieldsInv'
    <3>1. LoadPageConfig(c) /\ config' = c /\ UNCHANGED <<page, hidden, authView>>
      BY <2>9, Zenon DEF OnUpdateConfig, loginVars
    <3>2. IsConfig(c)
      BY PagesAssumption
    <3>. QED  BY <1>1, <3>1, <3>2, ReadKeepsFields
  <2>10. CASE OnUpdateOther
    <3>1. LoadPageConfig(config) /\ config' = config /\ UNCHANGED <<page, hidden, authView>>
      BY <2>10, Zenon DEF OnUpdateOther, dataVars, loginVars
    <3>2. IsConfig(config)
      BY <1>1 DEF FieldsInv
    <3>. QED  BY <1>1, <3>1, <3>2, ReadKeepsFields
  <2>11. ASSUME NEW e \in Elements, NEW v, ListStep(e, v) PROVE FieldsInv'
    BY <1>1, <2>11, ListKeepsFields
  <2>12. ASSUME NEW e \in Elements,
                \/ ShowScanDialog(e)
                \/ \E v \in Networks : InsertFoundNetworks(e, v) \/ OnSelectChanged(e, v)
         PROVE  FieldsInv'
    <3>1. \E v : ListStep(e, v)
      BY <2>12 DEF ListStep
    <3>. QED  BY <2>11, <3>1
  <2>13. CASE UseNetwork
    BY <1>1, <2>13, UseKeepsFields
  <2>. QED
    BY <1>4, <2>1, <2>2, <2>3, <2>4, <2>5, <2>6, <2>7, <2>8, <2>9, <2>10, <2>12, <2>13, Zenon DEF Next
<1>5. Next => OthersInv'
  BY NextKeepsOthers
<1>. QED  BY <1>2, <1>3, <1>4, <1>5

LEMMA PagesInvariant == Spec => []PagesInv
<1>1. Init => PagesInv
  BY InitIsInv
<1>2. PagesInv /\ [Next]_vars => PagesInv'
  BY NextKeepsInv
<1>. QED  BY <1>1, <1>2, PTL DEF Spec

-------------------------------------------------------------------------------
(* What is saved.                                                            *)

\* An element that is shown gives what it shows: each name has a button that is checked, and
\* that one is shown too.
LEMMA ShownIsSaved ==
    ASSUME PagesInv, authView, NEW e \in ElementsOf(page), IsVisible(e, hidden, authView)
    PROVE  LET saved == SaveConfigValues(config)
           IN  Key[e] \in DOMAIN saved /\ SetValue(e, saved[Key[e]]) = form[e]
<1>. DEFINE shown == {d \in DOMAIN form : IsVisible(d, hidden, authView)}
<1>1. /\ TypeOK /\ OneButton /\ DOMAIN form = ElementsOf(page)
      /\ \A d \in ElementsOf(page) : form[d] \in Values(d)
      /\ e \in Elements
  BY DEF PagesInv, TypeOK, Fields, ElementsOf
<1>2. shown \in SUBSET ElementsOf(page)
  BY <1>1
<1>3. SaveConfigValues(config) = SaveElements(shown, config)
  BY DEF SaveConfigValues
<1>4. \E d \in shown \cap Group(e) : GetValue(d, form[d]) # Undefined
  <2>1. CASE Type[e] = "radio"
    <3>1. PICK d \in Group(e) : \A f \in Group(e) : form[f] = "checked" <=> f = d
      BY <1>1, <2>1, Zenon DEF OneButton, OneChecked
    <3>2. d \in ElementsOf(page) /\ Type[d] = "radio" /\ form[d] = "checked"
      BY <2>1, <3>1, GroupOnPage
    <3>3. d \notin hidden
      BY <1>1, <2>1 DEF OneButton, IsVisible
    <3>4. d \in shown
      BY <1>1, <3>2, <3>3 DEF IsVisible, IsSwitch
    <3>5. Button[d] \in {"0", "1"}
      BY <1>1, <2>1, RadioAssumption
    <3>6. GetValue(d, form[d]) = Button[d]
      BY <3>2 DEF GetValue
    <3>7. GetValue(d, form[d]) # Undefined
      BY <3>5, <3>6 DEF Undefined
    <3>. QED  BY <3>4, <3>7
  <2>2. CASE Type[e] # "radio"
    <3>1. e \in shown /\ e \in Group(e)
      BY <1>1 DEF Group
    <3>2. form[e] \in Values(e)
      BY <1>1
    <3>3. GetValue(e, form[e]) # Undefined
      <4>1. CASE Type[e] = "checkbox"
        BY <4>1, SMT DEF GetValue, Undefined
      <4>2. CASE Type[e] # "checkbox"
        <5>1. ~IsSwitch(e)
          BY <2>2, <4>2 DEF IsSwitch
        <5>2. GetValue(e, form[e]) = form[e] /\ Undefined \notin Values(e)
          BY <1>1, <5>1, ValuesOf, Zenon
        <5>. QED  BY <3>2, <5>2
      <4>. QED  BY <4>1, <4>2
    <3>. QED  BY <3>1, <3>3
  <2>. QED  BY <2>1, <2>2
<1>. HIDE DEF shown
<1>. QED  BY <1>1, <1>2, <1>3, <1>4, SavedConfig

LEMMA SavedConfigTyped ==
    ASSUME PagesInv PROVE IsConfig(SaveConfigValues(config))
<1>. DEFINE shown == {d \in DOMAIN form : IsVisible(d, hidden, authView)}
<1>1. TypeOK /\ OneButton /\ DOMAIN form = ElementsOf(page)
  BY DEF PagesInv, TypeOK, Fields
<1>2. shown \in SUBSET ElementsOf(page)
  BY <1>1
<1>3. SaveConfigValues(config) = SaveElements(shown, config)
  BY DEF SaveConfigValues
<1>. HIDE DEF shown
<1>. QED  BY <1>1, <1>2, <1>3, SavedConfig

\* What a page saves is what it shows when it is loaded the next time, with the same
\* elements.
LEMMA InvGivesSavedIsShown == PagesInv => SavedIsShownAgain
<1>. SUFFICES ASSUME PagesInv, page # NoPage, authView
              PROVE  /\ AfterSaving \in Forms(page)
                     /\ \A e \in ElementsOf(page) :
                           IsVisible(e, hidden, authView) => AfterSaving[e] = form[e]
                     /\ hidden = HiddenBy(form) => HiddenBy(AfterSaving) = hidden
  BY DEF SavedIsShownAgain
<1>. DEFINE v     == [e \in ElementsOf(page) |-> Default[e]]
            saved == SaveConfigValues(config)
<1>1. v \in Fields(page) /\ \A e \in ElementsOf(page) : Type[e] = "radio" => OneChecked(e, v)
  BY DefaultTyped
<1>2. IsConfig(saved)
  BY SavedConfigTyped
<1>3. AfterSaving = SetConfigValues(v, saved)
  BY DEF AfterSaving
<1>4. DOMAIN v = ElementsOf(page)
  OBVIOUS
<1>5. \A e \in ElementsOf(page) : IsVisible(e, hidden, authView) =>
          Key[e] \in DOMAIN saved /\ SetValue(e, saved[Key[e]]) = form[e]
  BY ShownIsSaved
<1>. HIDE DEF v, saved
<1>6. \A e \in ElementsOf(page) : IsVisible(e, hidden, authView) => AfterSaving[e] = form[e]
  BY <1>3, <1>4, <1>5 DEF SetConfigValues
<1>7. AfterSaving \in Forms(page)
  BY <1>1, <1>2, <1>3, SetConfigTyped, SetConfigOneChecked DEF Forms
<1>8. form \in Forms(page) /\ page \in Pages
  BY DEF PagesInv, TypeOK, OneButton, Forms
<1>9. ASSUME hidden = HiddenBy(form) PROVE HiddenBy(AfterSaving) = hidden
  <2>1. \A e \in ElementsOf(page) \ HiddenBy(form) : AfterSaving[e] = form[e]
    BY <1>6, <1>9 DEF IsVisible
  <2>. QED  BY <1>7, <1>8, <1>9, <2>1, HiddenDecidesNothing
<1>. QED  BY <1>6, <1>7, <1>9

\* The page, the token, the configuration and the commands fit together in every state: what
\* is shown follows the token and the configuration, one button of each name is checked,
\* what is saved is shown again, nothing unsaved is forgotten, and no restart comes before
\* its save.
THEOREM SessionInvariant == Spec => []SessionInv
<1>1. PagesInv => SessionInv
  BY InvGivesSavedIsShown DEF PagesInv, SessionInv
<1>. QED  BY <1>1, PagesInvariant, PTL

-------------------------------------------------------------------------------
(* The save button and texts of a wrong form.                                *)

\* Whenever the button is set, it is off if a typed text that is shown is wrong.
LEMMA ValidHasNoTypedInvalid ==
    ASSUME PagesInv', DOMAIN form' = ElementsOf(page'),
           saveOn' = IsPageValid(form', hidden', authView')
    PROVE  TypedInvalidIsNotSaved'
<1>. SUFFICES ASSUME saveOn', NEW e \in ElementsOf(page'),
                     IsVisible(e, hidden', authView'), origin'[e] = "typed"
              PROVE  form'[e] # "bad"
  BY Zenon DEF TypedInvalidIsNotSaved
<1>1. authView'
  BY DEF PagesInv, TypedIsSignedIn
<1>2. CASE ~IsList(e)
  <2>1. IsValid(e, form'[e], authView')
    BY <1>2 DEF IsPageValid
  <2>. QED  BY <1>1, <2>1 DEF IsValid
<1>3. CASE IsList(e)
  <2>1. form'[e] \in Values(e)
    BY DEF PagesInv, TypeOK, Fields
  <2>. QED  BY <1>3, <2>1, PagesAssumption DEF Values, IsSwitch, IsList
<1>. QED  BY <1>2, <1>3

\* A step after which no more is typed, and what is typed is as before.
LEMMA TypedAsBefore ==
    ASSUME TypedInvalidIsNotSaved,
           UNCHANGED <<page, hidden, saveOn>>,
           \A e \in ElementsOf(page) : origin'[e] = "typed" =>
              /\ origin[e] = "typed" /\ form'[e] = form[e]
              /\ IsVisible(e, hidden, authView') => IsVisible(e, hidden, authView)
    PROVE  TypedInvalidIsNotSaved'
  BY Zenon DEF TypedInvalidIsNotSaved

LEMMA NextKeepsTyped ==
    ASSUME PagesInv, TypedInvalidIsNotSaved, [Next]_vars
    PROVE  TypedInvalidIsNotSaved'
<1>1. PagesInv'
  BY NextKeepsInv
<1>2. /\ DOMAIN form = ElementsOf(page) /\ DOMAIN origin = ElementsOf(page)
      /\ DOMAIN form' = ElementsOf(page')
      /\ origin \in [ElementsOf(page) -> Origins]
  BY <1>1 DEF PagesInv, TypeOK, Fields
<1>3. ASSUME UNCHANGED <<page, form, hidden, saveOn, origin, authView>>
      PROVE  TypedInvalidIsNotSaved'
  BY <1>3, TypedAsBefore
<1>4. ASSUME NEW p \in Pages, LoadPage(p) PROVE TypedInvalidIsNotSaved'
  <2>1. saveOn' = IsPageValid(form', hidden', authView) /\ authView' = authView
    BY <1>4, Zenon DEF LoadPage, UpdateView, loginVars
  <2>. QED  BY <1>1, <1>2, <2>1, ValidHasNoTypedInvalid
<1>5. ASSUME NEW e \in Elements, OnSwitch(e) PROVE TypedInvalidIsNotSaved'
  <2>1. saveOn' = IsPageValid(form', hidden', authView) /\ authView' = authView
    BY <1>5, Zenon DEF OnSwitch, UpdateView, loginVars
  <2>. QED  BY <1>1, <1>2, <2>1, ValidHasNoTypedInvalid
<1>6. ASSUME NEW e \in Elements, NEW v \in Values(e), OnTextKeyUp(e, v) PROVE TypedInvalidIsNotSaved'
  <2>1. saveOn' = IsPageValid(form', hidden, authView) /\ authView' = authView /\ hidden' = hidden
    BY <1>6, Zenon DEF OnTextKeyUp, loginVars
  <2>. QED  BY <1>1, <1>2, <2>1, ValidHasNoTypedInvalid
<1>7. ASSUME NEW e \in Elements, NEW v \in Values(e), Enter(e, v) PROVE TypedInvalidIsNotSaved'
  <2>1. /\ form' = [form EXCEPT ![e] = v] /\ origin' = [origin EXCEPT ![e] = "entered"]
        /\ UNCHANGED <<page, hidden, saveOn, authView>>
    BY <1>7, Zenon DEF Enter, loginVars
  <2>2. \A d \in ElementsOf(page) : origin'[d] = "typed" => origin[d] = "typed" /\ form'[d] = form[d]
    BY <1>2, <2>1
  <2>. QED  BY <2>1, <2>2, TypedAsBefore
<1>8. CASE SavePage \/ ReviewChanges \/ CloseDialog \/ CommitChanges \/ AskSystem
  <2>1. UNCHANGED <<page, form, hidden, saveOn, origin, authView>>
    BY <1>8, Zenon
       DEF SavePage, ReviewChanges, CloseDialog, CommitChanges, AskSystem, viewVars, loginVars
  <2>. QED  BY <1>3, <2>1
<1>9. CASE Signin \/ Authenticate \/ LoginLost
  <2>1. UNCHANGED <<page, form, hidden, saveOn, origin, authView>>
    BY <1>9, Zenon DEF Signin, Authenticate, LoginLost, viewVars, loginVars
  <2>. QED  BY <1>3, <2>1
<1>10. CASE Reload
  <2>1. page' = NoPage
    BY <1>10, Zenon DEF Reload
  <2>. QED  BY <2>1, NothingOnNoPage DEF TypedInvalidIsNotSaved
<1>11. CASE Signout \/ LoginGranted \/ LoginDenied
  <2>1. PICK auth \in {TRUE, FALSE, token} :
           UpdateAuthModeView(auth) /\ UNCHANGED <<page, form, hidden, saveOn>>
    BY <1>11, Zenon DEF Signout, LoginGranted, LoginDenied
  <2>2. \A e \in ElementsOf(page) : origin'[e] = "typed" => origin[e] = "typed" /\ auth = authView
    BY <1>2, <2>1 DEF UpdateAuthModeView
  <2>3. authView' = auth
    BY <2>1 DEF UpdateAuthModeView
  <2>. QED  BY <2>1, <2>2, <2>3, TypedAsBefore
<1>12. ASSUME NEW c, LoadPageConfig(c), UNCHANGED <<page, hidden, saveOn, authView>>
       PROVE  TypedInvalidIsNotSaved'
  <2>1. \A e \in ElementsOf(page) : origin'[e] = "typed" => origin[e] = "typed" /\ form'[e] = form[e]
    BY <1>2, <1>12 DEF LoadPageConfig, SetConfigValues
  <2>. QED  BY <1>12, <2>1, TypedAsBefore
<1>13. ASSUME NEW c \in DeviceConfigs, OnUpdateConfig(c) PROVE TypedInvalidIsNotSaved'
  <2>1. LoadPageConfig(c) /\ UNCHANGED <<page, hidden, saveOn, authView>>
    BY <1>13, Zenon DEF OnUpdateConfig, loginVars
  <2>. QED  BY <1>12, <2>1
<1>14. CASE OnUpdateOther
  <2>1. LoadPageConfig(config) /\ UNCHANGED <<page, hidden, saveOn, authView>>
    BY <1>14, Zenon DEF OnUpdateOther, loginVars
  <2>. QED  BY <1>12, <2>1
<1>15. CASE UNCHANGED vars
  <2>1. UNCHANGED <<page, form, hidden, saveOn, origin, authView>>
    BY <1>15, Zenon DEF vars, viewVars, loginVars
  <2>. QED  BY <1>3, <2>1
<1>16. ASSUME NEW e \in Elements, NEW v,
              ListStep(e, v)
       PROVE  TypedInvalidIsNotSaved'
  <2>1. /\ e \in ElementsOf(page) /\ form' = [form EXCEPT ![e] = v]
        /\ \E o \in {"entered", "scanned"} : origin' = [origin EXCEPT ![e] = o]
        /\ UNCHANGED <<page, authView>>
    BY <1>16, ListSteps, PagesInvParts
  <2>2. CASE OnSelectChanged(e, v)
    <3>1. saveOn' = IsPageValid(form', hidden', authView')
      BY <2>1, <2>2, Zenon DEF OnSelectChanged, UpdateView
    <3>. QED  BY <1>1, <1>2, <3>1, ValidHasNoTypedInvalid
  <2>3. CASE ~OnSelectChanged(e, v)
    <3>1. UNCHANGED <<hidden, saveOn>>
      BY <1>16, <2>3, Zenon DEF ListStep, ShowScanDialog, InsertFoundNetworks
    <3>2. \A d \in ElementsOf(page) : origin'[d] = "typed" => origin[d] = "typed" /\ form'[d] = form[d]
      BY <1>2, <2>1
    <3>. QED  BY <2>1, <3>1, <3>2, TypedAsBefore
  <2>. QED  BY <2>2, <2>3
<1>17. ASSUME NEW e \in Elements,
              \/ ShowScanDialog(e)
              \/ \E v \in Networks : InsertFoundNetworks(e, v) \/ OnSelectChanged(e, v)
       PROVE  TypedInvalidIsNotSaved'
  <2>1. \E v : ListStep(e, v)
    BY <1>17 DEF ListStep
  <2>. QED  BY <1>16, <2>1
<1>18. CASE UseNetwork
  <2>1. /\ UNCHANGED <<page, hidden, authView, saveOn>>
        /\ \A d \in ElementsOf(page) :
              (form'[d] = form[d] /\ origin'[d] = origin[d]) \/ origin'[d] = "entered"
    BY <1>18, UseSteps, PagesInvParts
  <2>2. \A d \in ElementsOf(page) : origin'[d] = "typed" => origin[d] = "typed" /\ form'[d] = form[d]
    BY <2>1
  <2>. QED  BY <2>1, <2>2, TypedAsBefore
<1>. QED
  BY <1>4, <1>5, <1>6, <1>7, <1>8, <1>9, <1>10, <1>11, <1>13, <1>14, <1>15, <1>17, <1>18, Zenon DEF Next

\* A text of a wrong form that was typed keeps the save button off as long as it is shown,
\* on any page, through any switches, updates and logins.
THEOREM TypedInvalidStaysUnsaved == Spec => []TypedInvalidIsNotSaved
<1>1. Init => TypedInvalidIsNotSaved
  BY Zenon DEF Init, TypedInvalidIsNotSaved
<1>2. PagesInv /\ TypedInvalidIsNotSaved /\ [Next]_vars => TypedInvalidIsNotSaved'
  BY NextKeepsTyped
<1>. QED  BY <1>1, <1>2, PagesInvariant, PTL DEF Spec

-------------------------------------------------------------------------------
(* What saving a page changes.                                               *)

\* An element that shows what the configuration says gives a value of the same meaning.
LEMMA LoadedMeansTheSame ==
    ASSUME NEW e \in Elements, NEW x \in ConfigValues(e),
           GetValue(e, SetValue(e, x)) # Undefined
    PROVE  SameTo(Key[e], x, GetValue(e, SetValue(e, x)))
<1>. DEFINE y == GetValue(e, SetValue(e, x))
<1>. SUFFICES ASSUME NEW d \in Elements, Key[d] = Key[e]
              PROVE  SetValue(d, x) = SetValue(d, y)
  BY DEF SameTo
<1>1. Type[d] = Type[e] /\ d \in Group(e)
  BY PagesAssumption DEF Group
<1>2. CASE Type[e] = "radio"
  <2>1. x \in {"0", "1", "TRUE", "FALSE"}
    BY <1>2 DEF ConfigValues, IsSwitch
  <2>2. SetValue(e, x) = Checked(LooseEq(Button[e], x)) /\ SetValue(d, x) = Checked(LooseEq(Button[d], x))
    BY <1>1, <1>2, SMT DEF SetValue
  <2>3. LooseEq(Button[e], x) /\ y = Button[e]
    BY <1>2, <2>2, SMT DEF GetValue, Checked
  <2>4. Button[e] \in {"0", "1"} /\ Button[d] \in {"0", "1"}
    BY <1>1, <1>2, RadioAssumption DEF Group
  <2>5. LooseEq(Button[d], x) <=> LooseEq(Button[d], y)
    BY <2>1, <2>3, <2>4, SMT DEF LooseEq
  <2>6. SetValue(d, y) = Checked(LooseEq(Button[d], y))
    BY <1>1, <1>2, SMT DEF SetValue
  <2>. QED  BY <2>2, <2>5, <2>6, SMT DEF Checked
<1>3. CASE Type[e] = "checkbox"
  BY <1>1, <1>3, SMT DEF SetValue, GetValue, Checked
<1>4. CASE Type[e] \notin {"radio", "checkbox"}
  BY <1>1, <1>4, SMT DEF SetValue, GetValue
<1>. QED  BY <1>2, <1>3, <1>4

\* Only lists are filled by a scan, and only texts by the keyboard.
ScansFillLists ==
    \A e \in ElementsOf(page) :
        /\ origin[e] = "scanned" => IsList(e)
        /\ origin[e] = "typed" => Type[e] = "text"

\* A step after which each value comes from where it came before, or from where it may come.
LEMMA OriginsFit ==
    ASSUME ScansFillLists, page' = page,
           \A e \in ElementsOf(page) :
              \/ origin'[e] = origin[e]
              \/ origin'[e] \in {"loaded", "entered"}
              \/ origin'[e] = "scanned" /\ IsList(e)
              \/ origin'[e] = "typed" /\ Type[e] = "text"
    PROVE  ScansFillLists'
<1>. SUFFICES ASSUME NEW e \in ElementsOf(page)
              PROVE  /\ origin'[e] = "scanned" => IsList(e)
                     /\ origin'[e] = "typed" => Type[e] = "text"
  BY DEF ScansFillLists
<1>. QED  BY DEF ScansFillLists

LEMMA NextKeepsLists ==
    ASSUME PagesInv, ScansFillLists, [Next]_vars PROVE ScansFillLists'
<1>1. DOMAIN origin = ElementsOf(page)
  BY DEF PagesInv, TypeOK
<1>2. ASSUME UNCHANGED <<page, origin>> PROVE ScansFillLists'
  BY <1>2, OriginsFit
<1>3. ASSUME NEW p \in Pages, LoadPage(p) PROVE ScansFillLists'
  <2>1. page' = p /\ origin' = [e \in ElementsOf(p) |-> "loaded"]
    BY <1>3, Zenon DEF LoadPage
  <2>. QED  BY <2>1 DEF ScansFillLists
<1>4. ASSUME NEW e \in Elements, NEW v \in Values(e), OnTextKeyUp(e, v) PROVE ScansFillLists'
  <2>1. /\ page' = page /\ Type[e] = "text"
        /\ origin' = IF authView THEN [origin EXCEPT ![e] = "typed"] ELSE origin
    BY <1>4, Zenon DEF OnTextKeyUp
  <2>. QED  BY <1>1, <2>1, OriginsFit
<1>5. ASSUME NEW e \in Elements, NEW v, Enter(e, v) \/ OnSelectChanged(e, v) PROVE ScansFillLists'
  <2>1. page' = page /\ origin' = [origin EXCEPT ![e] = "entered"]
    BY <1>5, Zenon DEF Enter, OnSelectChanged
  <2>. QED  BY <1>1, <2>1, OriginsFit
<1>6. ASSUME NEW e \in Elements, NEW v, ShowScanDialog(e) \/ InsertFoundNetworks(e, v)
      PROVE  ScansFillLists'
  <2>1. page' = page /\ IsList(e) /\ origin' = [origin EXCEPT ![e] = "scanned"]
    BY <1>6, Zenon DEF ShowScanDialog, InsertFoundNetworks
  <2>. QED  BY <1>1, <2>1, OriginsFit
<1>7. ASSUME NEW e \in Elements, OnSwitch(e) PROVE ScansFillLists'
  <2>1. /\ page' = page
        /\ origin' = [d \in DOMAIN origin |-> IF d \in Group(e) THEN "entered" ELSE origin[d]]
    BY <1>7, Zenon DEF OnSwitch
  <2>. QED  BY <1>1, <2>1, OriginsFit
<1>8. CASE UseNetwork
  <2>1. /\ page' = page
        /\ origin' = [e \in DOMAIN origin |-> IF e \in FromScan THEN "entered" ELSE origin[e]]
    BY <1>8, Zenon DEF UseNetwork
  <2>. QED  BY <1>1, <2>1, OriginsFit
<1>9. CASE SavePage \/ ReviewChanges \/ CloseDialog \/ CommitChanges \/ AskSystem
  <2>1. UNCHANGED <<page, origin>>
    BY <1>9, Zenon DEF SavePage, ReviewChanges, CloseDialog, CommitChanges, AskSystem, viewVars
  <2>. QED  BY <1>2, <2>1
<1>10. CASE Signin \/ Authenticate \/ LoginLost \/ UNCHANGED vars
  <2>1. UNCHANGED <<page, origin>>
    BY <1>10, Zenon DEF Signin, Authenticate, LoginLost, vars, viewVars
  <2>. QED  BY <1>2, <2>1
<1>11. CASE Reload
  <2>1. page' = NoPage
    BY <1>11, Zenon DEF Reload
  <2>. QED  BY <2>1, NothingOnNoPage DEF ScansFillLists
<1>12. CASE Signout \/ LoginGranted \/ LoginDenied
  <2>1. PICK auth \in {TRUE, FALSE, token} : UpdateAuthModeView(auth) /\ page' = page
    BY <1>12, Zenon DEF Signout, LoginGranted, LoginDenied
  <2>2. \A e \in ElementsOf(page) : origin'[e] = origin[e] \/ origin'[e] = "entered"
    BY <1>1, <2>1 DEF UpdateAuthModeView
  <2>. QED  BY <2>1, <2>2, OriginsFit
<1>13. ASSUME NEW c, LoadPageConfig(c), page' = page PROVE ScansFillLists'
  <2>1. \A e \in ElementsOf(page) : origin'[e] = origin[e] \/ origin'[e] = "loaded"
    BY <1>1, <1>13 DEF LoadPageConfig
  <2>. QED  BY <1>13, <2>1, OriginsFit
<1>14. ASSUME NEW c \in DeviceConfigs, OnUpdateConfig(c) PROVE ScansFillLists'
  BY <1>13, <1>14, Zenon DEF OnUpdateConfig
<1>15. CASE OnUpdateOther
  BY <1>13, <1>15, Zenon DEF OnUpdateOther
<1>. QED
  BY <1>3, <1>4, <1>5, <1>6, <1>7, <1>8, <1>9, <1>10, <1>11, <1>12, <1>14, <1>15, Zenon DEF Next

LEMMA ListsInvariant == Spec => []ScansFillLists
<1>1. Init => ScansFillLists
  BY NothingOnNoPage DEF Init, ScansFillLists
<1>2. PagesInv /\ ScansFillLists /\ [Next]_vars => ScansFillLists'
  BY NextKeepsLists
<1>. QED  BY <1>1, <1>2, PagesInvariant, PTL DEF Spec

\* savePage() gives another meaning only to what the user has changed in an element that is
\* shown, and to the list of the dialog for networks, whatever the pages and the
\* configuration are.  No more than a list takes its value from a scan.
LEMMA SavePageChanges ==
    ASSUME PagesInv, ScansFillLists, SavePage, NEW k \in DOMAIN config,
           ~SameTo(k, config[k], config'[k])
    PROVE  \E e \in ElementsOf(page) :
              /\ Key[e] = k
              /\ \/ IsShown(e, hidden, authView) /\ origin[e] \in {"typed", "entered"}
                 \/ IsList(e) /\ origin[e] \in {"entered", "scanned"}
<1>. DEFINE shown == {d \in DOMAIN form : IsVisible(d, hidden, authView)}
<1>1. /\ DOMAIN form = ElementsOf(page) /\ FormFollowsConfig /\ IsConfig(config)
      /\ ElementsOf(page) \subseteq Elements
  BY DEF PagesInv, TypeOK, Fields, ElementsOf
<1>2. config' = SaveElements(shown, config)
  BY Zenon DEF SavePage, SaveConfigValues
<1>3. config'[k] # config[k]
  BY DEF SameTo
<1>4. \E e \in Given(shown, k) : config'[k] = GetValue(e, form[e])
  <2>. HIDE DEF shown
  <2>. QED  BY <1>2, <1>3, SavedValues
<1>5. PICK e \in Given(shown, k) : config'[k] = GetValue(e, form[e])
  BY <1>4
<1>6. /\ e \in ElementsOf(page) /\ Key[e] = k /\ IsVisible(e, hidden, authView)
      /\ GetValue(e, form[e]) # Undefined /\ e \in Elements
  BY <1>1 DEF Given
<1>7. ASSUME origin[e] = "loaded" PROVE FALSE
  <2>1. form[e] = SetValue(e, config[k])
    BY <1>1, <1>6, <1>7 DEF FormFollowsConfig
  <2>2. config[k] \in ConfigValues(e)
    BY <1>1, <1>6 DEF IsConfig
  <2>3. SameTo(Key[e], config[k], GetValue(e, SetValue(e, config[k])))
    BY <1>6, <2>1, <2>2, LoadedMeansTheSame
  <2>. QED  BY <1>5, <1>6, <2>1, <2>3
<1>8. authView /\ ~IsList(e) => IsShown(e, hidden, authView)
  BY <1>6 DEF IsShown
<1>9. authView
  BY Zenon DEF SavePage
<1>10. origin[e] \in Origins /\ (origin[e] = "typed" => Type[e] = "text") /\ (origin[e] = "scanned" => IsList(e))
  BY <1>6 DEF PagesInv, TypeOK, ScansFillLists
<1>11. CASE IsList(e)
  BY <1>6, <1>7, <1>10, <1>11 DEF Origins, IsList
<1>12. CASE ~IsList(e)
  BY <1>6, <1>7, <1>8, <1>9, <1>10, <1>12 DEF Origins
<1>. QED  BY <1>11, <1>12

\* The action property of saving, for any pages: what is not changed is not given another
\* meaning, but for the list of the dialog for networks.
THEOREM SavesOnlyChanges == Spec => OnlyChangesAreSaved
<1>1. PagesInv /\ ScansFillLists /\ [Next]_vars =>
        [SavePage =>
            \A k \in DOMAIN config :
                ~SameTo(k, config[k], config'[k]) =>
                    \E e \in ElementsOf(page) :
                        /\ Key[e] = k
                        /\ \/ IsShown(e, hidden, authView) /\ origin[e] \in {"typed", "entered"}
                           \/ IsList(e) /\ origin[e] \in {"entered", "scanned"}]_vars
  BY SavePageChanges, Zenon
<1>. QED  BY <1>1, PagesInvariant, ListsInvariant, PTL DEF Spec, OnlyChangesAreSaved
===============================================================================
