------------------------------- MODULE WebStart -------------------------------
(***************************************************************************)
(* The start of the web application and what it works with afterwards: the  *)
(* pages and their menu, the texts of the languages, the variables, and the *)
(* link to the device (runtime.js, from the function at its end and         *)
(* CAppl.init() on; CAppSettings, CTranslator, CVarTable, CMenuBar).        *)
(*                                                                         *)
(* The answers of the web server come when they like and may fail; the      *)
(* callbacks of one answer, with the promises that are settled by then, are *)
(* one step, as nothing can come in between.                                *)
(***************************************************************************)
EXTENDS WebLink, Sequences, SequencesExt

CONSTANTS
    PageMenus,   \* the menu entries of the pages (data-menu): paths of names
    Home,        \* the setting DefaultPage: such a path, if the page is there
    Nowhere,     \* no page
    Recons,      \* what the setting app.ws.recon may be, "undefined" included
    Settings,    \* the variables of the settings: a sequence of [name, text]
    StatusVars,  \* those that the status brings
    Languages    \* the languages [default, user], which may be the same

\* A text is a sequence of words, of which some are the names of variables: $(name).
Variables == [name : STRING, text : Seq(STRING)]

ASSUME StartAssumption ==
    /\ Nowhere \notin PageMenus
    /\ \A p \in PageMenus : p # <<>>
    /\ Settings \in Seq(Variables) /\ StatusVars \in Seq(Variables)

VARIABLES
    phase,      \* what the start waits for: "pages", "default", "user"; "running"; "failed"
    menu,       \* the entries of the menu: paths, the parents included
    open,       \* the submenus with the class "show"
    active,     \* the entry with the class "active": of the page that is shown
    langDefs,   \* CTranslator._tLangDefs: of each language "none", "loaded" or "failed"
    requests,   \* history: how often each language was requested
    shownIn,    \* the language in which the page that is shown was translated
    tVars       \* CAppl.Vars: a sequence of [name, text], in the order of their first setting

startVars == <<phase, menu, open, active, langDefs, requests, shownIn, tVars>>
allVars   == <<linkVars, startVars>>

Langs == {Languages.default, Languages.user}
NoLanguage == "none"

-------------------------------------------------------------------------------
(* Utils and CAppSettings.                                                   *)

\* isFalseValue(), of a string or undefined; isTrueValue() is all the rest.
IsFalseValue(v) == v \in {"false", "0", "no", "off", "undefined"}
IsTrueValue(v)  == ~IsFalseValue(v)

\* setMenuEntry(): the entry, and its parents if they are not there.
SetMenuEntry(path) == {SubSeq(path, 1, n) : n \in 1..Len(path)}
MenuOf(pages)      == UNION {SetMenuEntry(p) : p \in pages}

\* addMenuEntry(): an entry with entries below it is a button that toggles them, any
\* other one is a link to its page.
IsSubMenu(path, entries) == \E p \in entries : p # path /\ IsPrefix(path, p)
Links(entries) == {p \in entries : ~IsSubMenu(p, entries)}

-------------------------------------------------------------------------------
(* CVarTable.                                                                *)

NamesIn(table) == {table[i].name : i \in 1..Len(table)}

\* this._tVars[name] = text
Assign(table, var) ==
    IF var.name \in NamesIn(table)
    THEN [i \in 1..Len(table) |-> IF table[i].name = var.name THEN var ELSE table[i]]
    ELSE Append(table, var)

\* A loop over variables.
InTurn(change(_, _), start, vars) ==
    LET done[n \in 0..Len(vars)] == IF n = 0 THEN start ELSE change(done[n - 1], vars[n])
    IN  done[Len(vars)]

\* setVars(): every member of the object.
SetVars(table, vars) == InTurn(Assign, table, vars)

\* setVar(): without a text the table stays as it is.
SetVar(table, var) == IF var.text = <<>> THEN table ELSE Assign(table, var)

\* str.replaceAll("$(name)", text)
Replaced(str, var) ==
    FlattenSeq([i \in 1..Len(str) |-> IF str[i] = var.name THEN var.text ELSE <<str[i]>>])

Substituted(str, table) == InTurn(Replaced, str, table)

\* A mutant of Subst: one round.
SubstOnce(str, table) == Substituted(str, table)

\* subst(): seven rounds over the table.
Subst(str, table) ==
    LET after[n \in 0..7] == IF n = 0 THEN str ELSE Substituted(after[n - 1], table)
    IN  after[7]

-------------------------------------------------------------------------------
(* CTranslator.                                                              *)

\* Is the language in the table, be it that its file could not be read?
Cached(lang) == langDefs[lang] # "none"

\* getLanguageDef(): the request, if there is no definition.
Fetch(lang) == requests' = [requests EXCEPT ![lang] = @ + 1]

\* getKeyData(): the user's language first, the default second.
KeyLanguage(defs) ==
    IF defs[Languages.user] = "loaded" THEN Languages.user
    ELSE IF defs[Languages.default] = "loaded" THEN Languages.default
    ELSE NoLanguage

-------------------------------------------------------------------------------
StartInit ==
    /\ Init
    /\ phase = "pages" /\ menu = {} /\ open = {} /\ active = Nowhere
    /\ langDefs = [l \in Langs |-> "none"] /\ requests = [l \in Langs |-> 0]
    /\ shownIn = NoLanguage
    /\ tVars = <<>>

\* The pages arrive: their menu entries, then APP.init() with the variables and the
\* request of the default language.
PagesArrive ==
    /\ phase = "pages"
    /\ menu' = MenuOf(PageMenus)
    /\ tVars' = SetVars(tVars, Settings)
    /\ Fetch(Languages.default)
    /\ phase' = "default"
    /\ UNCHANGED <<linkVars, open, active, langDefs, shownIn>>

\* fetch() is rejected: the application is not started.
PagesFail ==
    /\ phase = "pages"
    /\ phase' = "failed"
    /\ UNCHANGED <<linkVars, menu, open, active, langDefs, requests, shownIn, tVars>>

\* loadPage(): with the menu entry of the page; without one it ends in an exception.
LoadPage(path, defs) ==
    IF path \in Links(menu)
    THEN active' = path /\ shownIn' = KeyLanguage(defs)
    ELSE UNCHANGED <<active, shownIn>>

\* The rest of init(), when both languages are there: the menu, the link, the home
\* page; it does not wait for the status that it requests.
Run(defs) ==
    /\ phase' = "running"
    /\ \E recon \in Recons : Connect(IsTrueValue(recon))
    /\ LoadPage(Home, defs)

\* getLanguageDef() ends, with a definition or with the mark that there is none;
\* preload() goes on to the user's language, which needs a request unless it is the
\* same one.
LanguageEnds(lang, result) ==
    /\ phase \in {"default", "user"}
    /\ lang = (IF phase = "default" THEN Languages.default ELSE Languages.user)
    /\ langDefs' = [langDefs EXCEPT ![lang] = result]
    /\ IF phase = "default" /\ ~Cached(Languages.user)'
       THEN /\ phase' = "user"
            /\ Fetch(Languages.user)
            /\ UNCHANGED <<linkVars, active, shownIn>>
       ELSE Run(langDefs') /\ UNCHANGED requests
    /\ UNCHANGED <<menu, open, tVars>>

\* setNewStatus()
StatusArrives ==
    /\ phase = "running"
    /\ tVars' = InTurn(SetVar, tVars, StatusVars)
    /\ UNCHANGED <<linkVars, phase, menu, open, active, langDefs, requests, shownIn>>

\* onMenuClicked()
OnClicked(path) ==
    /\ phase = "running" /\ path \in Links(menu)
    /\ LoadPage(path, langDefs)
    /\ UNCHANGED <<linkVars, phase, menu, open, langDefs, requests, tVars>>

\* onToggleSubMenu() and closeAllSubMenus()
Toggled(path) == IF path \in open THEN open \ {path} ELSE {path}

OnToggleSubMenu(path) ==
    /\ phase = "running" /\ path \in menu \ Links(menu)
    /\ open' = Toggled(path)
    /\ UNCHANGED <<linkVars, phase, menu, active, langDefs, requests, shownIn, tVars>>

LinkSteps ==
    /\ \/ phase = "running" /\ \E bRecon \in BOOLEAN : Connect(bRecon)
       \/ MonCon
       \/ phase = "running" /\ Close
       \/ \E s \in Sockets : OnOpen(s) \/ OnClose(s) \/ OnConfig(s) \/ DeviceAnswers(s)
       \/ DeviceComesOrGoes
    /\ UNCHANGED startVars

StartNext ==
    \/ PagesArrive \/ PagesFail
    \/ \E lang \in Langs : \E result \in {"loaded", "failed"} : LanguageEnds(lang, result)
    \/ StatusArrives
    \/ \E path \in menu : OnClicked(path) \/ OnToggleSubMenu(path)
    \/ LinkSteps

\* A request ends in some way; the fairness of the link is that of WebLink.
StartSpec ==
    /\ StartInit /\ [][StartNext]_allVars
    /\ WF_allVars(PagesArrive \/ PagesFail)
    /\ WF_allVars(\E lang \in Langs : \E result \in {"loaded", "failed"} : LanguageEnds(lang, result))
    /\ Fairness

-------------------------------------------------------------------------------
\* The application connects and reads messages only when its menu and its texts are
\* there: the first configuration finds the home page, if there is one, and the page
\* is in a language that has been tried.
RunningIsReady ==
    monitors > 0 \/ current # NoSocket \/ config =>
        /\ phase = "running"
        /\ \A l \in Langs : langDefs[l] # "none"
        /\ (Home \in PageMenus => active # Nowhere)

\* Each language is requested once, however the requests end, and all pages of a
\* session are in the same language.
OneLanguage ==
    /\ \A l \in Langs : requests[l] <= 1
    /\ active # Nowhere => shownIn = KeyLanguage(langDefs)

\* The links of the menu are the pages; at most one submenu is open, and it is within
\* reach.
MenuInv ==
    /\ phase \notin {"pages", "failed"} => Links(menu) = PageMenus
    /\ active # Nowhere => active \in PageMenus
    /\ \A p, q \in open : p = q
    /\ \A p \in open : \A n \in 1..(Len(p) - 1) : SubSeq(p, 1, n) \in open

\* The menus of the library: an entry of the bar or of a submenu, and no page of its
\* own where a submenu opens.
TwoLevels ==
    /\ \A p \in PageMenus : p \in Seq(STRING) /\ Len(p) \in 1..2
    /\ \A p, q \in PageMenus : IsPrefix(p, q) => p = q

\* What a session that starts relies on, in any order of requests, failures, clicks and
\* openings of the link: its order, its texts, its menu and its link.
StartInv == LinkInv /\ RunningIsReady /\ OneLanguage /\ MenuInv

\* The inductive invariant behind StartInv (WebStartProofs): what each phase has done.
Phases ==
    /\ phase \in {"pages", "default", "user", "running", "failed"}
    /\ phase # "running" =>
          monitors = 0 /\ current = NoSocket /\ config = FALSE /\ active = Nowhere

LanguagesSoFar ==
    /\ langDefs \in [Langs -> {"none", "loaded", "failed"}]
    /\ requests \in [Langs -> {0, 1}]
    /\ phase \in {"pages", "failed"} => \A l \in Langs : requests[l] = 0
    /\ phase \in {"pages", "failed", "default"} => \A l \in Langs : langDefs[l] = "none"
    /\ phase = "default" => \A l \in Langs : l # Languages.default => requests[l] = 0
    /\ phase = "user" => langDefs[Languages.default] # "none"
    /\ phase = "running" => \A l \in Langs : langDefs[l] # "none"

MenuSoFar ==
    /\ menu = IF phase \in {"pages", "failed"} THEN {} ELSE MenuOf(PageMenus)
    /\ active \in PageMenus \cup {Nowhere}
    /\ phase = "running" /\ Home \in PageMenus => active # Nowhere
    /\ active # Nowhere => shownIn = KeyLanguage(langDefs)
    /\ open \subseteq menu \ PageMenus
    /\ \A p, q \in open : p = q

StartIInv == LinkInv /\ Phases /\ LanguagesSoFar /\ MenuSoFar

\* The variables of a device refer to each other over seven levels at most, and never in
\* a circle: what the seven rounds of subst() are made for.
KnownVars  == {Settings[i] : i \in 1..Len(Settings)} \cup {StatusVars[i] : i \in 1..Len(StatusVars)}
KnownNames == {v.name : v \in KnownVars}

Levels(level) ==
    \A v \in KnownVars : \A k \in 1..Len(v.text) :
        v.text[k] \in KnownNames => level[v.text[k]] < level[v.name]

SevenLevels == \E level \in [KnownNames -> 1..7] : Levels(level)

\* Whatever the status adds and in whatever order variables refer to each other: no
\* known name is left in a text.
SubstIsComplete ==
    \A i \in 1..Len(tVars) :
        LET result == Subst(<<tVars[i].name>>, tVars)
        IN  \A k \in 1..Len(result) : result[k] \notin NamesIn(tVars)
===============================================================================
