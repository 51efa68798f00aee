------------------------------- MODULE WebPages -------------------------------
(***************************************************************************)
(* A session of the web user interface: the page that is shown, its input   *)
(* fields, the configuration behind them, signing in and out, and the way   *)
(* of a change from a field to the device (CAppl, CPageHandler, CView,      *)
(* CElement, CConfig, CDialog and CSecurity in runtime.js).                 *)
(*                                                                         *)
(* The browser runs one handler at a time, which is one action here: a      *)
(* click or a key of the user, a message of the device, an answer to a      *)
(* login, the end of a timer.  They come in any order; only a modal dialog  *)
(* keeps the user from the page behind it, and the device from nothing.     *)
(* The way of a message is the subject of WebLink.                          *)
(***************************************************************************)
EXTENDS Integers, FiniteSets

CONSTANTS
    Pages, NoPage,  \* the pages; nothing loaded yet
    Elements,       \* the input elements of all pages
    PageOf,         \* the page of each
    Type,           \* its type: "radio", "checkbox", "text", "password" or "select"
    Key,            \* its place in the configuration: the section of the page and the name
    Button,         \* the value of a radio button: "0" or "1"
    ViewOn,         \* the conditions (data-viewon) of the element and of those around it
    Default,        \* what the HTML of the page gives it
    Networks,       \* the names that a scan finds: the options of a list
    FromScan,       \* the texts that are filled with the network that is chosen
    DeviceConfigs,  \* what the device may send: values of some of the keys
    MaxLogins       \* bound on the login requests that are under way

Keys == {Key[e] : e \in Elements}
ElementsOf(p) == {e \in Elements : PageOf[e] = p}
Group(e) == {d \in Elements : Key[d] = Key[e]}
IsSwitch(e) == Type[e] \in {"radio", "checkbox"}

IsList(e) == Type[e] = "select"

\* The state of an element: a button is checked or not, a text fits its pattern or does not,
\* of a list an option is selected, or it has none.
Values(e) ==
    CASE IsSwitch(e) -> {"checked", "unchecked"}
      [] IsList(e)   -> Networks \cup {""}
      [] OTHER       -> {"good", "bad"}
States == {"checked", "unchecked", "good", "bad", ""} \cup Networks

Undefined == "undefined"

\* A configuration has values of some keys.  The device sends booleans, here TRUE and FALSE;
\* a page saves the strings "1" and "0".
ConfigValues(e) == IF IsSwitch(e) THEN {"0", "1", "TRUE", "FALSE"} ELSE Values(e)
IsConfig(c) ==
    /\ DOMAIN c \subseteq Keys /\ c = [k \in DOMAIN c |-> c[k]]
    /\ \A e \in Elements : Key[e] \in DOMAIN c => c[Key[e]] \in ConfigValues(e)

\* One button of the name is checked.
OneChecked(e, values) == \E d \in Group(e) : \A f \in Group(e) : values[f] = "checked" <=> f = d

\* A condition is a set of alternatives, of which each is a set of pairs <<key, value>>.
ASSUME PagesAssumption ==
    /\ NoPage \notin Pages
    /\ PageOf \in [Elements -> Pages]
    /\ Type \in [Elements -> {"radio", "checkbox", "text", "password", "select"}]
    /\ "bad" \notin Networks /\ Undefined \notin Networks
    /\ \A e \in Elements : Default[e] \in Values(e)
    /\ \A d, e \in Elements : Key[d] = Key[e] => PageOf[d] = PageOf[e] /\ Type[d] = Type[e]
    /\ \A e \in Elements : ViewOn[e] \subseteq SUBSET SUBSET (Keys \X {"0", "1"})
    /\ \A c \in DeviceConfigs : IsConfig(c)
    /\ \A e \in FromScan : e \in Elements /\ Type[e] = "text"
    /\ MaxLogins \in Nat

\* Only radio buttons share a name: one of value 1 and one of value 0, next to each other in
\* a form, so that the same conditions apply to both, and one of them has "checked" in the
\* HTML (the pages for WiFi and MQTT).
ASSUME RadioAssumption ==
    \A e \in Elements :
        /\ Type[e] # "radio" => Group(e) = {e}
        /\ Type[e] = "radio" =>
              /\ OneChecked(e, Default)
              /\ \A b \in {"0", "1"} : \E d \in Group(e) : \A f \in Group(e) : Button[f] = b <=> f = d
              /\ \A d \in Group(e) : Button[d] \in {"0", "1"} /\ ViewOn[d] = ViewOn[e]

VARIABLES
    page,      \* CAppl._pCurHandler, and what the main view shows
    form,      \* the state of each element of the page
    hidden,    \* the elements that the last updateView() has hidden
    saveOn,    \* is the save button enabled?
    config,    \* CAppl.Config: values of some of the fields
    pending,   \* _bChangePending: the bar "change pending" is shown
    dialog,    \* the modal dialog: "none", "signin", "review", "wait" or "scan"
    waiting,   \* the timer that loads the page anew is running
    token,     \* is there an AccessToken?
    authView,  \* do the elements with data-auth show somebody signed in?
    logins,    \* the login requests that are under way
    device,    \* what the device did of the commands since the page was loaded
    received,  \* history: the configuration that came last
    origin     \* history: how each value got into the form

viewVars  == <<page, form, hidden, saveOn, origin>>
dataVars  == <<config, pending, received>>
loginVars == <<token, authView, logins>>
vars == <<viewVars, dataVars, dialog, waiting, loginVars, device>>

NoConfig == [k \in {} |-> Undefined]

\* {...a, ...b}
Overlay(a, b) == [k \in DOMAIN a \cup DOMAIN b |-> IF k \in DOMAIN b THEN b[k] ELSE a[k]]

-------------------------------------------------------------------------------
(* CElement.                                                                 *)

\* button == value: JavaScript turns a boolean into a number and compares.
LooseEq(button, value) ==
    \/ button = value
    \/ button = "1" /\ value = "TRUE"
    \/ button = "0" /\ value = "FALSE"

Checked(isChecked) == IF isChecked THEN "checked" ELSE "unchecked"

\* setValue()
SetValue(e, value) ==
    CASE Type[e] = "radio"    -> Checked(LooseEq(Button[e], value))
      [] Type[e] = "checkbox" -> Checked(value \notin {"0", "FALSE"})
      [] OTHER                -> value

\* getValue()
GetValue(e, state) ==
    CASE Type[e] = "radio"    -> IF state = "checked" THEN Button[e] ELSE Undefined
      [] Type[e] = "checkbox" -> IF state = "checked" THEN "1" ELSE "0"
      [] OTHER                -> state

\* isVisible(): neither hidden by a condition nor disabled, as the buttons are for those who
\* are not signed in (data-auth "RO").  What a class hides counts as visible - a password of
\* those who are not signed in (data-auth "1") - and so does the list in a closed dialog.
IsVisible(e, hid, auth) == e \notin hid /\ (IsSwitch(e) => auth)

\* What the user sees of it: the list of networks in its dialog alone.
IsShown(e, hid, auth) ==
    IsVisible(e, hid, auth) /\ ~IsList(e) /\ (Type[e] = "password" => auth)

\* checkValidity(): the pattern of the element; a text that is read only is not validated.
IsValid(e, state, auth) == state # "bad" \/ (Type[e] = "text" /\ ~auth)

(* CPageHandler.                                                             *)

\* isPageValid(): of the elements that are "input".
IsPageValid(values, hid, auth) ==
    \A e \in DOMAIN values :
        IsVisible(e, hid, auth) /\ ~IsList(e) => IsValid(e, values[e], auth)

\* A mutant of SetConfigValues: only the elements that are shown.
SetConfigValuesShown(values, cfg) ==
    [e \in DOMAIN values |->
        IF Key[e] \in DOMAIN cfg /\ e \notin hidden THEN SetValue(e, cfg[Key[e]]) ELSE values[e]]

\* setConfigValues(): what the configuration has a value for.
SetConfigValues(values, cfg) ==
    [e \in DOMAIN values |->
        IF Key[e] \in DOMAIN cfg THEN SetValue(e, cfg[Key[e]]) ELSE values[e]]

\* _getViewCondition(): an element without a value, as a radio button that is not checked,
\* contradicts nothing, so that a key without a checked button fulfils any condition.
Fulfils(values, condition) ==
    \E alternative \in condition : \A pair \in alternative :
        \A e \in DOMAIN values :
            Key[e] = pair[1] => GetValue(e, values[e]) \in {pair[2], Undefined}

HiddenBy(values) ==
    {e \in DOMAIN values : \E condition \in ViewOn[e] : ~Fulfils(values, condition)}

\* What the fields of a page may look like.
Fields(p) ==
    {values \in [ElementsOf(p) -> States] :
        \A e \in ElementsOf(p) : values[e] \in Values(e)}
Forms(p) ==
    {values \in Fields(p) : \A e \in ElementsOf(p) : Type[e] = "radio" => OneChecked(e, values)}

\* The pages are built so that a hidden switch decides about nothing: what it would show or
\* hide is decided by the switches that are shown (in WiFi, dhcp_on is hidden by ap_mode=1,
\* with which the address is shown anyway; in MQTT, useha and what it shows by enabled=0).
ASSUME HiddenDecidesNothing ==
    \A p \in Pages : \A v, w \in Forms(p) :
        (\A e \in ElementsOf(p) \ HiddenBy(v) : w[e] = v[e]) => HiddenBy(w) = HiddenBy(v)

\* saveElementToConfig(), for each of some elements: what is undefined is not saved.
SaveElements(elements, cfg) ==
    LET defined == {e \in elements : GetValue(e, form[e]) # Undefined}
    IN  Overlay(cfg, [k \in {Key[e] : e \in defined} |->
                        LET e == CHOOSE d \in defined : Key[d] = k IN GetValue(e, form[e])])

\* A mutant of SaveConfigValues: hidden elements are saved as well.
SaveConfigValuesAll(cfg) == SaveElements(DOMAIN form, cfg)

\* saveConfigValues(): "input" and "select", the list of a closed dialog among them.
SaveConfigValues(cfg) ==
    SaveElements({e \in DOMAIN form : IsVisible(e, hidden, authView)}, cfg)

\* loadPageConfig(): the values, but neither what is shown nor the save button.
LoadPageConfig(cfg) ==
    /\ form' = SetConfigValues(form, cfg)
    /\ origin' = [e \in DOMAIN origin |-> IF Key[e] \in DOMAIN cfg THEN "loaded" ELSE origin[e]]

\* A mutant of UpdateView: the button is set before the elements are shown.
UpdateViewTooEarly(values) ==
    /\ saveOn' = IsPageValid(values, hidden, authView)
    /\ hidden' = HiddenBy(values)

UpdateView(values) ==
    /\ hidden' = HiddenBy(values)
    /\ saveOn' = IsPageValid(values, hidden', authView)

-------------------------------------------------------------------------------
Init ==
    /\ page = NoPage /\ form = NoConfig /\ hidden = {} /\ saveOn = FALSE /\ origin = NoConfig
    /\ config = NoConfig /\ pending = FALSE /\ received = NoConfig
    /\ dialog = "none" /\ waiting = FALSE
    /\ token = FALSE /\ authView = FALSE /\ logins = 0
    /\ device = {}

(* What the user does on the page.                                           *)

\* The user reaches the element, and what the page handler is told of it: on().
AtPage(e) ==
    /\ dialog = "none" /\ page # NoPage
    /\ e \in ElementsOf(page) /\ IsShown(e, hidden, authView)

\* loadPage(), when a menu is clicked: the view anew, the configuration, what is shown.
LoadPage(p) ==
    /\ dialog = "none"
    /\ page' = p
    /\ form' = SetConfigValues([e \in ElementsOf(p) |-> Default[e]], config)
    /\ origin' = [e \in ElementsOf(p) |-> "loaded"]
    /\ UpdateView(form')
    /\ UNCHANGED <<dataVars, dialog, waiting, loginVars, device>>

\* A key in a text: the value, and the handler of keyup.  In a text that is read only
\* the handler alone.
OnTextKeyUp(e, v) ==
    /\ AtPage(e) /\ Type[e] = "text"
    /\ authView \/ v = form[e]
    /\ form' = [form EXCEPT ![e] = v]
    /\ origin' = IF authView THEN [origin EXCEPT ![e] = "typed"] ELSE origin
    /\ saveOn' = IsPageValid(form', hidden, authView)
    /\ UNCHANGED <<page, hidden, dataVars, dialog, waiting, loginVars, device>>

\* A value that comes without a key in a text: pasted with the mouse, or a password, for
\* which no handler is registered.
Enter(e, v) ==
    /\ AtPage(e) /\ Type[e] \in {"text", "password"}
    /\ authView
    /\ form' = [form EXCEPT ![e] = v]
    /\ origin' = [origin EXCEPT ![e] = "entered"]
    /\ UNCHANGED <<page, hidden, saveOn, dataVars, dialog, waiting, loginVars, device>>

\* The browser checks a radio button and unchecks the others of its name.
Clicked(e) ==
    IF Type[e] = "radio" THEN [d \in DOMAIN form |-> IF d \in Group(e) THEN Checked(d = e) ELSE form[d]]
    ELSE [form EXCEPT ![e] = Checked(@ = "unchecked")]

\* onCheckboxClick, onRadioClick
OnSwitch(e) ==
    /\ AtPage(e) /\ IsSwitch(e)
    /\ form' = Clicked(e)
    /\ origin' = [d \in DOMAIN origin |-> IF d \in Group(e) THEN "entered" ELSE origin[d]]
    /\ UpdateView(form')
    /\ UNCHANGED <<page, dataVars, dialog, waiting, loginVars, device>>

\* showChangePending()
ShowChangePending(isPending) == pending' = isPending

\* The save button, shown to those who are signed in (data-auth "1").
SavePage ==
    /\ dialog = "none" /\ page # NoPage /\ saveOn /\ authView
    /\ config' = SaveConfigValues(config)
    /\ ShowChangePending(TRUE)
    /\ UNCHANGED <<viewVars, received, dialog, waiting, loginVars, device>>

\* CDialog.showModal(): nothing behind the dialog can be reached.
ShowModal(which) == dialog' = which

ReviewChanges ==
    /\ dialog = "none" /\ pending
    /\ ShowModal("review")
    /\ UNCHANGED <<viewVars, dataVars, waiting, loginVars, device>>

\* The button for cancel, or the key Esc: it closes any dialog, and stops no timer.
CloseDialog ==
    /\ dialog # "none"
    /\ dialog' = "none"
    /\ UNCHANGED <<viewVars, dataVars, waiting, loginVars, device>>

\* CWaitDialog.showModal(): with the timer that loads the page anew.
ShowWait == ShowModal("wait") /\ waiting' = TRUE

\* The commands in the order in which they are sent.
Commands == <<"saveconfig", "restart">>

\* What the device does of the first n of them; without a token it denies them.
Obeyed(n) == IF token THEN {Commands[i] : i \in 1..n} ELSE {}

\* commitChanges(): both commands go out, if the link is there, and may be lost from
\* some point on.  (Each opening of the dialog adds a listener to its button, so that
\* they may go out several times; a repetition does the same again.)
CommitChanges ==
    /\ dialog = "review"
    /\ \E n \in 0..2 : device' = device \cup Obeyed(n)
    /\ ShowChangePending(FALSE)
    /\ ShowWait
    /\ UNCHANGED <<viewVars, config, received, loginVars>>

\* The buttons of the page for the system, which ask first: restartDevice() and
\* resetDevice() of CSystemPage.  They send one command that has no part in a commit.
\* (The text of the question is awaited before; here it is there at once.)
AskSystem ==
    /\ dialog = "none" /\ page # NoPage
    /\ ShowWait
    /\ UNCHANGED <<viewVars, dataVars, loginVars, device>>

\* location.href = location.href: everything in the page starts anew.
Reload ==
    /\ waiting
    /\ page' = NoPage /\ form' = NoConfig /\ hidden' = {} /\ saveOn' = FALSE /\ origin' = NoConfig
    /\ config' = NoConfig /\ pending' = FALSE /\ received' = NoConfig
    /\ dialog' = "none" /\ waiting' = FALSE
    /\ token' = FALSE /\ authView' = FALSE /\ logins' = 0
    /\ device' = {}

-------------------------------------------------------------------------------
(* The dialog for networks (CWiFiPage).  Its list is an element of the page, and *)
(* signed in or not, anybody may open it.                                      *)

\* showScanDialog(): the list is emptied, and the device asked to scan.  (The conditions of
\* the button are left out, and the texts are translated at once.)
ShowScanDialog(e) ==
    /\ dialog = "none" /\ e \in ElementsOf(page) /\ IsList(e)
    /\ form' = [form EXCEPT ![e] = ""]
    /\ origin' = [origin EXCEPT ![e] = "scanned"]
    /\ ShowModal("scan")
    /\ UNCHANGED <<page, hidden, saveOn, dataVars, waiting, loginVars, device>>

\* insertFoundNetworks(): the device may send them at any time.  Of a list that had no option
\* the browser selects the first; one that has a value keeps it.
InsertFoundNetworks(e, v) ==
    /\ e \in ElementsOf(page) /\ IsList(e)
    /\ form[e] = "" /\ v \in Networks
    /\ form' = [form EXCEPT ![e] = v]
    /\ origin' = [origin EXCEPT ![e] = "scanned"]
    /\ UNCHANGED <<page, hidden, saveOn, dataVars, dialog, waiting, loginVars, device>>

\* The user selects a network: onSelectChanged().
OnSelectChanged(e, v) ==
    /\ dialog = "scan" /\ e \in ElementsOf(page) /\ IsList(e)
    /\ v \in Networks
    /\ form' = [form EXCEPT ![e] = v]
    /\ origin' = [origin EXCEPT ![e] = "entered"]
    /\ UpdateView(form')
    /\ UNCHANGED <<page, dataVars, dialog, waiting, loginVars, device>>

\* The button "use", shown to those who are signed in: what is selected goes into the texts,
\* of which any value may come; nobody looks whether it fits.  (If the list is empty, the
\* button only closes the dialog.)
UseNetwork ==
    /\ dialog = "scan" /\ authView
    /\ \E network \in [FromScan -> {"good", "bad"}] :
          form' = [e \in DOMAIN form |-> IF e \in FromScan THEN network[e] ELSE form[e]]
    /\ origin' = [e \in DOMAIN origin |-> IF e \in FromScan THEN "entered" ELSE origin[e]]
    /\ dialog' = "none"
    /\ UNCHANGED <<page, hidden, saveOn, dataVars, waiting, loginVars, device>>

-------------------------------------------------------------------------------
(* CSecurity.                                                                *)

\* updateAuthModeView(): the elements with data-auth follow the token.
UpdateAuthModeView(auth) ==
    /\ authView' = auth
    /\ origin' = [e \in DOMAIN origin |->
                    IF auth # authView /\ origin[e] = "typed" THEN "entered" ELSE origin[e]]

Signin ==
    /\ dialog = "none" /\ ~authView
    /\ ShowModal("signin")
    /\ UNCHANGED <<viewVars, dataVars, waiting, loginVars, device>>

Signout ==
    /\ dialog = "none" /\ authView
    /\ token' = FALSE
    /\ UpdateAuthModeView(FALSE)
    /\ UNCHANGED <<page, form, hidden, saveOn, dataVars, dialog, waiting, logins, device>>

\* authenticate(): the token goes at once, the answer comes later.
Authenticate ==
    /\ dialog = "signin" /\ logins < MaxLogins
    /\ token' = FALSE
    /\ logins' = logins + 1
    /\ UNCHANGED <<viewVars, dataVars, dialog, waiting, authView, device>>

\* onload with 200: the dialog is closed, also if it was opened again in between.
LoginGranted ==
    /\ logins > 0
    /\ token' = TRUE
    /\ logins' = logins - 1
    /\ dialog' = IF dialog = "signin" THEN "none" ELSE dialog
    /\ UpdateAuthModeView(TRUE)
    /\ UNCHANGED <<page, form, hidden, saveOn, dataVars, waiting, device>>

\* onload with another status: an alert, and a token that another answer has brought
\* stays.
LoginDenied ==
    /\ logins > 0
    /\ logins' = logins - 1
    /\ UpdateAuthModeView(token)
    /\ UNCHANGED <<page, form, hidden, saveOn, dataVars, dialog, waiting, token, device>>

\* No answer: there is no handler for it.
LoginLost ==
    /\ logins > 0
    /\ logins' = logins - 1
    /\ UNCHANGED <<viewVars, dataVars, dialog, waiting, token, authView, device>>

-------------------------------------------------------------------------------
(* What the device sends (onSocketMessage).                                  *)

\* "update" of "config": it replaces the configuration, saved changes included.
OnUpdateConfig(cfg) ==
    /\ config' = cfg /\ received' = cfg
    /\ LoadPageConfig(cfg)
    /\ UNCHANGED <<page, hidden, saveOn, pending, dialog, waiting, loginVars, device>>

\* Any other "update": refreshContentPage() reads the configuration into the form
\* again, over what the user has entered.
OnUpdateOther ==
    /\ LoadPageConfig(config)
    /\ UNCHANGED <<page, hidden, saveOn, dataVars, dialog, waiting, loginVars, device>>

Next ==
    \/ \E p \in Pages : LoadPage(p)
    \/ \E e \in Elements : OnSwitch(e) \/ \E v \in Values(e) : OnTextKeyUp(e, v) \/ Enter(e, v)
    \/ \E e \in Elements : \/ ShowScanDialog(e)
                           \/ \E v \in Networks : InsertFoundNetworks(e, v) \/ OnSelectChanged(e, v)
    \/ UseNetwork
    \/ SavePage \/ ReviewChanges \/ CloseDialog \/ CommitChanges \/ AskSystem \/ Reload
    \/ Signin \/ Signout \/ Authenticate \/ LoginGranted \/ LoginDenied \/ LoginLost
    \/ \E cfg \in DeviceConfigs : OnUpdateConfig(cfg)
    \/ OnUpdateOther

Spec == Init /\ [][Next]_vars

-------------------------------------------------------------------------------
\* How a value got into the form: from the configuration or the HTML, with the keyboard, in
\* another way by the user, or from a scan.
Origins == {"loaded", "typed", "entered", "scanned"}

TypeOK ==
    /\ page \in Pages \cup {NoPage}
    /\ form \in Fields(page)
    /\ origin \in [ElementsOf(page) -> Origins]
    /\ hidden \subseteq ElementsOf(page)
    /\ IsConfig(config) /\ IsConfig(received)
    /\ dialog \in {"none", "signin", "review", "wait", "scan"}
    /\ logins \in 0..MaxLogins
    /\ saveOn \in BOOLEAN /\ pending \in BOOLEAN /\ waiting \in BOOLEAN
    /\ token \in BOOLEAN /\ authView \in BOOLEAN
    /\ device \subseteq {"saveconfig", "restart"}

\* Whatever order answers, repeated logins, cancelled dialogs and signing out come in:
\* what the page shows follows the token, and the dialog to sign in is only open to
\* somebody who is not signed in.
ViewFollowsToken ==
    /\ authView = token
    /\ dialog = "signin" => ~token

\* An element that the user has not changed shows what the configuration says, be it a
\* boolean of the device or a string of the page, also after the configuration was
\* replaced under the page: saving never writes back an older value.
FormFollowsConfig ==
    \A e \in ElementsOf(page) :
        origin[e] = "loaded" /\ Key[e] \in DOMAIN config => form[e] = SetValue(e, config[Key[e]])

\* Exactly one radio button of a name is checked, so that the value of a page does not
\* depend on the order of its elements and is not lost, and both buttons are hidden or none.
OneButton ==
    \A e \in ElementsOf(page) : Type[e] = "radio" =>
        /\ OneChecked(e, form)
        /\ \A d \in Group(e) : d \in hidden <=> e \in hidden

\* The configuration that an element of the page would get, if it were loaded after saving.
AfterSaving == SetConfigValues([e \in ElementsOf(page) |-> Default[e]], SaveConfigValues(config))

\* What a page saves is what it shows when it is loaded the next time, in each element that
\* was shown.  If what is shown fits the switches - not so after an update, which does not
\* look at the conditions - the same elements are shown again, although hidden switches,
\* which are part of conditions, are not saved.
SavedIsShownAgain ==
    page # NoPage /\ authView =>
        LET after == AfterSaving
        IN  /\ after \in Forms(page)
            /\ \A e \in ElementsOf(page) : IsVisible(e, hidden, authView) => after[e] = form[e]
            /\ hidden = HiddenBy(form) => HiddenBy(after) = hidden

\* A text of a wrong form that was typed keeps the save button off as long as it is
\* shown: through switches that hide and show it and updates of any kind.  (Not so
\* what is pasted, a password, or what was typed before signing out.)
TypedInvalidIsNotSaved ==
    saveOn => \A e \in ElementsOf(page) :
                 IsVisible(e, hidden, authView) /\ origin[e] = "typed" => form[e] # "bad"

\* Do two values of the configuration mean the same to the elements of a key?
SameTo(k, v, w) == \A e \in Elements : Key[e] = k => SetValue(e, v) = SetValue(e, w)

\* savePage() changes the settings of the page that the user has changed in an element
\* that is shown, and adds those that the device has not sent; no other one gets another
\* meaning (a boolean of the device becomes a string).  The exception is the list of the
\* dialog for networks, which is saved with the page while the dialog is closed: what a
\* scan has put there, or a choice that was cancelled, becomes a setting.
OnlyChangesAreSaved ==
    [][SavePage =>
          \A k \in DOMAIN config :
              ~SameTo(k, config[k], config'[k]) =>
                  \E e \in ElementsOf(page) :
                      /\ Key[e] = k
                      /\ \/ IsShown(e, hidden, authView) /\ origin[e] \in {"typed", "entered"}
                         \/ IsList(e) /\ origin[e] \in {"entered", "scanned"}]_vars

\* A configuration that differs from what came from the device is announced to the
\* user, or committed and about to be loaded anew.
UnsavedIsAnnounced == config # received => pending \/ waiting

\* A commit restarts the device only after it has stored what was committed.
RestartIsAfterSave == "restart" \in device => "saveconfig" \in device

\* A text counts as typed as long as the user who typed it is signed in.
TypedIsSignedIn == \A e \in ElementsOf(page) : origin[e] = "typed" => authView

\* All of these hold whatever order the clicks, the answers and the timer come in.
SessionInv ==
    /\ TypeOK
    /\ ViewFollowsToken
    /\ FormFollowsConfig
    /\ OneButton
    /\ SavedIsShownAgain
    /\ UnsavedIsAnnounced
    /\ RestartIsAfterSave
    /\ TypedIsSignedIn
===============================================================================
