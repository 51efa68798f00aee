---------------------------- MODULE WebStartProofs ----------------------------
(***************************************************************************)
(* Proofs about the link of the page (WebLink), for any number of sockets  *)
(* and any number of calls of connect(), and about the start of the web    *)
(* application above it (WebStart), for any pages and languages.           *)
(***************************************************************************)
EXTENDS WebStart, SequenceTheorems, FiniteSetTheorems, TLAPS

\* LinkInv holds when the page has been loaded.
LEMMA LinkInit == ASSUME LinkAssumption, Init PROVE LinkInv
<1>1. TypeOK
  <2>1. readyState \in [Sockets -> States] /\ request \in [Sockets -> {"none", "sent", "answered"}]
    BY DEF Init, States
  <2>2. monitors \in 0..MaxConnects
    BY DEF LinkAssumption, Init
  <2>3. /\ current \in Sockets \cup {NoSocket}
        /\ available \in BOOLEAN /\ desired \in BOOLEAN /\ asked \in BOOLEAN
        /\ config \in BOOLEAN /\ reachable \in BOOLEAN
    BY DEF Init
  <2> QED BY <2>1, <2>2, <2>3 DEF TypeOK
<1>2. \A s \in Sockets : request[s] = "none" /\ readyState[s] = "closed"
  BY DEF Init
<1> QED BY <1>1, <1>2 DEF Init, LinkInv, AvailableIsOpen, AskedOnce

\* A new socket is one that was closed; it carries no request and takes none away.
LEMMA OpenSocketTyped ==
    ASSUME LinkAssumption, LinkInv, OpenSocket
    PROVE  /\ readyState' \in [Sockets -> States]
           /\ current' \in Sockets \cup {NoSocket}
           /\ \A s \in Sockets : readyState'[s] # "closed" => current' # NoSocket
           /\ \A s \in Sockets : readyState[s] \in {"open", "closing"} => readyState'[s] = readyState[s]
<1>1. CASE available
  BY <1>1 DEF OpenSocket, LinkInv, TypeOK, States
<1>2. CASE ~available
  <2>1. PICK n \in Sockets : /\ readyState[n] = "closed"
                             /\ readyState' = [readyState EXCEPT ![n] = "connecting"]
                             /\ current' = n
    BY <1>2 DEF OpenSocket
  <2> QED BY <2>1 DEF LinkInv, TypeOK, States
<1> QED BY <1>1, <1>2

\* connect() and a tick of the monitor, which both come down to OpenSocket.
LEMMA OpeningKeepsInv ==
    ASSUME LinkAssumption, LinkInv, OpenSocket,
           desired' \in BOOLEAN, monitors' \in 0..MaxConnects,
           UNCHANGED <<available, asked, request, config, reachable>>
    PROVE  LinkInv'
<1>1. /\ readyState' \in [Sockets -> States]
      /\ current' \in Sockets \cup {NoSocket}
      /\ \A s \in Sockets : readyState'[s] # "closed" => current' # NoSocket
      /\ \A s \in Sockets : readyState[s] \in {"open", "closing"} => readyState'[s] = readyState[s]
  BY OpenSocketTyped
<1>2. TypeOK'
  BY <1>1 DEF LinkInv, TypeOK, States
<1>3. AvailableIsOpen'
  BY <1>1 DEF LinkInv, AvailableIsOpen
<1>4. AskedOnce'
  BY <1>1 DEF LinkInv, AskedOnce
<1> QED BY <1>1, <1>2, <1>3, <1>4 DEF LinkInv

\* What AskConfig leaves: at most one request, and none without the flag.
LEMMA AskConfigKeepsOne ==
    ASSUME LinkAssumption, LinkInv, NEW s \in Sockets, OnOpen(s)
    PROVE  /\ request' \in [Sockets -> {"none", "sent", "answered"}]
           /\ asked' \in BOOLEAN
           /\ AskedOnce'
<1>1. /\ current \in Sockets
      /\ readyState' = [readyState EXCEPT ![s] = "open"]
      /\ readyState \in [Sockets -> States]
      /\ readyState[s] = "connecting"
      /\ config' = config
  BY DEF OnOpen, LinkInv, TypeOK, States
<1>2. CASE UNCHANGED <<asked, request>>
  <2>1. \A t \in Sockets : request[t] # "none" => readyState'[t] \in {"open", "closing"}
    BY <1>1 DEF LinkInv, AskedOnce
  <2> QED BY <1>1, <1>2, <2>1 DEF LinkInv, TypeOK, States, AskedOnce
<1>3. CASE ~UNCHANGED <<asked, request>>
  <2>1. /\ ~asked /\ asked' = TRUE
        /\ request' = IF readyState'[current] = "open"
                      THEN [request EXCEPT ![current] = "sent"] ELSE request
    BY <1>3 DEF OnOpen, AskConfig
  <2>2. ~config /\ \A t \in Sockets : request[t] = "none"
    BY <2>1 DEF LinkInv, AskedOnce
  <2>3. CASE readyState'[current] = "open"
    <3>1. request' = [request EXCEPT ![current] = "sent"]
      BY <2>1, <2>3
    <3>2. request \in [Sockets -> {"none", "sent", "answered"}]
      BY DEF LinkInv, TypeOK, States
    <3>3. \A t \in Sockets : request'[t] = IF t = current THEN "sent" ELSE "none"
      BY <1>1, <2>2, <3>1, <3>2
    <3> QED BY <1>1, <2>1, <2>2, <2>3, <3>1, <3>2, <3>3 DEF AskedOnce
  <2>4. CASE readyState'[current] # "open"
    BY <1>1, <2>1, <2>2, <2>4 DEF LinkInv, TypeOK, States, AskedOnce
  <2> QED BY <2>3, <2>4
<1> QED BY <1>2, <1>3

LEMMA OnOpenKeepsInv ==
    ASSUME LinkAssumption, LinkInv, NEW s \in Sockets, OnOpen(s)
    PROVE  LinkInv'
<1>1. /\ request' \in [Sockets -> {"none", "sent", "answered"}]
      /\ asked' \in BOOLEAN
      /\ AskedOnce'
  BY AskConfigKeepsOne
<1>2. readyState' = [readyState EXCEPT ![s] = "open"] /\ readyState \in [Sockets -> States]
  BY DEF OnOpen, LinkInv, TypeOK, States
<1>3. TypeOK'
  BY <1>1, <1>2 DEF OnOpen, LinkInv, TypeOK, States
<1>4. AvailableIsOpen'
  BY <1>2 DEF AvailableIsOpen
<1>5. current' = current /\ current # NoSocket
  BY DEF OnOpen, LinkInv, TypeOK, States
<1> QED BY <1>1, <1>3, <1>4, <1>5 DEF LinkInv

\* The steps that only end something: a socket, its request, or both.
LEMMA EndingKeepsInv ==
    ASSUME LinkAssumption, LinkInv, NEW s \in Sockets,
           OnClose(s) \/ OnConfig(s) \/ DeviceAnswers(s)
    PROVE  LinkInv'
<1>1. CASE OnClose(s)
  <2>1. TypeOK'
    BY <1>1 DEF OnClose, LinkInv, TypeOK, States
  <2>2. AvailableIsOpen'
    BY <1>1 DEF OnClose, AvailableIsOpen
  <2>3. AskedOnce'
    BY <1>1 DEF OnClose, LinkInv, TypeOK, States, AskedOnce
  <2> QED BY <1>1, <2>1, <2>2, <2>3 DEF OnClose, LinkInv, TypeOK, States
<1>2. CASE OnConfig(s)
  <2>1. /\ request' = [request EXCEPT ![s] = "none"]
        /\ request \in [Sockets -> {"none", "sent", "answered"}]
        /\ request[s] # "none"
    BY <1>2 DEF OnConfig, LinkInv, TypeOK, States
  <2>2. \A t \in Sockets : request'[t] = "none"
    BY <2>1 DEF LinkInv, AskedOnce
  <2>3. AskedOnce'
    BY <1>2, <2>1, <2>2 DEF OnConfig, LinkInv, AskedOnce
  <2> QED BY <1>2, <2>1, <2>3 DEF OnConfig, LinkInv, TypeOK, States, AvailableIsOpen
<1>3. CASE DeviceAnswers(s)
  <2>1. AskedOnce'
    BY <1>3 DEF DeviceAnswers, LinkInv, TypeOK, States, AskedOnce
  <2> QED BY <1>3, <2>1 DEF DeviceAnswers, LinkInv, TypeOK, States, AvailableIsOpen
<1> QED BY <1>1, <1>2, <1>3

LEMMA CloseKeepsInv == ASSUME LinkAssumption, LinkInv, Close PROVE LinkInv'
<1>1. /\ readyState' \in [Sockets -> States]
      /\ \A s \in Sockets : readyState[s] \in {"open", "closing"} => readyState'[s] \in {"open", "closing"}
      /\ \A s \in Sockets : readyState'[s] # "closed" => readyState[s] # "closed"
  BY DEF Close, LinkInv, TypeOK, States
<1>2. AvailableIsOpen'
  BY <1>1 DEF Close, LinkInv, AvailableIsOpen
<1>3. AskedOnce'
  BY <1>1 DEF Close, LinkInv, AskedOnce
<1> QED BY <1>1, <1>2, <1>3 DEF Close, LinkInv, TypeOK, States

LEMMA LinkNext == ASSUME LinkAssumption, LinkInv, [Next]_linkVars PROVE LinkInv'
<1>1. ASSUME NEW bRecon \in BOOLEAN, Connect(bRecon) PROVE LinkInv'
  <2>1. monitors' \in 0..MaxConnects /\ desired' \in BOOLEAN
    BY <1>1 DEF Connect, LinkInv, TypeOK, States
  <2> QED BY <1>1, <2>1, OpeningKeepsInv DEF Connect
<1>2. ASSUME MonCon PROVE LinkInv'
  <2>1. monitors' \in 0..MaxConnects /\ desired' \in BOOLEAN
    BY <1>2 DEF MonCon, LinkInv, TypeOK, States
  <2> QED BY <1>2, <2>1, OpeningKeepsInv DEF MonCon
<1>3. ASSUME DeviceComesOrGoes PROVE LinkInv'
  BY <1>3 DEF DeviceComesOrGoes, LinkInv, TypeOK, States, AvailableIsOpen, AskedOnce
<1>4. ASSUME UNCHANGED linkVars PROVE LinkInv'
  BY <1>4 DEF linkVars, LinkInv, TypeOK, States, AvailableIsOpen, AskedOnce
<1> QED BY <1>1, <1>2, <1>3, <1>4, CloseKeepsInv, OnOpenKeepsInv, EndingKeepsInv DEF Next

\* Whatever the sockets do and in whatever order: the flag that send() trusts never
\* stands while no socket is open, and the configuration is asked for at most once
\* (CWebSocketV2, CAppl.onSocketStatus).
THEOREM LinkInvariant == ASSUME LinkAssumption PROVE Spec => []LinkInv
<1>1. Init => LinkInv
  BY LinkInit
<1>2. LinkInv /\ [Next]_linkVars => LinkInv'
  BY LinkNext
<1> QED BY <1>1, <1>2, PTL DEF Spec

\* After close() no timer makes a socket until connect() is called again, though
\* the timers go on (CWebSocketV2.close, _monCon).
THEOREM ClosedLinkStaysClosed == ASSUME LinkAssumption PROVE Spec => ClosedStaysClosed
<1> DEFINE NoUnwanted == \A s \in Sockets :
              readyState[s] = "closed" /\ readyState'[s] = "connecting" => desired'
<1>1. ASSUME LinkInv, [Next]_linkVars PROVE NoUnwanted \/ UNCHANGED linkVars
  <2> SUFFICES ASSUME ~UNCHANGED linkVars, NEW s \in Sockets,
                      readyState[s] = "closed", readyState'[s] = "connecting"
               PROVE  desired'
    OBVIOUS
  <2>0. readyState \in [Sockets -> States]
    BY <1>1 DEF LinkInv, TypeOK, States
  <2>1. CASE \E bRecon \in BOOLEAN : Connect(bRecon)
    BY <2>1 DEF Connect
  <2>2. CASE MonCon
    BY <2>2 DEF MonCon
  <2>3. CASE Close
    BY <2>3 DEF Close
  <2>4. CASE \E t \in Sockets : OnOpen(t) \/ OnClose(t) \/ OnConfig(t) \/ DeviceAnswers(t)
    BY <2>0, <2>4 DEF OnOpen, OnClose, OnConfig, DeviceAnswers
  <2>5. CASE DeviceComesOrGoes
    BY <2>5 DEF DeviceComesOrGoes
  <2> QED BY <1>1, <2>1, <2>2, <2>3, <2>4, <2>5 DEF Next
<1>2. Spec => []LinkInv
  BY LinkInvariant
<1> QED BY <1>1, <1>2, PTL DEF Spec, ClosedStaysClosed

-------------------------------------------------------------------------------
(* The menu.                                                                 *)

\* Of the entries that setMenuEntry() makes, the pages are those without a submenu.
LEMMA PagesAreLinks ==
    ASSUME TwoLevels
    PROVE  /\ Links(MenuOf(PageMenus)) = PageMenus
           /\ \A e \in MenuOf(PageMenus) \ PageMenus : Len(e) = 1
<1> DEFINE E == MenuOf(PageMenus)
<1>1. ASSUME NEW p \in PageMenus
      PROVE  p \in Seq(STRING) /\ Len(p) \in 1..2 /\ SubSeq(p, 1, Len(p)) = p
  BY <1>1, SubSeqFull DEF TwoLevels
<1>2. ASSUME NEW p \in PageMenus, NEW n \in 1..Len(p)
      PROVE  /\ SubSeq(p, 1, n) \in Seq(STRING) /\ Len(SubSeq(p, 1, n)) = n
             /\ SubSeq(SubSeq(p, 1, n), 1, n) = SubSeq(p, 1, n)
  <2>1. p \in Seq(STRING)
    BY <1>1
  <2>2. SubSeq(p, 1, n) \in Seq(STRING) /\ Len(SubSeq(p, 1, n)) = n
    BY <2>1
  <2>3. QED
    BY <2>2, SubSeqFull
<1>3. ASSUME NEW e
      PROVE  e \in E <=> \E p \in PageMenus : \E n \in 1..Len(p) : e = SubSeq(p, 1, n)
  BY SMTT(40) DEF MenuOf, SetMenuEntry
<1> HIDE DEF E
<1>4. ASSUME NEW p \in PageMenus PROVE p \in E
  BY <1>1, <1>3
<1>5. ASSUME NEW e \in E, e \notin PageMenus PROVE IsSubMenu(e, E) /\ Len(e) = 1
  <2>1. PICK p \in PageMenus : \E n \in 1..Len(p) : e = SubSeq(p, 1, n)
    BY <1>3
  <2>2. PICK n \in 1..Len(p) : e = SubSeq(p, 1, n)
    BY <2>1
  <2>3. SubSeq(e, 1, n) = e
    BY <1>2, <2>2
  <2>4. Len(e) = n /\ Len(p) \in 1..2 /\ n \in 1..Len(p)
    BY <1>1, <1>2, <2>2
  <2>5. p # e /\ p \in E
    BY <1>4, <1>5
  <2>6. n <= Len(p) /\ SubSeq(e, 1, n) = SubSeq(p, 1, n)
    BY <2>2, <2>3, <2>4
  <2>7. IsPrefix(e, p)
    BY <2>4, <2>6 DEF IsPrefix
  <2>8. n # Len(p)
    BY <1>1, <1>5, <2>2
  <2>9. Len(e) = 1
    BY <2>4, <2>8
  <2>10. QED
    BY <2>5, <2>7, <2>9, Zenon DEF IsSubMenu
<1>6. ASSUME NEW p \in PageMenus PROVE ~IsSubMenu(p, E)
  <2> SUFFICES ASSUME NEW e \in E, e # p, IsPrefix(p, e) PROVE FALSE
    BY DEF IsSubMenu
  <2>1. PICK q \in PageMenus : \E n \in 1..Len(q) : e = SubSeq(q, 1, n)
    BY <1>3
  <2>2. PICK n \in 1..Len(q) : e = SubSeq(q, 1, n)
    BY <2>1
  <2>3. p \in Seq(STRING) /\ q \in Seq(STRING) /\ e \in Seq(STRING)
    BY <1>1, <1>2, <2>2
  <2>4. Len(p) \in 1..2 /\ Len(q) \in 1..2 /\ Len(e) = n /\ n \in 1..Len(q)
    BY <1>1, <1>2, <2>2
  <2>5. SubSeq(p, 1, Len(p)) = SubSeq(e, 1, Len(p))
    BY DEF IsPrefix
  <2>6. Len(p) <= n
    BY <2>4 DEF IsPrefix
  <2>7. 1 \in 1..Len(q) /\ 1 \in 1..(n - 1 + 1) /\ Len(p) \in 1..(n - 1 + 1)
        /\ 1 + 1 - 1 = 1 /\ 1 + Len(p) - 1 = Len(p) /\ Len(p) <= Len(q)
    <3>1. ASSUME NEW a \in 1..2, NEW b \in 1..2, NEW c \in 1..b, a <= c
          PROVE  1 \in 1..b /\ 1 \in 1..(c - 1 + 1) /\ a \in 1..(c - 1 + 1)
                 /\ 1 + 1 - 1 = 1 /\ 1 + a - 1 = a /\ a <= b
      BY <3>1
    <3>2. QED
      BY <2>4, <2>6, <3>1
  <2>8. SubSeq(SubSeq(q, 1, n), 1, Len(p)) = SubSeq(q, 1 + 1 - 1, 1 + Len(p) - 1)
    BY <2>3, <2>4, <2>7, SubSeqOfSubSeq
  <2>9. SubSeq(p, 1, Len(p)) = SubSeq(q, 1, Len(p))
    BY <2>2, <2>5, <2>7, <2>8
  <2>10. IsPrefix(p, q)
    BY <2>7, <2>9 DEF IsPrefix
  <2>11. p = q
    BY <2>10 DEF TwoLevels
  <2>12. n = Len(q)
    BY <2>4, <2>6, <2>11
  <2>13. QED
    BY <1>1, <2>2, <2>11, <2>12
<1>7. QED
  BY <1>4, <1>5, <1>6 DEF Links, E

-------------------------------------------------------------------------------
(* The start, step by step.                                                  *)

\* To the link a step of the start is a step of its own or none.
LEMMA StartStepsLink == [StartNext]_allVars => [Next]_linkVars
<1> SUFFICES ASSUME [StartNext]_allVars PROVE [Next]_linkVars
  OBVIOUS
<1>1. CASE UNCHANGED allVars
  BY <1>1 DEF allVars
<1>2. CASE PagesArrive \/ PagesFail \/ StatusArrives
  BY <1>2 DEF PagesArrive, PagesFail, StatusArrives
<1>3. ASSUME NEW lang \in Langs, NEW result \in {"loaded", "failed"}, LanguageEnds(lang, result)
      PROVE  [Next]_linkVars
  <2>1. UNCHANGED linkVars \/ \E recon \in Recons : Connect(IsTrueValue(recon))
    BY <1>3 DEF LanguageEnds, Run
  <2>2. \A recon \in Recons : IsTrueValue(recon) \in BOOLEAN
    BY DEF IsTrueValue, IsFalseValue
  <2>3. QED
    BY <2>1, <2>2 DEF Next
<1>4. ASSUME NEW path \in menu, OnClicked(path) \/ OnToggleSubMenu(path)
      PROVE  [Next]_linkVars
  BY <1>4 DEF OnClicked, OnToggleSubMenu
<1>5. CASE LinkSteps
  BY <1>5 DEF LinkSteps, Next
<1>6. QED
  BY <1>1, <1>2, <1>3, <1>4, <1>5 DEF StartNext

LEMMA StartInitially ==
    ASSUME LinkAssumption, StartAssumption, StartInit PROVE StartIInv
<1>1. LinkInv
  BY LinkInit DEF StartInit
<1>2. Phases
  BY DEF StartInit, Init, Phases
<1>3. LanguagesSoFar
  BY DEF StartInit, LanguagesSoFar
<1>4. MenuSoFar
  BY DEF StartInit, MenuSoFar
<1>5. QED
  BY <1>1, <1>2, <1>3, <1>4 DEF StartIInv

\* As long as the application does not run, nothing happens to the link.
LEMMA LinkWaits ==
    ASSUME LinkInv, Phases, phase # "running", LinkSteps
    PROVE  UNCHANGED <<monitors, current, config>>
<1>1. monitors = 0 /\ current = NoSocket
  BY DEF Phases
<1>2. \A s \in Sockets : readyState[s] = "closed"
  BY <1>1 DEF LinkInv, TypeOK
<1>3. QED
  BY <1>1, <1>2 DEF LinkSteps, MonCon, OnOpen, OnClose, OnConfig, DeviceAnswers, DeviceComesOrGoes

LEMMA StartKeepsPhases ==
    ASSUME StartIInv, [StartNext]_allVars PROVE Phases'
<1>1. CASE UNCHANGED allVars
  BY <1>1 DEF allVars, linkVars, startVars, StartIInv, Phases
<1>2. CASE PagesArrive \/ PagesFail \/ StatusArrives
  BY <1>2 DEF PagesArrive, PagesFail, StatusArrives, linkVars, StartIInv, Phases
<1>3. ASSUME NEW lang \in Langs, NEW result \in {"loaded", "failed"}, LanguageEnds(lang, result)
      PROVE  Phases'
  BY <1>3 DEF LanguageEnds, Run, linkVars, StartIInv, Phases
<1>4. ASSUME NEW path \in menu, OnClicked(path) \/ OnToggleSubMenu(path) PROVE Phases'
  BY <1>4 DEF OnClicked, OnToggleSubMenu, StartIInv, Phases
<1>5. CASE LinkSteps
  BY <1>5, LinkWaits DEF LinkSteps, startVars, StartIInv, Phases
<1>6. QED
  BY <1>1, <1>2, <1>3, <1>4, <1>5 DEF StartNext

\* One language after the other, the second only if it is another one.
LEMMA StartKeepsLanguages ==
    ASSUME StartIInv, [StartNext]_allVars PROVE LanguagesSoFar'
<1>1. LanguagesSoFar /\ Langs = {Languages.default, Languages.user}
  BY DEF StartIInv, Langs
<1>2. CASE UNCHANGED <<phase, langDefs, requests>>
  BY <1>1, <1>2 DEF LanguagesSoFar
<1>3. CASE PagesFail
  BY <1>1, <1>3 DEF PagesFail, LanguagesSoFar
<1>4. CASE PagesArrive
  <2>1. phase = "pages" /\ phase' = "default" /\ langDefs' = langDefs
        /\ requests' = [requests EXCEPT ![Languages.default] = @ + 1]
    BY <1>4 DEF PagesArrive, Fetch
  <2>2. requests' \in [Langs -> {0, 1}] /\ \A l \in Langs : l # Languages.default => requests'[l] = 0
    BY <1>1, <2>1 DEF LanguagesSoFar
  <2>3. QED
    BY <1>1, <2>1, <2>2 DEF LanguagesSoFar
<1>5. ASSUME NEW lang \in Langs, NEW result \in {"loaded", "failed"}, LanguageEnds(lang, result)
      PROVE  LanguagesSoFar'
  <2>1. /\ phase \in {"default", "user"}
        /\ lang = (IF phase = "default" THEN Languages.default ELSE Languages.user)
        /\ langDefs' = [langDefs EXCEPT ![lang] = result]
    BY <1>5 DEF LanguageEnds
  <2>2. langDefs' \in [Langs -> {"none", "loaded", "failed"}] /\ langDefs'[Languages.default] # "none"
    BY <1>1, <2>1 DEF LanguagesSoFar
  <2>3. CASE phase = "default" /\ langDefs'[Languages.user] = "none"
    <3>1. phase' = "user" /\ requests' = [requests EXCEPT ![Languages.user] = @ + 1]
      BY <1>5, <2>3 DEF LanguageEnds, Cached, Fetch
    <3>2. requests[Languages.user] = 0
      BY <1>1, <2>2, <2>3 DEF LanguagesSoFar
    <3>3. requests' \in [Langs -> {0, 1}]
      BY <1>1, <3>1, <3>2 DEF LanguagesSoFar
    <3>4. QED
      BY <2>2, <3>1, <3>3 DEF LanguagesSoFar
  <2>4. CASE ~(phase = "default" /\ langDefs'[Languages.user] = "none")
    <3>1. phase' = "running" /\ requests' = requests
      BY <1>5, <2>4 DEF LanguageEnds, Cached, Run
    <3>2. \A l \in Langs : langDefs'[l] # "none"
      BY <1>1, <2>1, <2>2, <2>4 DEF LanguagesSoFar
    <3>3. QED
      BY <1>1, <2>2, <3>1, <3>2 DEF LanguagesSoFar
  <2>5. QED
    BY <2>3, <2>4
<1>6. CASE StatusArrives \/ LinkSteps \/ UNCHANGED allVars
  BY <1>2, <1>6 DEF StatusArrives, LinkSteps, allVars, startVars
<1>7. ASSUME NEW path \in menu, OnClicked(path) \/ OnToggleSubMenu(path) PROVE LanguagesSoFar'
  BY <1>2, <1>7 DEF OnClicked, OnToggleSubMenu
<1>8. QED
  BY <1>3, <1>4, <1>5, <1>6, <1>7 DEF StartNext

\* The page that is shown is one of the menu, and the home page as soon as there is any.
LEMMA StartKeepsMenu ==
    ASSUME StartAssumption, TwoLevels, StartIInv, [StartNext]_allVars PROVE MenuSoFar'
<1>1. MenuSoFar /\ Phases /\ Nowhere \notin PageMenus
  BY DEF StartIInv, StartAssumption
<1>2. phase \in {"default", "user", "running"} => Links(menu) = PageMenus
  BY <1>1, PagesAreLinks DEF MenuSoFar
<1>3. CASE UNCHANGED <<phase, menu, open, active, langDefs, shownIn>>
  BY <1>1, <1>3 DEF MenuSoFar, KeyLanguage
<1>4. CASE PagesArrive \/ PagesFail
  BY <1>1, <1>4 DEF PagesArrive, PagesFail, Phases, MenuSoFar
<1>5. ASSUME NEW lang \in Langs, NEW result \in {"loaded", "failed"}, LanguageEnds(lang, result)
      PROVE  MenuSoFar'
  <2>1. phase \in {"default", "user"} /\ menu' = menu /\ open' = open /\ active = Nowhere
    BY <1>1, <1>5 DEF LanguageEnds, Phases
  <2>2. CASE phase' = "user" /\ UNCHANGED <<active, shownIn>>
    BY <1>1, <2>1, <2>2 DEF MenuSoFar
  <2>3. CASE Run(langDefs')
    <3>1. phase' = "running" /\ LoadPage(Home, langDefs')
      BY <2>3 DEF Run
    <3>2. CASE Home \in PageMenus
      <4>1. active' = Home /\ shownIn' = KeyLanguage(langDefs)'
        BY <1>2, <2>1, <3>1, <3>2 DEF LoadPage, KeyLanguage
      <4>2. QED
        BY <1>1, <2>1, <3>1, <3>2, <4>1 DEF MenuSoFar
    <3>3. CASE Home \notin PageMenus
      <4>1. active' = Nowhere
        BY <1>2, <2>1, <3>1, <3>3 DEF LoadPage
      <4>2. QED
        BY <1>1, <2>1, <3>1, <3>3, <4>1 DEF MenuSoFar
    <3>4. QED
      BY <3>2, <3>3
  <2>4. QED
    BY <1>5, <2>2, <2>3 DEF LanguageEnds
<1>6. ASSUME NEW path \in menu, OnClicked(path) PROVE MenuSoFar'
  <2>1. /\ phase = "running" /\ path \in PageMenus
        /\ active' = path /\ shownIn' = KeyLanguage(langDefs)
        /\ UNCHANGED <<phase, menu, open, langDefs>>
    BY <1>2, <1>6 DEF OnClicked, LoadPage
  <2>2. QED
    BY <1>1, <2>1 DEF MenuSoFar, KeyLanguage
<1>7. ASSUME NEW path \in menu, OnToggleSubMenu(path) PROVE MenuSoFar'
  <2>1. /\ phase = "running" /\ path \in menu \ PageMenus /\ open' = Toggled(path)
        /\ UNCHANGED <<phase, menu, active, langDefs, shownIn>>
    BY <1>2, <1>7 DEF OnToggleSubMenu
  <2>2. open' \subseteq menu \ PageMenus /\ \A p, q \in open' : p = q
    BY <1>1, <2>1 DEF Toggled, MenuSoFar
  <2>3. QED
    BY <1>1, <2>1, <2>2 DEF MenuSoFar, KeyLanguage
<1>8. CASE StatusArrives \/ LinkSteps \/ UNCHANGED allVars
  BY <1>3, <1>8 DEF StatusArrives, LinkSteps, allVars, startVars
<1>9. QED
  BY <1>4, <1>5, <1>6, <1>7, <1>8 DEF StartNext

\* To the page the start is a link that is used: WebStart implements WebLink, so that
\* what is proved of the link holds in the application.
THEOREM StartIsLink == StartSpec => Spec
<1>1. StartInit => Init
  BY DEF StartInit
<1>2. QED
  BY <1>1, StartStepsLink, PTL DEF StartSpec, Spec

\* The link is opened and its messages are read only when the menu and the texts are
\* there, each language is requested once, and the menu is in order: for all pages,
\* languages and sockets, whichever requests fail (CAppl.init, CTranslator, CMenuBar).
THEOREM StartIsInOrder ==
    ASSUME LinkAssumption, StartAssumption, TwoLevels PROVE StartSpec => []StartInv
<1>1. StartInit => StartIInv
  BY StartInitially
<1>2. StartIInv /\ [StartNext]_allVars => StartIInv'
  BY StartStepsLink, LinkNext, StartKeepsPhases, StartKeepsLanguages, StartKeepsMenu DEF StartIInv
<1>3. StartIInv => StartInv
  <2> SUFFICES ASSUME StartIInv PROVE StartInv
    OBVIOUS
  <2>1. LinkInv /\ Phases /\ LanguagesSoFar /\ MenuSoFar
    BY DEF StartIInv
  <2>2. RunningIsReady
    BY <2>1 DEF Phases, LanguagesSoFar, MenuSoFar, RunningIsReady, LinkInv, TypeOK
  <2>3. OneLanguage
    BY <2>1 DEF LanguagesSoFar, MenuSoFar, OneLanguage
  <2>4. \A p \in open : Len(p) = 1
    BY <2>1, PagesAreLinks DEF MenuSoFar
  <2>5. MenuInv
    <3>1. phase \notin {"pages", "failed"} => Links(menu) = PageMenus
      BY <2>1, PagesAreLinks DEF MenuSoFar
    <3>2. ASSUME NEW p \in open PROVE 1..(Len(p) - 1) = {}
      <4>1. Len(p) = 1 /\ 1..(1 - 1) = {}
        BY <2>4
      <4>2. QED
        BY <4>1, Zenon
    <3>3. QED
      BY <2>1, <3>1, <3>2 DEF MenuSoFar, MenuInv
  <2>6. QED
    BY <2>1, <2>2, <2>3, <2>5 DEF StartInv
<1>4. QED
  BY <1>1, <1>2, <1>3, PTL DEF StartSpec

-------------------------------------------------------------------------------
(* Numbers and sequences, for the loops of CVarTable.                        *)

\* A set of numbers that is not empty has a least one.
LEMMA LeastNumber ==
    ASSUME NEW T, T \subseteq Nat, T # {}
    PROVE  \E i \in T : \A j \in T : i <= j
<1> DEFINE R == StrictSubsetOrdering(Nat)
           S == FiniteSubsetsOf(Nat)
           I == {0..i : i \in T}
<1>1. IsWellFoundedOn(R, S)
  BY FS_StrictSubsetOrderingWellFounded
<1>2. I \subseteq S
  <2>1. \A i \in T : i \in Int /\ 0..i \in SUBSET Nat
    OBVIOUS
  <2>2. \A i \in T : IsFiniteSet(0..i)
    <3>1. 0 \in Int
      OBVIOUS
    <3> QED BY <2>1, <3>1, FS_Interval
  <2> QED BY <2>1, <2>2 DEF FiniteSubsetsOf
<1>3. I # {}
  OBVIOUS
<1>4. \E x \in I : \A y \in I : ~ (<<y, x>> \in R)
  <2> HIDE DEF R, S, I
  <2> QED BY <1>1, <1>2, <1>3, WFMin
<1>5. PICK i \in T : \A j \in T : ~ (<<0..j, 0..i>> \in R)
  BY <1>4
<1>6. ASSUME NEW j \in T, j < i PROVE FALSE
  <2>1. 0..j \subseteq 0..i /\ 0..j # 0..i
    <3>1. i \in 0..i /\ i \notin 0..j
      BY <1>6
    <3> QED BY <1>6, <3>1
  <2>2. <<0..j, 0..i>> \in R
    BY <2>1 DEF StrictSubsetOrdering
  <2> QED BY <2>2, <1>5, <1>6
<1> QED BY <1>6

\* What holds of 0 and goes on from each number to the next holds of them all.
LEMMA Upwards ==
    ASSUME NEW n \in Nat, NEW G, 0 \in G, \A m \in 1..n : m - 1 \in G => m \in G
    PROVE  \A m \in 0..n : m \in G
<1>. DEFINE T == {m \in 0..n : m \notin G}
<1>. SUFFICES ASSUME T # {} PROVE FALSE
  OBVIOUS
<1>1. T \subseteq Nat
  OBVIOUS
<1>2. PICK m \in T : \A j \in T : m <= j
  <2>. HIDE DEF T
  <2>. QED  BY <1>1, LeastNumber
<1>3. m \in 0..n /\ m \notin G
  BY <1>2
<1>4. m # 0 /\ m \in 1..n /\ m - 1 \in 0..n
  BY <1>3
<1>5. m - 1 \notin T
  BY <1>2, <1>3
<1>. QED  BY <1>3, <1>4, <1>5

\* The function that FlattenSeq defines: the first i sequences, one after the other.
Flattens(f, seqs, n) == f = [i \in 1..n |-> IF i = 1 THEN seqs[i] ELSE f[i-1] \o seqs[i]]
FlatOf(seqs) == CHOOSE f : Flattens(f, seqs, Len(seqs))

LEMMA FlattenedBy ==
    ASSUME NEW seqs
    PROVE  FlattenSeq(seqs) = IF Len(seqs) = 0 THEN seqs ELSE FlatOf(seqs)[Len(seqs)]
BY DEF FlattenSeq, FlatOf, Flattens

LEMMA FlatExists == ASSUME NEW seqs, NEW n \in Nat PROVE \E f : Flattens(f, seqs, n)
<1>. DEFINE T == {m \in Nat : ~ \E f : Flattens(f, seqs, m)}
<1>. SUFFICES ASSUME T # {} PROVE FALSE
  OBVIOUS
<1>1. PICK m \in T : \A j \in T : m <= j
  BY LeastNumber
<1>2. m \in Nat /\ ~ \E f : Flattens(f, seqs, m)
  BY <1>1
<1>3. CASE m = 0
  <2>1. 1..m = {}
    BY <1>3
  <2>2. Flattens([i \in {} |-> seqs], seqs, m)
    BY <2>1 DEF Flattens
  <2>. QED  BY <1>2, <2>2
<1>4. CASE m # 0
  <2>1. m - 1 \in Nat /\ m - 1 \notin T
    BY <1>1, <1>2, <1>4
  <2>2. PICK g : Flattens(g, seqs, m - 1)
    BY <2>1
  <2>. DEFINE f == [i \in 1..m |-> IF i = m THEN IF m = 1 THEN seqs[m] ELSE g[m-1] \o seqs[m] ELSE g[i]]
  <2>3. ASSUME NEW i \in 1..m PROVE f[i] = IF i = 1 THEN seqs[i] ELSE f[i-1] \o seqs[i]
    <3>1. CASE i = m
      <4>1. i # 1 => i - 1 \in 1..m /\ i - 1 # m
        BY <1>2, <3>1
      <4>. QED  BY <3>1, <4>1
    <3>2. CASE i # m
      <4>1. i \in 1..(m - 1) /\ (i # 1 => i - 1 \in 1..m /\ i - 1 # m)
        BY <1>2, <3>2
      <4>2. g[i] = IF i = 1 THEN seqs[i] ELSE g[i-1] \o seqs[i]
        BY <2>2, <4>1 DEF Flattens
      <4>. QED  BY <3>2, <4>1, <4>2
    <3>. QED  BY <3>1, <3>2
  <2>4. f = [i \in 1..m |-> f[i]]
    OBVIOUS
  <2>. HIDE DEF f
  <2>5. Flattens(f, seqs, m)
    BY <2>3, <2>4 DEF Flattens
  <2>. QED  BY <1>2, <2>5
<1>. QED  BY <1>3, <1>4

LEMMA FlatIs ==
    ASSUME NEW seqs, Len(seqs) \in Nat, NEW i \in 1..Len(seqs)
    PROVE  FlatOf(seqs)[i] = IF i = 1 THEN seqs[i] ELSE FlatOf(seqs)[i-1] \o seqs[i]
<1>1. Flattens(FlatOf(seqs), seqs, Len(seqs))
  BY FlatExists DEF FlatOf
<1>. HIDE DEF FlatOf
<1>. QED  BY <1>1 DEF Flattens

\* The first k pieces, one after the other.
FlatTo(seqs, k) == IF k = 0 THEN <<>> ELSE FlatOf(seqs)[k]

LEMMA FlatGrows ==
    ASSUME NEW S, NEW seqs \in Seq(Seq(S)), NEW k \in 1..Len(seqs), FlatTo(seqs, k - 1) \in Seq(S)
    PROVE  FlatTo(seqs, k) = FlatTo(seqs, k - 1) \o seqs[k]
<1>1. Len(seqs) \in Nat /\ seqs[k] \in Seq(S) /\ k # 0
  OBVIOUS
<1>2. FlatOf(seqs)[k] = IF k = 1 THEN seqs[k] ELSE FlatOf(seqs)[k - 1] \o seqs[k]
  BY <1>1, FlatIs
<1>3. CASE k = 1
  <2>1. FlatTo(seqs, k - 1) = <<>> /\ FlatTo(seqs, k) = seqs[k]
    BY <1>2, <1>3 DEF FlatTo
  <2>. QED  BY <1>1, <2>1, ConcatEmptySeq
<1>4. CASE k # 1
  <2>1. k - 1 # 0
    BY <1>4
  <2>. QED  BY <1>1, <1>2, <1>4, <2>1 DEF FlatTo
<1>. QED  BY <1>3, <1>4

LEMMA FlatToIsSeq ==
    ASSUME NEW S, NEW seqs \in Seq(Seq(S))
    PROVE  \A k \in 0..Len(seqs) : FlatTo(seqs, k) \in Seq(S)
<1>. DEFINE G == {k \in 0..Len(seqs) : FlatTo(seqs, k) \in Seq(S)}
<1>0. Len(seqs) \in Nat
  OBVIOUS
<1>1. 0 \in G
  BY <1>0 DEF FlatTo
<1>2. ASSUME NEW m \in 1..Len(seqs), m - 1 \in G PROVE m \in G
  <2>1. FlatTo(seqs, m - 1) \in Seq(S) /\ seqs[m] \in Seq(S)
    BY <1>2
  <2>2. FlatTo(seqs, m) = FlatTo(seqs, m - 1) \o seqs[m]
    BY <2>1, FlatGrows
  <2>3. FlatTo(seqs, m - 1) \o seqs[m] \in Seq(S) /\ m \in 0..Len(seqs)
    BY <1>0, <2>1
  <2>. QED  BY <2>2, <2>3
<1>3. \A k \in 0..Len(seqs) : k \in G
  <2>. HIDE DEF G
  <2>. QED  BY <1>0, <1>1, <1>2, Upwards
<1>. QED  BY <1>3

LEMMA FlatIsFlatTo ==
    ASSUME NEW S, NEW seqs \in Seq(Seq(S))
    PROVE  FlattenSeq(seqs) = FlatTo(seqs, Len(seqs)) /\ FlattenSeq(seqs) \in Seq(S)
<1>1. Len(seqs) \in Nat /\ (Len(seqs) = 0 => seqs = <<>>)
  OBVIOUS
<1>2. FlattenSeq(seqs) = FlatTo(seqs, Len(seqs))
  BY <1>1, FlattenedBy DEF FlatTo
<1>. QED  BY <1>1, <1>2, FlatToIsSeq

TurnsTo(f, T, start, turn, n) ==
    /\ f \in [0..n -> T]
    /\ f = [i \in 0..n |-> IF i = 0 THEN start ELSE turn[f[i - 1]][i]]

\* A loop that stays within a set runs to its end.
LEMMA Turns ==
    ASSUME NEW T, NEW start \in T, NEW n \in Nat, NEW turn \in [T -> [1..n -> T]]
    PROVE  \E f : TurnsTo(f, T, start, turn, n)
<1>. DEFINE G == {m \in 0..n : \E f : TurnsTo(f, T, start, turn, m)}
<1>1. 0 \in G
  <2>. DEFINE f == [i \in 0..0 |-> start]
  <2>1. \A i \in 0..0 : i = 0
    OBVIOUS
  <2>2. \A i \in 0..0 : f[i] \in T /\ f[i] = IF i = 0 THEN start ELSE turn[f[i - 1]][i]
    BY <2>1
  <2>3. f = [i \in 0..0 |-> f[i]]
    OBVIOUS
  <2>. HIDE DEF f
  <2>4. TurnsTo(f, T, start, turn, 0)
    BY <2>2, <2>3 DEF TurnsTo
  <2>. QED  BY <2>4
<1>2. ASSUME NEW m \in 1..n, m - 1 \in G PROVE m \in G
  <2>1. PICK g : TurnsTo(g, T, start, turn, m - 1)
    BY <1>2
  <2>2. m - 1 \in 0..(m - 1) /\ g[m - 1] \in T
    BY <2>1 DEF TurnsTo
  <2>3. turn[g[m - 1]][m] \in T
    BY <2>2
  <2>. DEFINE f == [i \in 0..m |-> IF i = m THEN turn[g[m - 1]][m] ELSE g[i]]
  <2>4. ASSUME NEW i \in 0..m PROVE f[i] \in T /\ f[i] = IF i = 0 THEN start ELSE turn[f[i - 1]][i]
    <3>1. i # 0 => i - 1 \in 0..m /\ i - 1 # m
      OBVIOUS
    <3>2. CASE i = m
      BY <2>3, <3>1, <3>2
    <3>3. CASE i # m
      <4>1. i \in 0..(m - 1)
        BY <3>3
      <4>2. g[i] \in T /\ g[i] = IF i = 0 THEN start ELSE turn[g[i - 1]][i]
        BY <2>1, <4>1 DEF TurnsTo
      <4>. QED  BY <3>1, <3>3, <4>2
    <3>. QED  BY <3>2, <3>3
  <2>5. f = [i \in 0..m |-> f[i]]
    OBVIOUS
  <2>. HIDE DEF f
  <2>6. TurnsTo(f, T, start, turn, m)
    BY <2>4, <2>5 DEF TurnsTo
  <2>7. m \in 0..n
    OBVIOUS
  <2>. QED  BY <2>6, <2>7
<1>3. \A m \in 0..n : m \in G
  <2>. HIDE DEF G
  <2>. QED  BY <1>1, <1>2, Upwards
<1>4. n \in G
  BY <1>3
<1>. QED  BY <1>4

-------------------------------------------------------------------------------
(* The variables.                                                            *)

LEMMA AssignKeepsVars ==
    ASSUME NEW V, NEW table \in Seq(V), NEW var \in V
    PROVE  Assign(table, var) \in Seq(V) /\ SetVar(table, var) \in Seq(V)
<1>1. Assign(table, var) \in Seq(V)
  <2>1. CASE var.name \in NamesIn(table)
    <3>1. [i \in 1..Len(table) |-> IF table[i].name = var.name THEN var ELSE table[i]] \in Seq(V)
      OBVIOUS
    <3>. QED  BY <2>1, <3>1 DEF Assign
  <2>2. CASE var.name \notin NamesIn(table)
    BY <2>2, AppendProperties DEF Assign
  <2>. QED  BY <2>1, <2>2
<1>. QED  BY <1>1 DEF SetVar

AssignsAll(f, table, vars) ==
    f = [i \in 0..Len(vars) |-> IF i = 0 THEN table ELSE Assign(f[i - 1], vars[i])]

LEMMA SetVarsKeepsVars ==
    ASSUME NEW V, NEW table \in Seq(V), NEW vars \in Seq(V)
    PROVE  SetVars(table, vars) \in Seq(V)
<1>. DEFINE f == CHOOSE g : AssignsAll(g, table, vars)
            turn == [t \in Seq(V) |-> [i \in 1..Len(vars) |-> Assign(t, vars[i])]]
            G == {i \in 0..Len(vars) : f[i] \in Seq(V)}
<1>0. Len(vars) \in Nat /\ \A i \in 1..Len(vars) : vars[i] \in V
  OBVIOUS
<1>1. SetVars(table, vars) = f[Len(vars)]
  BY DEF SetVars, InTurn, AssignsAll
<1>2. AssignsAll(f, table, vars)
  <2>1. turn \in [Seq(V) -> [1..Len(vars) -> Seq(V)]]
    BY <1>0, AssignKeepsVars
  <2>2. \A t \in Seq(V), i \in 1..Len(vars) : turn[t][i] = Assign(t, vars[i])
    OBVIOUS
  <2>. HIDE DEF turn
  <2>3. PICK g : TurnsTo(g, Seq(V), table, turn, Len(vars))
    <3>. DEFINE T == Seq(V)  n == Len(vars)
    <3>1. table \in T /\ n \in Nat /\ turn \in [T -> [1..n -> T]]
      BY <1>0, <2>1
    <3>. HIDE DEF T, n
    <3>2. \E g : TurnsTo(g, T, table, turn, n)
      BY <3>1, Turns
    <3>. QED  BY <3>2 DEF T, n
  <2>4. ASSUME NEW i \in 0..Len(vars) PROVE g[i] = IF i = 0 THEN table ELSE Assign(g[i - 1], vars[i])
    <3>1. i # 0 => i - 1 \in 0..Len(vars) /\ i \in 1..Len(vars)
      BY <1>0
    <3>2. g[i - 1] \in Seq(V) \/ i = 0
      BY <2>3, <3>1 DEF TurnsTo
    <3>3. g[i] = IF i = 0 THEN table ELSE turn[g[i - 1]][i]
      BY <2>3 DEF TurnsTo
    <3>. QED  BY <2>2, <3>1, <3>2, <3>3
  <2>5. AssignsAll(g, table, vars)
    BY <2>3, <2>4 DEF AssignsAll, TurnsTo
  <2>. QED  BY <2>5
<1>. HIDE DEF f
<1>3. 0 \in G
  BY <1>0, <1>2 DEF AssignsAll
<1>4. ASSUME NEW i \in 1..Len(vars), i - 1 \in G PROVE i \in G
  <2>1. i \in 0..Len(vars) /\ i # 0 /\ f[i - 1] \in Seq(V)
    BY <1>0, <1>4
  <2>2. f[i] = Assign(f[i - 1], vars[i])
    BY <1>2, <2>1 DEF AssignsAll
  <2>. QED  BY <1>0, <2>1, <2>2, AssignKeepsVars
<1>5. \A i \in 0..Len(vars) : i \in G
  <2>. HIDE DEF G
  <2>. QED  BY <1>0, <1>3, <1>4, Upwards
<1>. QED  BY <1>0, <1>1, <1>5

SetsAll(f, table, vars) ==
    f = [i \in 0..Len(vars) |-> IF i = 0 THEN table ELSE SetVar(f[i - 1], vars[i])]

LEMMA StatusKeepsVars ==
    ASSUME NEW V, NEW table \in Seq(V), NEW vars \in Seq(V)
    PROVE  InTurn(SetVar, table, vars) \in Seq(V)
<1>. DEFINE f == CHOOSE g : SetsAll(g, table, vars)
            turn == [t \in Seq(V) |-> [i \in 1..Len(vars) |-> SetVar(t, vars[i])]]
            G == {i \in 0..Len(vars) : f[i] \in Seq(V)}
<1>0. Len(vars) \in Nat /\ \A i \in 1..Len(vars) : vars[i] \in V
  OBVIOUS
<1>1. InTurn(SetVar, table, vars) = f[Len(vars)]
  BY DEF InTurn, SetsAll
<1>2. SetsAll(f, table, vars)
  <2>1. turn \in [Seq(V) -> [1..Len(vars) -> Seq(V)]]
    BY <1>0, AssignKeepsVars
  <2>2. \A t \in Seq(V), i \in 1..Len(vars) : turn[t][i] = SetVar(t, vars[i])
    OBVIOUS
  <2>. HIDE DEF turn
  <2>3. PICK g : TurnsTo(g, Seq(V), table, turn, Len(vars))
    <3>. DEFINE T == Seq(V)  n == Len(vars)
    <3>1. table \in T /\ n \in Nat /\ turn \in [T -> [1..n -> T]]
      BY <1>0, <2>1
    <3>. HIDE DEF T, n
    <3>2. \E g : TurnsTo(g, T, table, turn, n)
      BY <3>1, Turns
    <3>. QED  BY <3>2 DEF T, n
  <2>4. ASSUME NEW i \in 0..Len(vars) PROVE g[i] = IF i = 0 THEN table ELSE SetVar(g[i - 1], vars[i])
    <3>1. i # 0 => i - 1 \in 0..Len(vars) /\ i \in 1..Len(vars)
      BY <1>0
    <3>2. g[i - 1] \in Seq(V) \/ i = 0
      BY <2>3, <3>1 DEF TurnsTo
    <3>3. g[i] = IF i = 0 THEN table ELSE turn[g[i - 1]][i]
      BY <2>3 DEF TurnsTo
    <3>. QED  BY <2>2, <3>1, <3>2, <3>3
  <2>5. SetsAll(g, table, vars)
    BY <2>3, <2>4 DEF SetsAll, TurnsTo
  <2>. QED  BY <2>5
<1>. HIDE DEF f
<1>3. 0 \in G
  BY <1>0, <1>2 DEF SetsAll
<1>4. ASSUME NEW i \in 1..Len(vars), i - 1 \in G PROVE i \in G
  <2>1. i \in 0..Len(vars) /\ i # 0 /\ f[i - 1] \in Seq(V)
    BY <1>0, <1>4
  <2>2. f[i] = SetVar(f[i - 1], vars[i])
    BY <1>2, <2>1 DEF SetsAll
  <2>. QED  BY <1>0, <2>1, <2>2, AssignKeepsVars
<1>5. \A i \in 0..Len(vars) : i \in G
  <2>. HIDE DEF G
  <2>. QED  BY <1>0, <1>3, <1>4, Upwards
<1>. QED  BY <1>0, <1>1, <1>5

\* The words that a text may hold in a round of subst() behind its first n replacements:
\* no name of a higher level than r, and of those of level r none of the first n.
Allowed(table, level, r, n) ==
    {w \in STRING : w \in NamesIn(table) =>
        level[w] <= r /\ (level[w] = r => \A i \in 1..n : w # table[i].name)}

\* What the replacements rely on: the table holds variables of the device, whose levels
\* go down from a name to its text.
LevelsOf(table, level) ==
    /\ table \in Seq(KnownVars) /\ KnownVars \subseteq Variables
    /\ level \in [KnownNames -> 1..7]
    /\ Levels(level)

LEMMA TableIs ==
    ASSUME NEW table, NEW level, LevelsOf(table, level)
    PROVE  /\ Len(table) \in Nat
           /\ \A i \in 1..Len(table) : /\ table[i] \in KnownVars
                                       /\ table[i].name \in STRING /\ table[i].text \in Seq(STRING)
           /\ NamesIn(table) \subseteq KnownNames
           /\ \A w \in NamesIn(table) : level[w] \in 1..7
<1>1. table \in Seq(KnownVars) /\ KnownVars \subseteq Variables /\ level \in [KnownNames -> 1..7]
  BY DEF LevelsOf
<1>2. \A i \in 1..Len(table) : table[i] \in KnownVars
  BY <1>1
<1>3. \A v \in KnownVars : v.name \in STRING /\ v.text \in Seq(STRING) /\ v.name \in KnownNames
  BY <1>1 DEF Variables, KnownNames
<1>4. NamesIn(table) \subseteq KnownNames
  BY <1>2, <1>3 DEF NamesIn
<1>. QED  BY <1>1, <1>2, <1>3, <1>4

\* One replacement takes one more name of the highest level out of the text.
LEMMA ReplacedIsLower ==
    ASSUME NEW table, NEW level, LevelsOf(table, level), NEW r \in 0..7, NEW n \in 1..Len(table),
           NEW str \in Seq(Allowed(table, level, r, n - 1))
    PROVE  Replaced(str, table[n]) \in Seq(Allowed(table, level, r, n))
<1>. DEFINE A == Allowed(table, level, r, n)
            pieces == [i \in 1..Len(str) |->
                          IF str[i] = table[n].name THEN table[n].text ELSE <<str[i]>>]
<1>1. /\ Len(table) \in Nat /\ Len(str) \in Nat
      /\ table[n] \in KnownVars /\ table[n].text \in Seq(STRING)
      /\ table[n].name \in NamesIn(table) /\ NamesIn(table) \subseteq KnownNames
      /\ \A w \in NamesIn(table) : level[w] \in 1..7
  BY TableIs DEF NamesIn
<1>2. ASSUME NEW i \in 1..Len(str) PROVE pieces[i] \in Seq(A)
  <2>1. str[i] \in Allowed(table, level, r, n - 1)
    OBVIOUS
  <2>2. CASE str[i] = table[n].name
    <3>1. level[table[n].name] <= r
      BY <1>1, <2>1, <2>2 DEF Allowed
    <3>2. ASSUME NEW k \in 1..Len(table[n].text) PROVE table[n].text[k] \in A
      <4>1. table[n].text[k] \in STRING
        BY <1>1
      <4>2. ASSUME table[n].text[k] \in NamesIn(table)
            PROVE  level[table[n].text[k]] < r
        <5>1. level[table[n].text[k]] < level[table[n].name]
          BY <1>1, <4>2 DEF LevelsOf, Levels
        <5>2. level[table[n].text[k]] \in 1..7 /\ level[table[n].name] \in 1..7
          BY <1>1, <4>2
        <5>3. \A a, b \in 1..7 : a < b /\ b <= r => a < r
          OBVIOUS
        <5>. QED  BY <3>1, <5>1, <5>2, <5>3
      <4>3. ASSUME table[n].text[k] \in NamesIn(table)
            PROVE  level[table[n].text[k]] <= r /\ level[table[n].text[k]] # r
        <5>1. level[table[n].text[k]] \in 1..7
          BY <1>1, <4>3
        <5>2. \A a \in 1..7 : a < r => a <= r /\ a # r
          OBVIOUS
        <5>. QED  BY <4>2, <4>3, <5>1, <5>2
      <4>. QED  BY <4>1, <4>3 DEF Allowed
    <3>3. table[n].text \in Seq(A)
      <4>. DEFINE t == table[n].text
      <4>1. t \in Seq(STRING) /\ \A k \in 1..Len(t) : t[k] \in A
        BY <1>1, <3>2
      <4>. HIDE DEF t, A
      <4>2. t \in Seq(A)
        BY <4>1
      <4>. QED  BY <4>2 DEF t
    <3>. QED  BY <2>2, <3>3
  <2>3. CASE str[i] # table[n].name
    <3>1. str[i] \in A
      <4>1. \A j \in 1..n : j = n \/ j \in 1..(n - 1)
        OBVIOUS
      <4>. QED  BY <2>1, <2>3, <4>1 DEF Allowed
    <3>. HIDE DEF A
    <3>2. <<str[i]>> \in Seq(A)
      BY <3>1
    <3>. QED  BY <2>3, <3>2
  <2>. QED  BY <2>2, <2>3
<1>3. Replaced(str, table[n]) = FlattenSeq(pieces)
  BY DEF Replaced
<1>4. pieces \in Seq(Seq(A))
  <2>1. pieces = [i \in 1..Len(str) |-> pieces[i]]
    OBVIOUS
  <2>. HIDE DEF pieces, A
  <2>. QED  BY <1>1, <1>2, <2>1
<1>. HIDE DEF pieces, A
<1>5. FlattenSeq(pieces) \in Seq(A)
  BY <1>4, FlatIsFlatTo
<1>. QED  BY <1>3, <1>5 DEF A

ReplacesAll(f, str, table) ==
    f = [i \in 0..Len(table) |-> IF i = 0 THEN str ELSE Replaced(f[i - 1], table[i])]

LEMMA ReplacedIsText ==
    ASSUME NEW str \in Seq(STRING), NEW var \in Variables
    PROVE  Replaced(str, var) \in Seq(STRING)
<1>. DEFINE pieces == [i \in 1..Len(str) |-> IF str[i] = var.name THEN var.text ELSE <<str[i]>>]
<1>1. pieces \in Seq(Seq(STRING))
  <2>1. var.text \in Seq(STRING)
    BY DEF Variables
  <2>2. ASSUME NEW i \in 1..Len(str) PROVE pieces[i] \in Seq(STRING)
    <3>1. str[i] \in STRING /\ <<str[i]>> \in Seq(STRING)
      OBVIOUS
    <3>. QED  BY <2>1, <3>1
  <2>3. pieces = [i \in 1..Len(str) |-> pieces[i]] /\ Len(str) \in Nat
    OBVIOUS
  <2>. HIDE DEF pieces
  <2>. QED  BY <2>2, <2>3
<1>2. Replaced(str, var) = FlattenSeq(pieces)
  BY DEF Replaced
<1>. HIDE DEF pieces
<1>. QED  BY <1>1, <1>2, FlatIsFlatTo

LEMMA ReplacesAllExists ==
    ASSUME NEW str \in Seq(STRING), NEW table \in Seq(Variables)
    PROVE  \E f : ReplacesAll(f, str, table)
<1>. DEFINE turn == [t \in Seq(STRING) |-> [i \in 1..Len(table) |-> Replaced(t, table[i])]]
<1>0. Len(table) \in Nat /\ \A i \in 1..Len(table) : table[i] \in Variables
  OBVIOUS
<1>1. turn \in [Seq(STRING) -> [1..Len(table) -> Seq(STRING)]]
  BY <1>0, ReplacedIsText
<1>2. \A t \in Seq(STRING), i \in 1..Len(table) : turn[t][i] = Replaced(t, table[i])
  OBVIOUS
<1>. HIDE DEF turn
<1>3. PICK g : TurnsTo(g, Seq(STRING), str, turn, Len(table))
  <2>. DEFINE T == Seq(STRING)  n == Len(table)
  <2>1. str \in T /\ n \in Nat /\ turn \in [T -> [1..n -> T]]
    BY <1>0, <1>1
  <2>. HIDE DEF T, n
  <2>2. \E g : TurnsTo(g, T, str, turn, n)
    BY <2>1, Turns
  <2>. QED  BY <2>2 DEF T, n
<1>4. ASSUME NEW i \in 0..Len(table) PROVE g[i] = IF i = 0 THEN str ELSE Replaced(g[i - 1], table[i])
  <2>1. i # 0 => i - 1 \in 0..Len(table) /\ i \in 1..Len(table)
    BY <1>0
  <2>2. g[i - 1] \in Seq(STRING) \/ i = 0
    BY <1>3, <2>1 DEF TurnsTo
  <2>3. g[i] = IF i = 0 THEN str ELSE turn[g[i - 1]][i]
    BY <1>3 DEF TurnsTo
  <2>. QED  BY <1>2, <2>1, <2>2, <2>3
<1>5. ReplacesAll(g, str, table)
  BY <1>3, <1>4 DEF ReplacesAll, TurnsTo
<1>. QED  BY <1>5

\* A round takes the names of the highest level out of the text.
LEMMA RoundIsLower ==
    ASSUME NEW table, NEW level, LevelsOf(table, level), NEW r \in 1..7,
           NEW str \in Seq(Allowed(table, level, r, 0))
    PROVE  Substituted(str, table) \in Seq(Allowed(table, level, r - 1, 0))
<1>. DEFINE f == CHOOSE g : ReplacesAll(g, str, table)
            G == {i \in 0..Len(table) : f[i] \in Seq(Allowed(table, level, r, i))}
<1>0. Len(table) \in Nat
  BY TableIs
<1>1. Substituted(str, table) = f[Len(table)]
  BY DEF Substituted, InTurn, ReplacesAll
<1>2. ReplacesAll(f, str, table)
  <2>1. table \in Seq(Variables)
    <3>1. table \in Seq(KnownVars) /\ KnownVars \subseteq Variables
      BY DEF LevelsOf
    <3>. QED  BY <3>1
  <2>2. str \in Seq(STRING)
    <3>1. Allowed(table, level, r, 0) \subseteq STRING
      BY DEF Allowed
    <3>. QED  BY <3>1
  <2>. QED  BY <2>1, <2>2, ReplacesAllExists
<1>. HIDE DEF f
<1>3. 0 \in G
  BY <1>0, <1>2 DEF ReplacesAll
<1>4. ASSUME NEW i \in 1..Len(table), i - 1 \in G PROVE i \in G
  <2>1. i \in 0..Len(table) /\ i # 0 /\ f[i - 1] \in Seq(Allowed(table, level, r, i - 1)) /\ r \in 0..7
    BY <1>0, <1>4
  <2>2. f[i] = Replaced(f[i - 1], table[i])
    BY <1>2, <2>1 DEF ReplacesAll
  <2>3. Replaced(f[i - 1], table[i]) \in Seq(Allowed(table, level, r, i))
    BY <2>1, ReplacedIsLower
  <2>. QED  BY <2>1, <2>2, <2>3
<1>5. \A i \in 0..Len(table) : i \in G
  <2>. HIDE DEF G
  <2>. QED  BY <1>0, <1>3, <1>4, Upwards
<1>6. f[Len(table)] \in Seq(Allowed(table, level, r, Len(table)))
  BY <1>0, <1>5
<1>7. Allowed(table, level, r, Len(table)) \subseteq Allowed(table, level, r - 1, 0)
  <2>. SUFFICES ASSUME NEW w \in Allowed(table, level, r, Len(table))
                PROVE  w \in Allowed(table, level, r - 1, 0)
    OBVIOUS
  <2>1. w \in STRING
    BY DEF Allowed
  <2>2. ASSUME w \in NamesIn(table) PROVE level[w] <= r - 1
    <3>1. \E i \in 1..Len(table) : w = table[i].name
      BY <2>2 DEF NamesIn
    <3>2. level[w] <= r /\ level[w] # r
      BY <2>2, <3>1 DEF Allowed
    <3>3. level[w] \in 1..7
      BY <2>2, TableIs
    <3>. QED  BY <3>2, <3>3
  <2>. QED  BY <2>1, <2>2 DEF Allowed
<1>. QED  BY <1>1, <1>6, <1>7

LEMMA RoundIsText ==
    ASSUME NEW str \in Seq(STRING), NEW table \in Seq(Variables)
    PROVE  Substituted(str, table) \in Seq(STRING)
<1>. DEFINE f == CHOOSE g : ReplacesAll(g, str, table)
            G == {i \in 0..Len(table) : f[i] \in Seq(STRING)}
<1>0. Len(table) \in Nat /\ \A i \in 1..Len(table) : table[i] \in Variables
  OBVIOUS
<1>1. Substituted(str, table) = f[Len(table)]
  BY DEF Substituted, InTurn, ReplacesAll
<1>2. ReplacesAll(f, str, table)
  BY ReplacesAllExists
<1>. HIDE DEF f
<1>3. 0 \in G
  BY <1>0, <1>2 DEF ReplacesAll
<1>4. ASSUME NEW i \in 1..Len(table), i - 1 \in G PROVE i \in G
  <2>1. i \in 0..Len(table) /\ i # 0 /\ f[i - 1] \in Seq(STRING)
    BY <1>0, <1>4
  <2>2. f[i] = Replaced(f[i - 1], table[i])
    BY <1>2, <2>1 DEF ReplacesAll
  <2>3. Replaced(f[i - 1], table[i]) \in Seq(STRING)
    BY <1>0, <2>1, ReplacedIsText
  <2>. QED  BY <2>1, <2>2, <2>3
<1>5. \A i \in 0..Len(table) : i \in G
  <2>. HIDE DEF G
  <2>. QED  BY <1>0, <1>3, <1>4, Upwards
<1>. QED  BY <1>0, <1>1, <1>5

Rounds(f, str, table) ==
    f = [n \in 0..7 |-> IF n = 0 THEN str ELSE Substituted(f[n - 1], table)]

\* Seven rounds take them all out.
LEMMA SevenRounds ==
    ASSUME NEW table, NEW level, LevelsOf(table, level), NEW name \in NamesIn(table)
    PROVE  Subst(<<name>>, table) \in Seq(Allowed(table, level, 0, 0))
<1>. DEFINE str == <<name>>
            f == CHOOSE g : Rounds(g, str, table)
            turn == [t \in Seq(STRING) |-> [i \in 1..7 |-> Substituted(t, table)]]
            G == {n \in 0..7 : f[n] \in Seq(Allowed(table, level, 7 - n, 0))}
<1>1. Subst(str, table) = f[7]
  BY DEF Subst, Rounds
<1>2. table \in Seq(Variables)
  <2>1. table \in Seq(KnownVars) /\ KnownVars \subseteq Variables
    BY DEF LevelsOf
  <2>. QED  BY <2>1
<1>3. name \in Allowed(table, level, 7, 0) /\ name \in STRING
  <2>1. name \in STRING /\ level[name] \in 1..7
    BY TableIs DEF NamesIn
  <2>2. \A i \in 1..0 : FALSE
    OBVIOUS
  <2>3. \A a \in 1..7 : a <= 7
    OBVIOUS
  <2>. QED  BY <2>1, <2>2, <2>3 DEF Allowed
<1>4. str \in Seq(Allowed(table, level, 7, 0)) /\ str \in Seq(STRING)
  <2>. DEFINE A == Allowed(table, level, 7, 0)
  <2>1. name \in A /\ name \in STRING
    BY <1>3
  <2>. HIDE DEF A
  <2>2. \A S, x : x \in S => <<x>> \in Seq(S)
    OBVIOUS
  <2>3. str \in Seq(A) /\ str \in Seq(STRING)
    BY <2>1, <2>2
  <2>. QED  BY <2>3 DEF A
<1>. HIDE DEF str
<1>5. Rounds(f, str, table)
  <2>1. turn \in [Seq(STRING) -> [1..7 -> Seq(STRING)]]
    BY <1>2, RoundIsText
  <2>2. \A t \in Seq(STRING), i \in 1..7 : turn[t][i] = Substituted(t, table)
    OBVIOUS
  <2>. HIDE DEF turn
  <2>3. PICK g : TurnsTo(g, Seq(STRING), str, turn, 7)
    <3>. DEFINE T == Seq(STRING)  n == 7
    <3>1. str \in T /\ n \in Nat /\ turn \in [T -> [1..n -> T]]
      BY <1>4, <2>1
    <3>. HIDE DEF T, n
    <3>2. \E g : TurnsTo(g, T, str, turn, n)
      BY <3>1, Turns
    <3>. QED  BY <3>2 DEF T, n
  <2>4. ASSUME NEW i \in 0..7 PROVE g[i] = IF i = 0 THEN str ELSE Substituted(g[i - 1], table)
    <3>1. i # 0 => i - 1 \in 0..7 /\ i \in 1..7
      OBVIOUS
    <3>2. g[i - 1] \in Seq(STRING) \/ i = 0
      BY <2>3, <3>1 DEF TurnsTo
    <3>3. g[i] = IF i = 0 THEN str ELSE turn[g[i - 1]][i]
      BY <2>3 DEF TurnsTo
    <3>. QED  BY <2>2, <3>1, <3>2, <3>3
  <2>5. Rounds(g, str, table)
    BY <2>3, <2>4 DEF Rounds, TurnsTo
  <2>. QED  BY <2>5
<1>. HIDE DEF f
<1>6. 0 \in G
  <2>1. f[0] = str /\ 7 - 0 = 7 /\ 0 \in 0..7
    BY <1>5 DEF Rounds
  <2>. QED  BY <1>4, <2>1
<1>7. ASSUME NEW n \in 1..7, n - 1 \in G PROVE n \in G
  <2>. DEFINE r == 7 - (n - 1)
  <2>1. n \in 0..7 /\ n # 0 /\ r \in 1..7 /\ r - 1 = 7 - n /\ f[n - 1] \in Seq(Allowed(table, level, r, 0))
    BY <1>7
  <2>2. f[n] = Substituted(f[n - 1], table)
    BY <1>5, <2>1 DEF Rounds
  <2>. HIDE DEF r
  <2>3. f[n] \in Seq(Allowed(table, level, r - 1, 0))
    BY <2>1, <2>2, RoundIsLower
  <2>. QED  BY <2>1, <2>3
<1>8. \A n \in 0..7 : n \in G
  <2>1. 7 \in Nat
    OBVIOUS
  <2>. HIDE DEF G
  <2>. QED  BY <1>6, <1>7, <2>1, Upwards
<1>9. f[7] \in Seq(Allowed(table, level, 0, 0))
  <2>1. 7 \in 0..7 /\ 7 - 7 = 0
    OBVIOUS
  <2>. QED  BY <1>8, <2>1
<1>. QED  BY <1>1, <1>9 DEF str

LEMMA VarsInitially == ASSUME StartInit PROVE tVars \in Seq(KnownVars)
BY DEF StartInit

LEMMA VarsStay ==
    ASSUME StartAssumption, tVars \in Seq(KnownVars), [StartNext]_allVars
    PROVE  tVars' \in Seq(KnownVars)
<1>1. Settings \in Seq(KnownVars) /\ StatusVars \in Seq(KnownVars)
  <2>1. Settings \in Seq(Variables) /\ StatusVars \in Seq(Variables)
    BY DEF StartAssumption
  <2>2. ASSUME NEW i \in 1..Len(Settings) PROVE Settings[i] \in KnownVars
    BY DEF KnownVars
  <2>3. ASSUME NEW i \in 1..Len(StatusVars) PROVE StatusVars[i] \in KnownVars
    BY DEF KnownVars
  <2>4. ASSUME NEW V, NEW s \in Seq(V), NEW S, \A i \in 1..Len(s) : s[i] \in S PROVE s \in Seq(S)
    BY <2>4
  <2>5. Settings \in Seq(KnownVars)
    BY <2>1, <2>2, <2>4
  <2>6. StatusVars \in Seq(KnownVars)
    BY <2>1, <2>3, <2>4
  <2>. QED  BY <2>5, <2>6
<1>2. CASE PagesArrive
  BY <1>1, <1>2, SetVarsKeepsVars DEF PagesArrive
<1>3. CASE StatusArrives
  BY <1>1, <1>3, StatusKeepsVars DEF StatusArrives
<1>4. CASE tVars' = tVars
  BY <1>4
<1>5. CASE PagesFail \/ UNCHANGED allVars
  BY <1>4, <1>5 DEF PagesFail, allVars, startVars
<1>6. ASSUME NEW lang \in Langs, NEW result \in {"loaded", "failed"}, LanguageEnds(lang, result)
      PROVE  tVars' = tVars
  BY <1>6 DEF LanguageEnds
<1>7. ASSUME NEW path \in menu, OnClicked(path) \/ OnToggleSubMenu(path) PROVE tVars' = tVars
  BY <1>7 DEF OnClicked, OnToggleSubMenu
<1>8. CASE LinkSteps
  BY <1>4, <1>8 DEF LinkSteps, startVars
<1>. QED  BY <1>2, <1>3, <1>4, <1>5, <1>6, <1>7, <1>8 DEF StartNext

\* In whatever order the settings and the status bring the variables, and whatever they
\* overwrite: seven rounds leave no known name in a text, if no variable refers to others
\* over more than seven levels (CVarTable.subst, setVars, setVar).
THEOREM TextsAreComplete ==
    ASSUME StartAssumption, SevenLevels PROVE StartSpec => []SubstIsComplete
<1>1. StartInit => tVars \in Seq(KnownVars)
  BY VarsInitially
<1>2. tVars \in Seq(KnownVars) /\ [StartNext]_allVars => (tVars \in Seq(KnownVars))'
  BY VarsStay
<1>3. tVars \in Seq(KnownVars) => SubstIsComplete
  <2>. SUFFICES ASSUME tVars \in Seq(KnownVars), NEW i \in 1..Len(tVars),
                       NEW k \in 1..Len(Subst(<<tVars[i].name>>, tVars))
                PROVE  Subst(<<tVars[i].name>>, tVars)[k] \notin NamesIn(tVars)
    BY DEF SubstIsComplete
  <2>1. PICK level \in [KnownNames -> 1..7] : Levels(level)
    BY DEF SevenLevels
  <2>2. KnownVars \subseteq Variables
    BY DEF StartAssumption, KnownVars
  <2>3. LevelsOf(tVars, level)
    BY <2>1, <2>2 DEF LevelsOf
  <2>. DEFINE name == tVars[i].name
              text == Subst(<<name>>, tVars)
  <2>4. name \in NamesIn(tVars)
    BY DEF NamesIn
  <2>. HIDE DEF name
  <2>5. text \in Seq(Allowed(tVars, level, 0, 0))
    BY <2>3, <2>4, SevenRounds
  <2>6. k \in 1..Len(text)
    BY DEF name
  <2>. HIDE DEF text
  <2>7. text[k] \in Allowed(tVars, level, 0, 0)
    BY <2>5, <2>6
  <2>8. ASSUME text[k] \in NamesIn(tVars) PROVE FALSE
    <3>1. level[text[k]] <= 0
      BY <2>7, <2>8 DEF Allowed
    <3>2. level[text[k]] \in 1..7
      BY <2>3, <2>8, TableIs
    <3>. QED  BY <3>1, <3>2
  <2>. QED  BY <2>8 DEF text, name
<1>. QED  BY <1>1, <1>2, <1>3, PTL DEF StartSpec
===============================================================================
