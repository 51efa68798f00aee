# PLibESPV1 in TLA+

PLibESPV1 is a C++ runtime library for ESP8266 and ESP32 devices: an application
object with a message bus, a configuration in a file, modules for WiFi, MQTT, a
web server with a web socket, and small helpers. It brings a web application, which
the device serves and a browser runs, and the scripts that build it. This directory
holds TLA+ models of these, the TLC runs that check them and TLAPS proofs about
them.

- [1 The system](#1-the-system)
- [2 Modules and code](#2-modules-and-code)
- [3 Runs, bounds and fairness](#3-runs-bounds-and-fairness)
- [4 Where code and documentation disagree](#4-where-code-and-documentation-disagree)
- [5 Proofs](#5-proofs)
- [6 Not modelled](#6-not-modelled)
- [7 Plan](#7-plan)

## 1 The system

A program creates the global `Appl` and its modules, registers the modules with
the bus and with the two tables of handlers, reads the configuration, starts
WiFi and calls `Appl.dispatch()` in the Arduino `loop()`. Nearly everything else
happens in `receiveEvent()` of a module. Three kinds of tasks run the code: the
loop, the task of the asynchronous TCP library (web server, web socket, MQTT
client), and interrupt handlers. They share state without locks.

The web application talks to the device through one web socket: it asks for the
configuration, shows it page by page, and sends back what the user has changed. It
is built by scripts that join the pages a project uses, copy files between library
and project, and number versions.

| Component | State | Operations | Interacts by | What is hard | What makes it correct |
|---|---|---|---|---|---|
| `CEventHandler`, the bus | the table of receivers; the activations of `sendEvent()` | register, send | calls `receiveEvent()` of everyone | receivers send while they receive; results STOP and CALL_AGAIN; several tasks | nobody is missed, a second call needs consent, the result tells an objection, a broadcast ends |
| `CAppl` | `m_isRebootPending`, its settings, the status | dispatch, reboot, load and save the configuration | bus; handlers | the request for a reboot races with itself; `reboot()` sends within a broadcast | no first request restarts without everybody's consent; a restart is announced |
| `CJsonNode` | a tree of nodes | get and create by path, set, remove, serialize, parse | used by everyone | a hand written parser; names without quoting; nodes that change their type | what is written is read back; what is set is found; a name is there once |
| `CVarTable`, `CVar` | the variables, critical or not | set, find, mark, write, read | a configuration and status handler | masks of secrets that come back from the page | no mask becomes a value; marks and values survive a restart |
| `CConfigHandler`, `CStatusHandler` | tables of named handlers | write and read a section each | called by `CAppl` and the web socket | sections that are absent or of another type | each handler gets its own section |
| `CFileSystem` | files | load, save | LittleFS | writes that fail, texts without an end | a failed write does not mix up settings |
| `CSimpleDelay` | start, delay, expired | start, stop, restart, next, isDone | `millis()` | the counter wraps; zero is special | done exactly when the time has passed |
| `CMQTTController` | connection, buffer, message queue, retry and heartbeat delays | connect, publish, receive, dispatch | callbacks in another task; bus | fragments, lost connections, two tasks, times that wrap | each message once, in order; a lost connection is tried again, not too often; Home Assistant is answered |
| `CWebSocket` | clients, objects under assembly, message queue | receive, dispatch, send | callbacks in another task; `CAppl`, handlers | frames and parts of several clients | each message once, in order, complete, in its own object |
| `CWiFiController` | `Status`, `Config` | start, join, fall back, retry, disable | bus; the WiFi library | 15 seconds inside one call; retries; the clock wraps | the status is what was announced; a start returns |
| `CWebServer` | routes, sessions, the upload file | serve, upload, update | bus; file system | one static file for all uploads; a reboot behind the last chunk | not modelled (section 6) |
| `NamedValueTable` | a table of names and values | set, get, remove | used by modules | capacity and reuse of entries | not modelled |
| pins, buttons, lights, status LED | last level and times | dispatch | bus; `CSimpleDelay` | bouncing, times that wrap | not modelled |
| MDNS, NTP, logging, AES, tokens, base64, battery | little | wrappers and conversions | libraries | | not modelled |
| web user interface, its link | sockets, monitors, the flag that `send()` trusts | connect, close, reconnect, ask for the configuration | web socket; timers of the browser | several monitors and sockets over one flag; a link lost before its answer | the flag has an open socket behind it; the configuration is asked for once; a wanted link comes back, a closed one does not |
| web user interface, its start | pages, languages, variables, menu | load, translate, substitute, open a page | `fetch()`; the link; the status of the device | requests that fail; variables that refer to each other | texts before the link; a language once; a menu that reaches its pages |
| web user interface, a session | page, input elements, configuration, dialogs, token | show, type, switch, save, commit, reset, sign in and out | link, timers | updates while the user types; visibility, validity and saving depend on each other | what is saved is what was changed, and what was invalid is not; the view follows the token |
| build scripts | the pages, language files, copies, versions | join, synchronise, number | files | scripts that are stopped anywhere; copies with times of their own | a build that ended is complete; no text and no edit is lost; a version is given once |

The hazards of this code, each at its line, with the properties that would catch
it, are in `PROJECT.json`.

## 2 Modules and code

| Module | Code | Kind |
|---|---|---|
| `EventBus` | `src/src/CEventHandler.cpp` | state machine |
| `ApplReboot` (extends `EventBus`) | `CAppl.cpp`, receiveEvent and reboot | state machine, composes `CAppl` with the bus |
| `JsonNode` | `CJsonNode.cpp` | operators |
| `JsonDocument` (extends `JsonNode`) | `CJsonNode.cpp` in use | state machine |
| `ConfigStore` (extends `JsonNode`) | `CAppl.cpp`, `CVarTable.cpp`, `CConfigHandler.cpp`, `CFileSystem.cpp`, the commands of `CWebSocket.cpp` | state machine, composes five classes |
| `SimpleDelay` | `include/SimpleDelay.h` | operators |
| `DelayUse` (extends `SimpleDelay`) | the same, in use | state machine |
| `MqttInbox` | `CMQTTControler.cpp`, onMqttMessage and dispatch | state machine |
| `MqttConnection` (extends `SimpleDelay`) | `CMQTTControler.cpp`, setup, enableConnection, heartbeat, discovery, callbacks | state machine, composes the controller with its delay |
| `WebSocketInbox` | `CWebSocket.cpp`, onWebSocketEvent and dispatchMessageQueue | state machine |
| `WiFi` | `CWiFiController.cpp` | state machine |
| `Mailbox` | what the two inboxes promise | abstract specification |
| `WebLink` | `web/js/runtime.js`, `CWebSocketV2` and `CAppl.onSocketStatus()` | state machine |
| `WebStart` (extends `WebLink`) | `runtime.js` and `_runtime.js`: the start, `CAppSettings`, `CMenuBar`, `CTranslator`, `CVarTable` | state machine, composes the start with the link; implements `WebLink` |
| `WebPages` | `runtime.js` and `_runtime.js`: `CAppl`, `CPageHandler`, `CView`, `CElement`, `CConfig`, `CDialog`, `CSecurity`; the pages for WiFi, Device, System | state machine |
| `WebBuild` | `scripts/_buildPages.js`, `_common.js`, `syncFiles.js`, `updateVersionInfos.js`, `buildSteps.py` | state machine |
| `BusProofs` (bus and reboot), `JsonProofs` (document, parser and writer), `MqttProofs` (delay, MQTT connection and inbox), `WebSocketInboxProofs`, `WiFiProofs`, `WebStartProofs` (start and link), `WebPagesProofs`, `WebBuildProofs` | | theorems |
| `MC...` | | values of the constants for TLC |

**EventBus.** `sendEvent()` calls the receivers itself, so what runs at a time is
a stack of its activations for each task. A frame of that stack has the local
variables of `sendEvent()` (position, `nTotalResult`, the list of those to be
called again) and two history fields, `heard` and `against`. `Deliver` is one turn
of a loop up to the call, `Answer` the rest of the turn, `EndFirst`, `EndAgain` and
`Return` the ends of the loops and of the function. A receiver is *some* code that
may send an event itself (`Nest`) and answers anything. The sender is recognised by
address: `ThisOf` and `InterfaceOf` differ for a class in which `IMsgEventReceiver`
is not the first base, which is nearly every class of the library.

**ApplReboot.** The same bus, where one receiver is `CAppl`. The test of
`m_isRebootPending` and its assignment are two steps (`ApplFindsNonePending`,
`ApplDefers`), as another task may run between them. `reboot()` is an activation of
the bus with the message `Shutdown`; behind its broadcast it is in `delay`, then
`Restart`. A restart empties everything, the flag and the table of receivers
included.

**JsonNode, JsonDocument.** A node is a record of name, type, value, quotation and
elements, a path a sequence of names, a text a sequence of tokens. Values are quoted
when they are written, names are not: the constant `Misread` has the names that the
parser takes for others, `Unclosed` those that leave their string open, so that what
follows is read as part of it (`NameText`, `EndOf`); all other names are plain. A
`Cursor` is what `parse()` knows when a turn of its loop begins: the position in the
text, the key it has read, the type of the node it fills. `Turn` is one turn with all
its branches; `Reading` says of each cursor what the loop reads from there on, so that
the recursion of `parse()` into a container is a cursor further behind. The recursion of
`serializeNode()` goes down the levels of the tree: `TextOf[h]` is the text of the nodes
with at most `h` levels below them. The characters of a scalar are modelled apart
(`Quote`, `Scan`), where a character is one of the five kinds the scanner tells apart.
`JsonDocument` applies every call at every node of a document. `createElement()` of a
name that exists (`CreateAgain`) clears the element and puts its pointer into the list
once more; what would be done to such a tree is undefined as soon as the node is
deleted, so it is only saved and loaded (`NodeStandsTwice`). All of these are recursive
*functions*, on numbers, levels and cursors, and no `RECURSIVE` operators, since the
proofs are about them.

**ConfigStore.** The state is what is in memory (`appl`, `table`, `mqtt`), the file
as a text, a backup that the page has downloaded, and the history variable `saved`:
what the last successful save was given. Every command goes through the writer and
the parser, as in the code: `SaveCommand` writes the page with its masks, changes one
setting, sends it as the payload of a message, parses it on the device and saves.
One module, `mqtt`, stands for the registered ones; it has a plain setting and a
masked one, the two kinds that all of them use.

**SimpleDelay, DelayUse.** Each function is an operator on the record of the three
fields and the value of `millis()`. `DelayUse` lets the owner call them in any
order while time passes; `now` and `begun` are the true times, which do not wrap.

**MqttInbox, WebSocketInbox, Mailbox.** Both inboxes have a network task that
assembles a message and puts it in a queue and a loop task that takes it out; both
remove it only after it was handled, which is a second step. In `WebSocketInbox`
objects are numbered on a heap, so that a pointer to a deleted or foreign object can
be seen. `Mailbox` is what both promise: a message that is complete waits behind the
others, the loop takes the one that has waited longest, and none waits for ever. The
refinement mapping (`Inbox`) reads `waiting` from the queue without its front while
that is being handled, and `taken` from the history of what was delivered or
dispatched; of the web socket's heap it sees the contents the queue points to.

**MqttConnection.** `pc` is the place of the loop task in a turn: `enableConnection()`
(test, `connect()` with the restart of the delay, event), the first heartbeat (test,
publication), the queue, the second heartbeat, since `receiveEvent()` calls
`dispatch()` and then `publishHeartBeat()` again. Between these the library changes
`link` in its own task. The delay is a record of `SimpleDelay`. Of the messages only
those of Home Assistant matter here; that the controller hears its own event
`MSG_MQTT_MSG_RECEIVED`, because the bus does not recognise it as the sender
(section 4), is what makes it answer them. `quiet` and `beat` are history variables.

**WiFi.** `startWiFi()` runs for seconds; `pc` says where it is. The clock counts
modulo `Wrap`, and `restartTimeInMillis = -1` is the largest value. The events on
the bus are kept as the last one, `told`.

**WebLink.** A browser runs one handler at a time, which is one action; what varies is
the order of the events. Each `WebSocket` object has its `readyState`; `connect()` and
the monitor (`MonCon`) make one more and take it for the current one, while `onopen`
and `onclose` of every older one still write the one flag `available`. `request` is the
question for the configuration on its way over each socket; it dies with its socket.

**WebStart.** `phase` is how far the chain of `fetch()` calls has come: pages, default
language, the user's language, running; each request may fail. From `running` on the
steps of `WebLink` go on beside clicks in the menu and the status of the device
(`LinkSteps`). A path in the menu is a sequence of names, a text a sequence of words
of which some are names of variables.

**WebPages.** A session with the pages: `form` is what each element shows, is, and
whether it is valid; `hidden` what the last `updateView()` hid; `config` what the
application holds of the configuration and `received` what the device sent last.
Handlers are whole actions: a click on a switch changes the element, the view and the
save button (`OnSwitch`), `savePage()` reads all elements that `isVisible()` finds, and
so on. That is not what the user sees: a password is hidden by a class of the style
sheet from who is not signed in, the list of the dialog for networks by its closed
dialog, and `isVisible()` looks at neither (`IsVisible` and `IsShown`).
`ShowScanDialog`, `InsertFoundNetworks`, `OnSelectChanged` and `UseNetwork` are that
dialog. The commands that leave may be lost; the login answers come in any order.

**WebBuild.** A script is the list of its writes, one action each: `plan` is what it
does, a sequence for each turn of its loop over the pages, and `turn` and `nth` are the
write that is next. `JoinTexts` is `joinLanguages()`, which may throw and so end the
script; `BuildStep` any other write of `buildPages`. A script may be stopped between two
writes or within one, which leaves the file `cut`; the next script reads what is there.
What is merged into a string throws, what is merged into an array becomes a member of it
that `JSON.stringify()` leaves out (`Mergeable`, `Placed`). Contents are parts with the
number of the edit they come from, times are those of the file system, versions are
triples.

The repository holds `runtime.js` twice: `syncFiles.js` (line 43) copies it to
`_runtime.js`, which `index.html` (line 36) loads. The two files are identical. The
helpers of the classes are mapped to the one, the handlers and the sequences of calls
to the other.

## 3 Runs, bounds and fairness

| Run | Module | Asks | Bounds |
|---|---|---|---|
| `event_bus` | MCEventBus | nobody is missed, nobody is called after a STOP, and a broadcast ends | 3 receivers (both kinds of address), 1 task, all answers, 2 activations deep |
| `appl_reboot` | MCApplReboot | the reboot protocol, and that an agreed request restarts | 2 tasks, `Appl` and one module, answers OK, WARN, STOP, 2 requests, 2 deep |
| `json_document` | MCJsonDocument | round trip, set and get, one element of a name, quoting | 5 nodes, 2 keys, 1 value (and another to set); 4 nodes with a name that is misread or leaves its string open, or a value that became a container; 3 characters |
| `config_store` | MCConfigStore | what is saved is read; no mask becomes a value; unknown keys stay | 1 variable, critical or not, 2 passwords, a file of an older version or one with variables between settings nobody registered, writes that succeed, fail to open or are cut short, 1 downloaded backup |
| `delay_use` | MCDelayUse | a delay is exact before the wrap | `millis()` of 8 values, 20 milliseconds, periods 0, 1, 3 and 7 |
| `mqtt_inbox` | MCMqttInbox | the inbox implements the mailbox | 3 messages of lengths 0, 2 and 3, lost connections |
| `mqtt_connection` | MCMqttConnection | attempts keep their distance and go on, heartbeats go on, Home Assistant is answered | a clock of 7 values, delay and interval of 2, 2 messages |
| `websocket_inbox` | MCWebSocketInbox | the inbox implements the mailbox, each message in its own object | 2 clients, messages of one frame in one or two parts and of two frames, 3 messages, 4 objects |
| `wifi` | MCWiFi | status and announcement agree; a start returns | a clock of 10 values, a join of 3 and a retry of 2, 2 retries |
| `web_start` | MCWebStart | the application starts in order, variables are resolved, the link comes back | 2 sockets, 2 monitors, 2 pages in 2 submenus, 2 languages, 3 variables and 2 of the status |
| `web_pages` | MCWebPages | what is saved, shown and committed in a session | 6 elements on 2 pages (radio buttons, a switch, a text, the list of a dialog with 1 network, a password), 2 configurations of the device, 2 logins under way |
| `web_build` | MCWebBuild | a build that ended is complete, whatever was stopped before | 3 pages of which up to 2 are used, 1 language file with strings, sections and arrays, 4 runs of scripts, 2 edits, three sets of scripts |

The properties of each run:

- `event_bus`: `NobodyIsMissed`, `NobodyAfterStop`, the inductive `BusInv`,
  `BroadcastsEnd`.
- `appl_reboot`: `RebootInv`, `FirstRequestIsUnanimous`, `RestartIsAnnounced`,
  `AgreedRequestRestarts`.
- `json_document`: `RoundTrip`, `AssignedIsRead`, `ScanInvertsQuote`, `NamesStayUnique`.
- `config_store`: `SavedConfigIsRead` (a file that was written is the configuration
  after a restart), `ValuesAreSet` (a password is one that somebody has set, never a
  mask or part of another setting), `UnknownKeysStay`.
- `delay_use`: `DoneIsElapsed`, `DelayInv`.
- `mqtt_inbox`, `websocket_inbox`: `InboxInv` (typed, nothing doubled or overtaken, each
  part in its own object) and `ImplementsMailbox`.
- `mqtt_connection`: `ConnectionInv`, `AttemptsKeepDistance`, `RetryGoesOn`,
  `HeartBeatGoesOn`, `OnlineIsAnswered`.
- `wifi`: `WiFiInv`, `StartWiFiReturns`.
- `web_start`: `StartInv`, `SubstIsComplete`, `ClosedStaysClosed`, `LinkComesBack`.
- `web_pages`: `SessionInv` (what is saved is shown when the page is loaded again; a
  change is announced until it is committed or dropped; the device restarts only after
  it has stored; the view follows the token), `TypedInvalidIsNotSaved`,
  `OnlyChangesAreSaved`.
- `web_build`: `DoneIsComplete`, `TextsStay`, `VersionsIncrease`, `NewestIsKept`.

Why these bounds suffice to be of interest:

- Two activations are the depth at which a nested broadcast and an outer one
  coexist; the code treats every depth alike. Three receivers give a first, a
  middle and a last one, so that a STOP has somebody before and behind it. One task
  is enough for the bus alone, since the activations of two tasks share only the
  table, which no broadcast changes; two tasks matter where they share the flag,
  in `appl_reboot`. The second request is the one that finds the first pending.
- Five nodes allow an object in an array in an object with a value behind it, and so
  every transition of the parser between levels. `MaxDepth`, the levels of a document
  below its root, is 4 here, which no document of five nodes exceeds, and 5 in
  `config_store`, which no configuration reaches. Four nodes are enough for a name that
  is read as another one or swallows what follows it, an element that is met by it, and
  another level. The two first files of `config_store` have settings nobody registered
  at the top, within two sections, and in front of and behind the section of the
  variables. Three characters are enough for a backslash, a quote and what follows them.
- In `delay_use` eight values of the clock and 20 steps wrap it twice.
- Three messages give a queue with a front that is being handled, one that waits
  and one that arrives. Two lengths of frames and two clients make parts interleave.
- Two sockets and two monitors are the least at which an older socket ends or opens
  under a newer one, and at which `close()` meets more than one timer.
- The six elements of `web_pages` have a condition on a switch that is itself under a
  condition, a key that two radio buttons share, and a page to change to. The two
  configurations differ in the switches, and one leaves out two keys. Two
  constraints keep the run from following a user who closes the dialog that waits for the
  reload or commits while a login is under way (`WaitIsTheEnd`), and a configuration in
  which a wrong password was saved (`PasswordIsGood`); the proofs are about these, too.
- In `web_build` four runs are a script that is stopped, the same stopped elsewhere,
  another of its set, and one that ends; page `b` has a string where others have a section,
  and sections meet the array of the project (`help`) and that of page `c` (`info`).
- A clock of 10 values wraps within two joins, and every time of a start relative
  to the wrap occurs.

The bounds are constants whose names start with `Max` and appear as guards of the
actions that add something (`NodeStandsTwice` and the two constraints of `web_pages` are
the others). Deadlock is checked except where a bounded model comes to its end:
`DelayUse` stops at `MaxTime`, the inboxes after `MaxSent` and `MaxMessages`, `WebBuild`
after `MaxRuns` and `MaxEdits`; `ConfigStore` is the configuration of a system that may
rest.

Fairness:

- `BroadcastsEnd`: a task inside `sendEvent()` keeps running, and `receiveEvent()`
  returns. That is how a single threaded loop and preemptive tasks run code;
  nothing is assumed about who sends.
- `AgreedRequestRestarts`: every task that is in a call goes on. The ESP32
  schedules its tasks preemptively, the ESP8266 yields in `delay()`.
- `ImplementsMailbox`: the loop comes to `dispatch()` again and again, and the
  receivers return. Nothing is assumed of the network. That the queue is emptied is
  the fairness of `Mailbox`, which says "a message waits" where weak fairness would
  say that `Take` is enabled.
- `RetryGoesOn`, `HeartBeatGoesOn`, `OnlineIsAnswered`: the loop runs and time passes;
  nothing is assumed of the network. A tick is a time in which the loop completes
  a turn. That matters near the wrap: a next heartbeat that is due in the last
  milliseconds before it is found only if the loop turns in them, and otherwise one
  round of the counter later, so a loop that is late each time is left out.
- `StartWiFiReturns`: the code of `startWiFi()` runs and the clock ticks. The
  network may never appear; what ends the join is the time.
- `LinkComesBack`: the timers of the browser run, a socket that connects opens while the
  device can be reached, a closing one closes, and a device that is reached answers.
  `LinkComesBack` is about a device that stays reachable from some time on; nothing
  says that it will.
- `StartSpec` adds that a `fetch()` ends somehow. `WebPages` and `WebBuild` need no
  fairness: their properties are about what must not happen.

Every property of a passing run has a mutant: a plausible slip in the code, as an
operator in front of the definition it replaces, which makes TLC report the
property. They are listed in `PROJECT.json`.

## 4 Where code and documentation disagree

Modelling met places where the code does something else than a comment or a document
says. Where that can be stated about a model, the property is in its module; it is not
in a configuration, as it fails. It fails when it is added to the named configuration
with the change that is given.

| Property | In | Change | What the code does |
|---|---|---|---|
| `SenderIsNotCalled` | `MCEventBus` | none | `CEventHandler.cpp:71` compares the sender's `this` with the interface's address: most senders get their own event, against line 55 |
| `ModuleCanStopReboot` | `MCApplReboot` | `Receivers <- TwoModules`, `FirstBase <- OnlyMod2`, one task | a second request is not asked of those behind `Appl`: it finds one pending and restarts (`README.md:61-62` of the library says a module can stop a reboot) |
| `ParsesWhatItWrites` | `MCJsonDocument` | none | an empty object or array ends the parser's level (`CJsonNode.cpp:1111`) |
| `RoundTrip`, `NamesStayUnique` | `MCJsonDocument` | leave out `NamesArePlain` in the property | names are written as they are (`CJsonNode.cpp:996-998`) and unescaped when they are read (lines 1121-1127): one with a quotation mark or a backslash comes back as another, which may be there already, or takes what follows into its string |
| `NamesStayUnique` | `MCJsonDocument` | leave out `CreatedAgain` in the property | `createElement()` puts the element it has found and cleared into the list once more (`CJsonNode.cpp:746`, against line 734): two elements of a name, and one pointer that is deleted twice |
| `AssignedIsRead` | `MCJsonDocument` | `Keys <- DottedKeys` | a dotted key reaches into a scalar that the path goes through |
| `NamesStayUnique` | `MCJsonDocument` | `Keys <- DottedKeys` | behind the path of a dotted key the complete key is looked for, not its last name, so an existing element gets a second one of its name (`CJsonNode.cpp:715`) |
| `SavedConfigIsRead` | `MCConfigStore` | `Garbage <- ZeroOrBrace` | the buffer has no zero byte at its end (`CFileSystem.cpp:244`) |
| `CriticalNamesAreSaved` | `MCConfigStore` | none | the names go into a copy, and the file gets an empty list (`CVarTable.cpp:324`, against line 303) |
| `UnknownKeysStay` | `MCConfigStore` | leave out `BehindVariables` and its line in the property | the parser ends at that empty list (`CJsonNode.cpp:1111`), and the next save drops what stood behind it (`CAppl.cpp:264`, against line 249: "unknown keys are preserved") |
| `EmptyPasswordKeepsDefault` | `MCConfigStore` | `Settings <- EmptyPassword` | `CAppl.cpp:172` stores it |
| `DoneOnlyIfElapsed` | `MCDelayUse` | none | the sum wraps (`SimpleDelay.h:96`) |
| `StartActivates` | `MCDelayUse` | none | `millis()` is 0 (`SimpleDelay.h:33`) |
| `DeliveredIsSent` | `MCMqttInbox` | none | the buffer survives a lost connection (`CMQTTControler.cpp:600`) |
| `DispatchedIsComplete` | `MCWebSocketInbox` | none | each frame starts a new object, so only the last frame of a message is dispatched (`CWebSocket.cpp:148-152`, against `WebSocket.h:11`) |
| `ElapsedIsRetried` | `MCMqttConnection` | none | once `millis()` has wrapped behind the last attempt, `isDone()` is false until it passes that value again: up to 49 days without a connection (`CMQTTControler.cpp:75`, against the comment of line 68) |
| `HeartBeatsKeepInterval` | `MCMqttConnection` | none | the next time wraps, and every turn before the wrap sends a heartbeat (`CMQTTControler.cpp:410`) |
| `DisabledIsSilent` | `MCMqttConnection` | none | a connection that is up is not ended when MQTT is switched off (`CMQTTControler.cpp:408`, against `MQTTController.h:45`) |
| `StartingIsFirst` | `MCMqttConnection` | none | the connection may be up before the event of the attempt is sent (`CMQTTControler.cpp:79`) |
| `ConnectedIsKnown` | `MCMqttConnection` | none | discovery follows the start of the program and a message of Home Assistant, not a connect: a device that connects later, while Home Assistant runs, stays unknown (`CMQTTControler.cpp:222`, against `MQTTController.h:63`) |
| `RetriesBeforeDisable` | `MCWiFi` | none | `restartIfNeeded()` compares the number of retries the wrong way round, so it never retries and disables WiFi at once (`CWiFiController.cpp:445`, against `WiFiController.h:117`) |
| `NothingBeforeRestartTime` | `MCWiFi` | none | the test of the time is inverted (`CWiFiController.cpp:444`) |
| `JoinTellsTheTruth` | `MCWiFi` | `StartsAgain = TRUE` | a failed join returns the flag of an earlier one (`CWiFiController.cpp:385`) |
| `OnlyChangesAreSaved` | `MCWebPages` | leave out the line with `IsList` in the property | `isVisible()` does not know that the dialog for networks is closed (`runtime.js:631-645`), so its list is saved with every page as `scan_ssid` and changes with each scan (`runtime.js:2236-2239`) |
| `DoneIsComplete` | `MCWebBuild` | leave out `InList` in `Stands` | a section that meets an array is put into it as a property, and `JSON.stringify()` drops it: the build ends with a text missing (`_common.js:326-340`, `_buildPages.js:199`) |
| `CloseStopsMonitor` | `MCWebStart` | none | `close()` tests `oMonTimeID` and the timer is in `oMonTimerID` (`runtime.js:2620` and `2630`) |

The properties of the passing runs say what remains true under these, and name each
exception in their comment. For example
`SavedConfigIsRead` leaves out files with the list of critical variables, since the
parser takes the end of that empty list for the end of the file's object and the
sections behind it are lost; it also does not count a save whose write was cut short,
which `saveJsonContentToFile()` reports as done because it does not test the result of
`write()` (`CFileSystem.cpp:280`). `InboxInv` of the MQTT inbox claims the content of a
message unless one of another length was interrupted before it, and `DoneIsElapsed` is
limited to the time before the wrap.

Other observations have no property, as they are visible in a single line, or concern
parts that the models leave out:

- *Link.* `close()` closes the last socket only. The configuration is asked for once,
  and the flag is set when the question is sent: if the link is lost before the answer,
  the configuration stays unknown until the page is loaded anew (`runtime.js:3341`).
  `requestActStatus()` does not return its promise, so the first page is shown before
  the status arrives. A page without an entry in the menu, as a default page that the
  project does not have, makes `loadPage()` throw. Entries of a third level in the menu
  cannot be reached. A language whose file could not be read is not tried again.
- *Session.* Passwords and pasted texts are validated only with the next key or switch.
  A commit or a restart loads the page anew after 10 seconds (`runtime.js:2451`) whether
  the device answered or not; a commit whose message is dropped, or refused by the
  device, leaves the mark of the pending change off. An update from the device replaces
  what was saved and not committed while that mark stays on, and overwrites what is
  being typed. A radio group without a checked button fulfils every condition on it. Two
  browsers overwrite each other's changes.
- *Pages.* The restore of a backup uses names that are not defined; the reload timer of
  30 seconds may end an upload of firmware; the lists of networks and of the history
  grow with each refresh.
- *Variables of the pages.* A false value does not delete a variable, against the
  comment of `CVarTable.setVar()`.
- *Build.* The comment of `buildSteps.py:152-153` says that a different version resets
  the build number; `before_build()` only counts it up. With the rule `<>` a copy that
  was cut is newer than its origin and is copied back over it; with `>` or `=` it is
  never repaired. `mergeSection()` throws when a section meets a string.
  `runUpdateVersionInfos()` refers to names that are not defined (lines 264-267), and
  `compilePages` does not wait for its streams.

## 5 Proofs

`tlapm` checks these for all values of the constants that satisfy the assumptions of the
modules (`BusAssumption`, `ApplAssumption`, `WrapAssumption`, `PeriodsAssumption`,
`ConnectionAssumption`, `InboxAssumption` of both inboxes, `LinkAssumption`,
`StartAssumption`, `WiFiAssumption`, `PagesAssumption`, `RadioAssumption`,
`HiddenDecidesNothing`, `BuildAssumption`, `DepthAssumption`, `DocumentAssumption`,
`NoNameAssumption`, `NamesAssumption`) and what a theorem assumes itself.
`DocumentAssumption` says that a key is a sequence of names that are not empty;
`NoNameAssumption`, that the empty string is a string, which the provers do not know of
a literal; `NamesAssumption`, that `Misread` and `Unclosed` are about strings and not
about the empty name.

| Theorem | Module | States |
|---|---|---|
| `BusInvariant` | BusProofs | `Spec => []BusInv` |
| `BusDelivers` | BusProofs | `Spec => [](NobodyIsMissed /\ SecondCallNeedsConsent /\ ResultTellsObjection)` |
| `StopIsTheEnd` | BusProofs | `Spec => []NobodyAfterStop` |
| `RebootInvariant` | BusProofs | `ApplSpec => []RebootInv` |
| `FirstRequestUnanimous` | BusProofs | `ApplSpec => []FirstRequestIsUnanimous` |
| `RestartAnnounced` | BusProofs | `ApplSpec => []RestartIsAnnounced` |
| `WhatIsSavedIsRead` | JsonProofs | `Spec => []RoundTrip` |
| `EveryTextIsRead` | JsonProofs | `Spec => []ScanInvertsQuote` |
| `NoNameIsDoubled` | JsonProofs | `Spec => NamesStayUnique`, if all keys are single names |
| `WhatIsAssignedIsRead` | JsonProofs | `Spec => []AssignedIsRead`, if all keys are single names |
| `DelayInvariant` | MqttProofs | `DelaySpec => []DelayInv` |
| `DelayIsExact` | MqttProofs | `DelaySpec => [](DoneIsElapsed /\ NextIsNotAhead)` |
| `ConnectionInvariant` | MqttProofs | `Spec => []ConnectionInv` |
| `AttemptsAreApart` | MqttProofs | `Spec => AttemptsKeepDistance` |
| `InboxIsCorrect` | MqttProofs, WebSocketInboxProofs | `Spec => []InboxInv` |
| `InboxIsMailbox` | MqttProofs, WebSocketInboxProofs | `Spec => Inbox!Spec`: the inbox implements the mailbox |
| `WiFiIsTold` | WiFiProofs | `Spec => []WiFiInv`, if `~StartsAgain` |
| `LinkInvariant` | WebStartProofs | `Spec => []LinkInv` |
| `ClosedLinkStaysClosed` | WebStartProofs | `Spec => ClosedStaysClosed` |
| `StartIsLink` | WebStartProofs | `StartSpec => Spec`: the application implements the link |
| `StartIsInOrder` | WebStartProofs | `StartSpec => []StartInv`, if `TwoLevels` |
| `TextsAreComplete` | WebStartProofs | `StartSpec => []SubstIsComplete`, if `SevenLevels` |
| `SessionInvariant` | WebPagesProofs | `Spec => []SessionInv` |
| `TypedInvalidStaysUnsaved` | WebPagesProofs | `Spec => []TypedInvalidIsNotSaved` |
| `SavesOnlyChanges` | WebPagesProofs | `Spec => OnlyChangesAreSaved` |
| `VersionsOnlyIncrease` | WebBuildProofs | `Spec => VersionsIncrease` |
| `NewestEditIsKept` | WebBuildProofs | `Spec => NewestIsKept` |
| `NoTextIsLost` | WebBuildProofs | `Spec => TextsStay` |
| `BuiltIsComplete` | WebBuildProofs | `Spec => []DoneIsComplete` |

- **The bus.** The properties speak of broadcasts that are over; a step that ends
  a loop has to know what the loop did. `FirstPassOK` is that loop invariant: the
  positions before `pos` are settled (the receiver is the sender or has answered),
  but for the one that is executing. With `Distinct`, no receiver occupies two
  positions, so that "settled" does not change when the table grows, and the table
  grows only between broadcasts. A STOP ends the loop, and what it leaves is a position
  up to which all are settled and behind which nobody was called (`IsStopped`), which
  `FrameOK` keeps for the rest of the activation. `BusInv` is inductive with these, and
  the properties follow from `FrameOK` of each frame.
- **The reboot.** `BusInv` alone does not relate two activations. `RebootInv` adds
  that before the first request no activation carries one and none is pending, that
  the first request has exactly one activation (`FirstIsAlone`), that a pending flag
  during it means that this activation has deferred (`FirstIsDeferred`), and hence
  that a shutdown it demands comes in its second pass (`FirstDemandsLate`), where the
  bus guarantees that all have answered without an objection. `RestartAnnounced` needs
  one more fact about each activation (`AnnouncementsOK`): only `CAppl` sends the
  shutdown, and a `reboot()` is in its delay only if it was forced or its broadcast has
  ended with OK. The steps of the bus are proved once, in `BusProofs`, and used for the
  bus inside `ApplReboot`.
- **The document.** What keeps `RoundTrip` true is nothing about texts: it is the shape
  of the tree. `Inv` says that the document is an object, has at most `MaxDepth` levels,
  and is tidy: every node in it is sound, which is that the elements of an array have no
  names, since the writer would write them and the parser refuse them. `getObject()` may
  clear and convert a node, the parser reads texts of any kind; both keep that
  (`CallsTidy`, `ReloadedTidy`), the parser also where an empty container makes it lose
  the rest. The theorem itself has two halves. Where the text of a node stands in the
  text of the document, the texts of its elements stand one behind the other
  (`ChildWritten`, `ChildEnds`); and a cursor at the text of a node with no empty
  container (and none but plain names) reads a copy of it and ends behind it
  (`NodeRead`, element by element from the last one on, `RestGrows`), where a copy may
  differ in what nobody writes: the value and the flag of a container. `NamesStayUnique`
  adds that a value has no elements and the names of an object differ; loading keeps
  that as it makes a copy, `GetOrAdd` as `find()` looks before it adds, and
  `createElement()` adds a second one just where `CreatedAgain` says so. Each lemma over
  a tree is an induction over its levels, each lemma about the parser one over the
  tokens that are left, each loop one over its turns. Since no prover here can
  instantiate an induction rule with a predicate, the cases are collected in a set of
  numbers and `Upwards` applied to it, and the recursive functions are shown to exist in
  the same way.
- **The characters.** `QuotedIsRead` follows the scanner over the pieces of a quoted
  text: between two pieces it is inside, with no escape active, and has read the
  characters so far.
- **The delay.** `DelayInv` says that `millis()` is the true time until it wraps and
  that the start of a period is the true one as long as both are before the wrap.
- **The MQTT connection.** An attempt is two steps, a test and a call, and the
  invariant has to carry what the test found: while no more than the delay has
  passed since the last attempt, `quiet` is the distance of `millis()` from the start
  of the delay, and so `isDone()` is false unless the end is beyond the counter.
- **The MQTT inbox.** The invariant says what the buffer holds while a message arrives:
  the fragments so far, from the start (`BufferOf`), and that the deliveries and the
  queue are one sequence of messages in the order of their arrival. `strdup()` cuts at
  the first zero; that there is a first one is proved from the well-foundedness of the
  finite sets, since the induction rules of the library take an operator.
- **The web socket inbox.** Pointers: every object in the queue is alive and there once
  (`QueueIsAlive`), the object of a client under assembly is its own and not in the
  queue (`TempIsOwn`), and the dispatched messages with those in the queue are one
  sequence (`OneEachInOrder`). A message in one frame and one in several end in the same
  step, `Stores`, about which the lemmas are stated once.
- **The WiFi controller.** While `startWiFi()` runs, `pc` says what must already have
  been announced (`WhileItRuns`). The assumption is that no program starts WiFi while it
  is connected; without it `JoinTellsTheTruth` fails and so does the invariant.
- **The web link.** `LinkInv` relates the one flag to all sockets: it is on only if an
  open socket is there, the question goes out once, and a socket that is not closed is
  never forgotten. That a monitor opens none after `close()` follows for each step.
- **The web application.** `StartIInv` says what each phase has done: before `running`
  there is no link and no page, the languages up to the phase were asked for and each at
  most once (`LanguagesSoFar`), and the menu is made of all pages (`MenuSoFar`). That
  its links are the pages needs `TwoLevels`: a page is an entry of the bar or of one
  submenu, and no page has the place where a submenu opens. Every step of the start is a
  step of the link or leaves it alone, whence `StartIsLink`.
- **The variables of the pages.** `subst()` has seven rounds over the table, and a text
  may be put in that holds names the round has already passed. The invariant of a round
  (`Allowed`) gives each name a level above those in its text: in round `8 - r` no name
  is above level `r`, and behind the first `n` replacements none of the first `n` names
  is on it. So each round takes the highest level away. `SevenLevels` says that seven
  are enough, without which the code leaves names in the text: a circle is never
  resolved, and of a longer chain it depends on the order of the table.
- **A session with the pages.** `SessionInv` without `SavedIsShownAgain` is inductive
  (`PagesInv`); it was strengthened by two facts the properties need. `OneButton`: of
  the radio buttons of a name exactly one is checked and both are hidden or none, so
  that what a page saves for the name is the value of the checked one in whatever order
  `saveConfigValues()` comes to it. `TypedIsSignedIn`: what was typed, and not loaded,
  was typed by somebody signed in, else signing in would enable the save button over an
  invalid text. A handler may change fields (`FieldsInv`) or the rest (`OthersInv`),
  seldom both, and the proof has one lemma for each. `SavedIsShownAgain` follows from
  `PagesInv` in one state: the saved configuration has, for each shown element, the
  value that `setValue()` turns back into what the element shows, boolean or string, and
  keeps the older value for the hidden ones. That the *same* elements are shown again
  needs more than the code: the pages have to be built so that a hidden switch decides
  about nothing that is shown. `HiddenDecidesNothing` says so, and `RadioAssumption`
  that a name with several elements is a pair of radio buttons of which the HTML checks
  one. Both are how the pages for WiFi and MQTT are written; a page against either would
  lose fields on reload, and nothing in `runtime.js` would notice.
- **The build.** `CourseInv` says where a running script is in its plan, whose first turn,
  turns of pages and last turn are known by their number. On it rest three invariants that
  do not depend on each other:
  - *Versions.* A number could be given twice only if `version.json` were ahead of
    `package.json`. `NumbersInv` excludes that, and `UpdateInv` says where between two
    writes the new number is in one file only. `VersionsIncrease` follows for each step,
    also after a script that was stopped between `package.json` and `version.json`.
  - *The pair of files.* `NewestIsKept` speaks of contents, the code compares times.
    `NewerInv` says for each rule when the newer file has the newest edit: a copy that was
    cut has a new time and no content, and with `>` and `<` the other file must be whole.
  - *The pages.* `JoinedInv` is the loop invariant of `processPages()`: each of the
    files has the parts of the pages of all turns that are over, and of the one of this
    turn if its write is behind `nth` (`Count`). For the language files it says that a
    text which no later page overwrites (`WinsTo`) came from the page that has it, and
    that the file is whole; `mergeSection()` keeps that because a section and a string
    in one place throw (`Mergeable`). A text within an array is not in the file, and
    stays so: what replaces the array wins over the text (`InList` in `Stands`). That
    the language files differ in name is in `BuildAssumption`: they are files of a
    directory. The handlers are a concatenation, which the library defines by recursion;
    its function is shown to exist by the least length without one. `LanguagesInv` is
    all that `TextsStay` needs: it holds for each merge as such.

The refinements are proved without fairness (`Inbox!Spec`); with it
(`Inbox!FairSpec`) they are model-checked.

Only model-checked:

- `SavedConfigIsRead`, `ValuesAreSet` and `UnknownKeysStay` of `ConfigStore`. They speak of
  values, at several keys, through every text a device may have had in its file, the cut
  ones and those with an empty list included, where `WhatIsSavedIsRead` does not apply. An
  inductive invariant would have to say what the parser reads of a document that it cannot
  read to its end. They also hold only for settings and variables whose names do not meet
  each other's or those of the sections, as on the devices of the library.
- All liveness, since TLAPS has no rules for fairness with `ENABLED` here.

## 6 Not modelled

- **A vector that changes under a broadcast.** `registerEventReceiver()` within
  `receiveEvent()` invalidates the iterator of `sendEvent()`: undefined. `Register` is
  enabled only when no broadcast runs, as in the setup of all programs.
- **Memory**: failing allocations, leaks and double deletes, pointers to clients that
  are gone. They are listed as hazards with a note.
- **Data races inside `std::queue`**: its operations are taken as atomic.
- **Uploads** in `CWebServer`, its routes and sessions, and the authentication of the
  web socket: what they do is between the device and its browsers, chunk by chunk, in
  the handlers of the server library. Only that an update asks for a reboot is modelled.
- **NamedValueTable**, a sequential container, and the small state machines of pins,
  buttons, lights and the status LED above `CSimpleDelay`.
- **Data behind the first zero**: `strdup()` cuts an MQTT payload with a zero byte in it.
- **Names** with a delimiter outside their own quotation marks, which end the parser's
  string in the middle, and names given to elements of an array, which `createElement()`
  takes and the parser refuses.
- **The menu** that `settings.js` may preset, beside the entries of the pages.
- **Names and formats**: device names, topics, times and log lines are values of small
  sets or left out.
- **The look of the pages**: templates, icons, fades, positions and the translation of
  each element. `WebStart` knows a page by its menu entry, `WebPages` by its elements.
  The pages for Firmware and Backup only start transfers of files.
- **compilePages**: which of its tasks sees which file is decided by the scheduler of
  gulp and by streams that nobody waits for; a model would state that order freely and
  every property of its result would fail.
- **The generated documentation** under `doc/`, whose scripts come from Doxygen.
- Wrappers around libraries, cryptography, hardware: `PROJECT.json` gives the reason
  for each.

## 7 Plan

Written: the core (`EventBus`, `ApplReboot`), the configuration (`JsonNode`,
`JsonDocument`, `ConfigStore`), tasks and time (`SimpleDelay`, `DelayUse`, the inboxes
and `Mailbox`, `WiFi`), the MQTT connection, the web application (`WebLink`, `WebStart`,
`WebPages`) and its build (`WebBuild`), with the proofs of section 5.

What is left, in order of importance:

1. *Configuration*: what the parser reads of a document with an empty container, as a
   lemma beside `WhatIsSavedIsRead`, and on it proofs of `SavedConfigIsRead` and
   `ValuesAreSet`.
2. *Upload and update* in `CWebServer`: chunks of several requests that share one file;
   a reboot only behind a complete image.
3. *Web socket sessions*: authentication, and answers to clients that are gone.
4. The publishing of states and the topics of commands in `CMQTTController`.
5. *NamedValueTable* against an abstract map, by refinement.
6. *Status, pins, buttons and lights* above `CSimpleDelay`.
