----------------------------- MODULE ConfigStore -----------------------------
(***************************************************************************)
(* The configuration of a device: CAppl (CAppl.cpp), its table of variables *)
(* (CVarTable.cpp), the sections of the registered modules                  *)
(* (CConfigHandler.cpp), the file in which all of it is kept                *)
(* (CFileSystem.cpp) and the commands of the web page that read and change  *)
(* it (CWebSocket::dispatchJsonMessage).  The documents are those of        *)
(* JsonNode, with the parser and the writer that module has.                *)
(*                                                                         *)
(* One registered module stands for all: "mqtt", with one plain setting and *)
(* one that is masked (CMQTTControler.cpp).  Of CAppl's own settings the    *)
(* device name and the device password are kept; the two flags are written  *)
(* and read like the name.                                                  *)
(***************************************************************************)
EXTENDS JsonNode, FiniteSets

CONSTANTS
    DeviceNames, Passwords, Servers,  \* values of the settings
    VarNames, VarValues,              \* the variables of the application
    CriticalNames,    \* those that the application may mark as critical
    FirstFiles,       \* the file a device may find at its first start
    DefaultFile,      \* /default.json, or NoFile
    Settings,         \* what the web page changes: pairs of a key and its new value
    UnknownKeys,      \* keys in the file that nobody registered
    WriteOutcomes,    \* what LittleFS may do: a subset of Outcomes
    Garbage,          \* what may be in the memory behind the text of a file
    MaxGarbage        \* bound on the pieces of it that get into the file

VARIABLES
    file,     \* /config.json: a text, or NoFile
    appl,     \* m_oCfg: [name, password]
    table,    \* Config: a sequence of [name, value, critical]
    mqtt,     \* CMQTTController::Config: [server, password]
    backup,   \* what the web page has stored: [tree, config], or NoBackup
    saved     \* history: the configuration that was written last, or NoConfig

vars == <<file, appl, table, mqtt, backup, saved>>

NoFile   == <<<<"no file">>>>
NoConfig == [none |-> TRUE]
NoBackup == [none |-> TRUE]
Outcomes == {"written", "not opened", "cut short"}

HiddenPassword  == "********"   \* HIDDEN_PASSWORD_MASK
HiddenMqtt      == "******"     \* MQTT_HIDDEN_PASSWORD
HiddenVar       == "******"     \* LSC_VARS_CRITICAL_ENTRY_MASK
DefaultName     == "device"     \* DEFAULT_DEVICE_NAME
DefaultPassword == "admin"      \* DEFAULT_DEVICE_PWD
CriticalKey     == "__CN"       \* LSC_VARS_CRITICAL_NAMES_KEY

ASSUME ConfigAssumption ==
    /\ WriteOutcomes \subseteq Outcomes /\ CriticalNames \subseteq VarNames
    /\ <<>> \in Garbage /\ MaxGarbage \in Nat

Config(a, t, m) == [appl |-> a, table |-> t, mqtt |-> m]
Current == Config(appl, table, mqtt)

\* What the constructors leave.
Defaults == Config([name |-> DefaultName, password |-> DefaultPassword], <<>>,
                   [server |-> "", password |-> ""])

-------------------------------------------------------------------------------
(* CVarTable.                                                                *)

VarNamed(t, name) == SelectInSeq(t, LAMBDA v : v.name = name)

\* set()
WithVar(t, name, value) ==
    LET i == VarNamed(t, name)
    IN  IF i = 0 THEN Append(t, [name |-> name, value |-> value, critical |-> FALSE])
        ELSE [t EXCEPT ![i].value = value]

HasCriticalVars(t) == \E i \in 1..Len(t) : t[i].critical

WriteVars(node, t, hide) ==
    FoldLeft(LAMBDA n, v :
                 Assign(n, <<v.name>>, IF hide /\ v.critical THEN HiddenVar ELSE v.value, TRUE),
             node, t)

\* The names of the critical variables go into a copy of the object __CN, which is
\* lost at the end of the block: the object stays empty.
WriteNames(node, t) == IF HasCriticalVars(t) THEN WithObject(node, <<CriticalKey>>) ELSE node

\* writeConfigTo()
WriteTable(node, t, hide) == WriteNames(WriteVars(node, t, hide), t)

\* The names listed in __CN, as "n.1", "n.2", ...
ListedNames(node) ==
    LET list == Find(node, <<CriticalKey, "n">>)
    IN  IF list = Nowhere THEN {}
        ELSE {e.value : e \in {x \in Range(At(node, list).elements) : x.name # "0"}}

Marked(t, names) ==
    [i \in 1..Len(t) |-> [t[i] EXCEPT !.critical = @ \/ t[i].name \in names]]

\* readConfigFrom(): every element but __CN becomes a variable, unless it is masked.
ReadTable(t, node) ==
    Marked(FoldLeft(LAMBDA known, e :
                        IF e.name = CriticalKey \/ e.value = HiddenVar THEN known
                        ELSE WithVar(known, e.name, e.value),
                    t, node.elements),
           ListedNames(node))

-------------------------------------------------------------------------------
(* A setting of a section: storeValueIf() and storeValueIfNot().             *)

\* A mutant of StoredIfNot: the mask is stored like any other text.
StoredMaskToo(node, key, old, mask) == IF Find(node, <<key>>) = Nowhere THEN old ELSE Lookup(node, <<key>>)

StoredIf(node, key, old) ==
    IF Find(node, <<key>>) = Nowhere THEN old ELSE Lookup(node, <<key>>)

StoredIfNot(node, key, old, mask) ==
    IF Find(node, <<key>>) = Nowhere \/ Lookup(node, <<key>>) = mask THEN old
    ELSE Lookup(node, <<key>>)

\* CMQTTController.
WriteMqtt(node, m, hide) ==
    Assign(Assign(node, <<"server">>, m.server, TRUE),
           <<"passwd">>, IF hide THEN HiddenMqtt ELSE m.password, TRUE)

ReadMqtt(m, node) ==
    [server   |-> StoredIf(node, "server", m.server),
     password |-> StoredIfNot(node, "passwd", m.password, HiddenMqtt)]

-------------------------------------------------------------------------------
(* CAppl and its sections, "cfg" before "mqtt".                              *)

Section(node, name) ==
    LET place == Find(node, <<name>>)
    IN  IF place # Nowhere /\ At(node, place).type = Object
        THEN At(node, place) ELSE Empty(name, Object)

\* The object of a section, created on demand: [tree, place].
SectionIn(node, name) == Get(node, <<name>>, Object)

TableInto(got, t, hide) ==
    Put(got.tree, got.place, WriteTable(At(got.tree, got.place), t, hide))

MqttInto(got, m, hide) ==
    Put(got.tree, got.place, WriteMqtt(At(got.tree, got.place), m, hide))

\* CConfigHandler::writeConfigTo(): the handlers that have values.
WriteSections(node, c, hide) ==
    MqttInto(SectionIn(IF c.table = <<>> THEN node
                       ELSE TableInto(SectionIn(node, "cfg"), c.table, hide), "mqtt"),
             c.mqtt, hide)

WriteAppl(node, a, hide) ==
    Assign(Assign(node, <<"devicename">>, a.name, TRUE),
           <<"devicepwd">>, IF hide THEN HiddenPassword ELSE a.password, TRUE)

\* CAppl::writeConfigTo(): the variables go into the root and into "cfg".
WriteConfig(node, c, hide) ==
    WriteSections(WriteAppl(WriteTable(node, c.table, hide), c.appl, hide), c, hide)

\* CAppl::readConfigFrom(JsonNode &): an empty device name becomes the default
\* password, an empty password stays.
ReadConfig(c, node) ==
    LET name == StoredIf(node, "devicename", c.appl.name)
    IN  Config([name     |-> IF name = "" THEN DefaultPassword ELSE name,
                password |-> StoredIfNot(node, "devicepwd", c.appl.password, HiddenPassword)],
               ReadTable(c.table, Section(node, "cfg")),
               ReadMqtt(c.mqtt, Section(node, "mqtt")))

\* CAppl::migrateConfig(): the old places of the password and of the name.  The
\* keys are removed from the document in memory, not from the file.
Migrated(c, node) ==
    [c EXCEPT !.appl.password = StoredIf(Section(node, "web"), "httpPasswd", @),
              !.appl.name     = StoredIf(Section(node, "wifi"), "hostname", @)]

\* loadFileToBuffer() does not end the text with a zero byte: the parser goes on
\* in the memory behind it.  What it finds there becomes elements without a name.
Behind(text) ==
    {g \in Garbage :
        g = <<>> \/ Cardinality({i \in DOMAIN Parse(NewDocument, text).elements :
                                 Parse(NewDocument, text).elements[i].name = NoName}) < MaxGarbage}

\* A mutant of Booted: the old places win over the new ones.
BootedOldPlacesWin(text) ==
    {LET doc == Parse(NewDocument, text \o g)
     IN  IF text = <<>> THEN Defaults ELSE Migrated(ReadConfig(Defaults, doc), doc) : g \in Behind(text)}

\* CAppl::readConfigFrom(file) after a restart: what may be read.  Nothing is read
\* from an empty file.
Booted(text) ==
    {LET doc == Parse(NewDocument, text \o g)
     IN  IF text = <<>> THEN Defaults ELSE ReadConfig(Migrated(Defaults, doc), doc) : g \in Behind(text)}

FileAtBoot == IF file # NoFile THEN file ELSE IF DefaultFile # NoFile THEN DefaultFile ELSE <<>>

\* The documents that may be read from the file before it is written again.
Loaded ==
    IF file = NoFile THEN {NewDocument}
    ELSE {Parse(NewDocument, file \o g) : g \in Behind(file)}

\* What "getbackup" reads, with loadFileToString(): a String ends with a zero byte.
Stored == IF file = NoFile THEN NewDocument ELSE Parse(NewDocument, file)

-------------------------------------------------------------------------------
(* Writing.                                                                  *)

\* A mutant of DocToSave: the file is written without what it held before.
DocToSaveAnew(loaded, c) == WriteConfig(Assign(NewDocument, <<"TS">>, "now", TRUE), c, FALSE)

\* The document that CAppl::saveConfig() writes.
DocToSave(loaded, c) == WriteConfig(Assign(loaded, <<"TS">>, "now", TRUE), c, FALSE)

\* CFS::saveJsonContentToFile(): true whenever the file could be opened.  A write
\* that fails leaves the old file, or an empty one where there was none.
WriteFile(text, c) ==
    \E outcome \in WriteOutcomes :
        CASE outcome = "written"    -> file' = text /\ saved' = c
          [] outcome = "not opened" -> UNCHANGED <<file, saved>>
          [] outcome = "cut short"  -> /\ file' = IF file = NoFile THEN <<>> ELSE file
                                       /\ UNCHANGED saved

Become(c) == appl' = c.appl /\ table' = c.table /\ mqtt' = c.mqtt

Init ==
    /\ file \in FirstFiles
    /\ \E c \in Booted(FileAtBoot) : appl = c.appl /\ table = c.table /\ mqtt = c.mqtt
    /\ backup = NoBackup
    /\ saved = NoConfig

\* The application: Config.set(), setCriticalVar(), saveConfig().
SetVar(name, value) ==
    /\ table' = WithVar(table, name, value)
    /\ UNCHANGED <<file, appl, mqtt, backup, saved>>

SetCriticalVar(name) ==
    /\ VarNamed(table, name) # 0
    /\ table' = Marked(table, {name})
    /\ UNCHANGED <<file, appl, mqtt, backup, saved>>

Save ==
    /\ \E loaded \in Loaded : WriteFile(Serialize(DocToSave(loaded, Current)), Current)
    /\ UNCHANGED <<appl, table, mqtt, backup>>

\* CWebSocket::dispatchMessage(): a message that is not read to its end is refused.
Received(command, payload) ==
    LET text == Serialize(Node(NoName, Object, "", TRUE,
                               <<Scalar("command", command, TRUE),
                                 [payload EXCEPT !.name = "payload"]>>))
    IN  IF ReadsAll(text) THEN {Section(Parse(NewDocument, text), "payload")} ELSE {}

\* "saveconfig": the web page sends back what it got from "getconfig", with one
\* setting changed.
Page == WriteConfig(NewDocument, Current, TRUE)

SaveCommand(key, value) ==
    /\ \E page \in {Page} :
          /\ Find(page, key) # Nowhere
          /\ \E payload \in Received("saveconfig",
                                     Put(page, Find(page, key), Scalar(Last(key), value, TRUE))) :
             \E c \in {ReadConfig(Current, payload)}, loaded \in Loaded :
                 Become(c) /\ WriteFile(Serialize(DocToSave(loaded, c)), c)
    /\ UNCHANGED backup

\* "getbackup" and "restorebackup".  Bound: one backup is taken, at any time.
GetBackup ==
    /\ backup = NoBackup
    /\ backup' = [tree |-> WriteConfig(Stored, Current, FALSE), config |-> Current]
    /\ UNCHANGED <<file, appl, table, mqtt, saved>>

RestoreBackup ==
    /\ backup # NoBackup
    /\ \E payload \in Received("restorebackup", backup.tree) :
          WriteFile(Serialize(payload), backup.config)
    /\ UNCHANGED <<appl, table, mqtt, backup>>

FactoryReset ==
    /\ file' = NoFile
    /\ saved' = NoConfig
    /\ UNCHANGED <<appl, table, mqtt, backup>>

\* ESP.restart(): the device comes back with what it reads.
Restart ==
    /\ \E c \in Booted(FileAtBoot) : Become(c)
    /\ UNCHANGED <<file, backup, saved>>

Next ==
    \/ \E name \in VarNames, value \in VarValues : SetVar(name, value)
    \/ \E name \in CriticalNames : SetCriticalVar(name)
    \/ Save
    \/ \E setting \in Settings : SaveCommand(setting[1], setting[2])
    \/ GetBackup
    \/ RestoreBackup
    \/ FactoryReset
    \/ Restart

Spec == Init /\ [][Next]_vars

-------------------------------------------------------------------------------
\* Whatever is read, from a file or from the page, every setting is one that was
\* set: a document that is read only in part does not put a value under another
\* key, and a name of the file format never becomes a variable.
TypeOK ==
    /\ appl.name \in DeviceNames \cup {DefaultName, DefaultPassword}
    /\ appl.password \in Passwords \cup {DefaultPassword}
    /\ mqtt.server \in Servers \cup {""} /\ mqtt.password \in Passwords \cup {""}
    /\ \A i \in 1..Len(table) : table[i].name \in VarNames /\ table[i].value \in VarValues
    /\ \A i, j \in 1..Len(table) : table[i].name = table[j].name => i = j

\* CAppl::saveConfig() "Persist the current configuration": whatever the file held before,
\* whatever has been set since and whichever later writes failed, a restart brings back every
\* setting and every variable that was written.  The same for a restored backup.  A file with
\* the list of the critical variables is left out: the parser ends at the empty list.
NamesCriticals(text) == \E i \in DOMAIN text : text[i] = Text(CriticalKey, TRUE)

SavedConfigIsRead ==
    saved # NoConfig /\ ~NamesCriticals(file) =>
        \A booted \in Booted(FileAtBoot) :
            /\ booted.appl = saved.appl
            /\ booted.mqtt = saved.mqtt
            /\ Range(saved.table) \subseteq Range(booted.table)

\* "The existing config file is loaded first so unknown keys are preserved."
\* (CAppl.cpp): while there is a file, it keeps the keys that nobody registered.  What stands
\* behind the section of the variables is left out once that has the list of the critical
\* ones: the parser ends there, and the next save drops the rest of the file.
UnknownOf(text) == [key \in UnknownKeys |-> Lookup(Parse(NewDocument, text), key)]

BehindVariables(text, key) ==
    LET doc == Parse(NewDocument, text)
        PlaceOf(name) == SelectInSeq(doc.elements, LAMBDA node : node.name = name)
    IN  PlaceOf("cfg") # 0 /\ PlaceOf("cfg") < PlaceOf(key[1])

UnknownKeysStay ==
    [][file # NoFile /\ file' # NoFile =>
          \A key \in UnknownKeys :
              \/ UnknownOf(file)[key] = ""
              \/ UnknownOf(file')[key] = UnknownOf(file)[key]
              \/ NamesCriticals(file') /\ BehindVariables(file, key)]_file

\* The texts that stand for a hidden value never become the value itself, though
\* the web page sends them back and the device saves what it was sent.
MaskIsNeverStored ==
    /\ appl.password # HiddenPassword
    /\ mqtt.password # HiddenMqtt
    /\ \A i \in 1..Len(table) : table[i].value # HiddenVar

\* Whatever is lost in between, no value turns up in a wrong place.
ValuesAreSet == TypeOK /\ MaskIsNeverStored

\* "Critical var names will be written in the JSON object with name defined in
\* LSC_VARS_CRITICAL_NAMES_KEY." (CVarTable.cpp): a variable that was saved as
\* critical is critical again after a restart.
CriticalNamesAreSaved ==
    saved # NoConfig =>
        \A booted \in Booted(FileAtBoot) :
            \A v \in Range(saved.table), b \in Range(booted.table) :
                v.critical /\ v.name = b.name => b.critical

\* "If it is empty, keep the default passwort." (CAppl.cpp, readConfigFrom).
EmptyPasswordKeepsDefault == appl.password # ""
===============================================================================
