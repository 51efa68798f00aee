------------------------------- MODULE WebBuild -------------------------------
(***************************************************************************)
(* The scripts that build the web application of a project: buildPages      *)
(* joins the pages in use into one file of each type and their texts into   *)
(* the language files, syncFiles copies between library and project,        *)
(* updateVersionInfos and the pre-build step of PlatformIO number versions. *)
(*                                                                         *)
(* A developer edits files and starts one script after the other.  A script *)
(* is the list of its writes, one action each, in as many turns as its loop *)
(* has; it may be stopped for good between two writes, or within one, which *)
(* leaves the file cut, and is then started anew.  Nobody edits a file      *)
(* while a script runs.                                                     *)
(***************************************************************************)
EXTENDS Integers, Sequences, SequencesExt

CONSTANTS
    Pages,        \* the pages
    HandlerOf,    \* the class that page.js registers for each, or NoHandler
    NoHandler,
    Languages,    \* the language files, in the order readdirSync() lists them
    TextsOf,      \* the texts of each page in each: paths, as <<"WiFi", "scan", "title">>
    OwnTexts,     \* the texts that the project has written into its language files itself
    ListsOf,      \* those that are arrays, of each page and of the project, "own", in each
    PageLists,    \* "usePages", as pages.json may have it
    Rules,        \* how a pair of files may be synchronised: "=", ">", "<" or "<>"
    Arguments,    \* of updateVersionInfos: "none", "-major", "-minor", "-patch"
    ScriptSets,   \* the scripts that are used together; different sets share no file
    MaxRuns, MaxEdits  \* bounds: scripts started, files edited

Types == {"html", "css", "js"}
AllLanguages == {Languages[i] : i \in DOMAIN Languages}
Texts == OwnTexts \cup UNION {TextsOf[p][l] : p \in Pages, l \in AllLanguages}
OtherFiles == {"source", "target", "package", "version", "include", "settings"}

\* Text a lies within text b: { "WiFi": { "title": ... } } and { "WiFi": ... }.
Within(a, b) == IsStrictPrefix(b, a)

\* The language files of a directory have different names, and none of another file.  In one
\* file no text lies within another.  Bound: no name in them is a number or "length", which an
\* array would take as its own.
ASSUME BuildAssumption ==
    /\ \A i, j \in DOMAIN Languages : Languages[i] = Languages[j] => i = j
    /\ Languages \in Seq(AllLanguages)
    /\ AllLanguages \cap (Types \cup OtherFiles) = {}
    /\ \A p \in Pages : AllLanguages \subseteq DOMAIN TextsOf[p]
    /\ Texts \subseteq Seq(STRING) /\ "own" \notin Pages
    /\ \A p \in Pages, l \in AllLanguages : \A a, b \in TextsOf[p][l] : ~Within(a, b)
    /\ Pages \subseteq DOMAIN HandlerOf
    /\ \A list \in PageLists : list \in Seq(Pages)
    /\ Rules \subseteq {"=", ">", "<", "<>"}
    /\ Arguments \subseteq {"none", "-major", "-minor", "-patch"}
    /\ ScriptSets \subseteq SUBSET {"buildPages", "syncFiles", "updateVersionInfos", "prebuild"}
    /\ MaxRuns \in Nat /\ MaxEdits \in Nat

VARIABLES
    scripts,   \* the scripts that are used
    edition,   \* how often each page was edited
    usePages,  \* the pages of the project
    out,       \* _pages.html, _pages.css and _pages.js: sequences of parts <<name, edition>>
    i18n,      \* the language files: which part each text comes from
    rule,      \* the rule of the pair of files that is synchronised
    source, target, \* its two files: content (the number of the edit), mtime (0: missing)
    now,       \* the clock of the file system
    package,   \* the version in package.json
    version,   \* the version in data/version.json, with the build number
    stamp,     \* the versions in include/ProgVersion.h and settings.js
    cut,       \* the files whose last write was stopped; above is what they held before
    script,    \* the running script, or "none"
    plan,      \* its writes: a sequence for each turn of its loop
    turn, nth, \* the write that it does next: the nth one of the turn
    handlers,  \* tPageHandlerRegistration
    done,      \* history: the script that ended last, unless a file was touched since
    runs, edits

syncVars    == <<rule, source, target, now>>
versionVars == <<package, version, stamp>>
pageVars    == <<out, i18n, handlers>>
inputVars   == <<scripts, edition, usePages, edits>>
scriptVars  == <<script, plan, turn, nth>>
vars == <<inputVars, pageVars, syncVars, versionVars, scriptVars, cut, done, runs>>

-------------------------------------------------------------------------------
(* The course of a script.                                                   *)

Step  == plan[turn][nth]
AtEnd == turn > Len(plan)

\* The write is done.
Proceeds ==
    /\ IF nth < Len(plan[turn]) THEN nth' = nth + 1 /\ UNCHANGED turn
                                ELSE nth' = 1 /\ turn' = turn + 1
    /\ UNCHANGED <<script, plan>>

\* No script runs any more.
Leaves == script' = "none" /\ plan' = <<>> /\ turn' = 1 /\ nth' = 1

-------------------------------------------------------------------------------
(* buildPages.                                                               *)

\* The writes of runBuildPages(): remove the targets, write the preambles, join the pages,
\* register the handlers.
PageSteps(p) ==
    << <<"append", "html", p>>, <<"append", "css", p>>, <<"append", "js", p>> >>
    \o [i \in DOMAIN Languages |-> <<"texts", Languages[i], p>>]
StartSteps ==
    << <<"remove", "html">>, <<"remove", "js">>, <<"remove", "css">>,
       <<"preamble", "html">>, <<"preamble", "js">>, <<"preamble", "css">> >>
BuildSteps(used) ==
    <<StartSteps>> \o [i \in DOMAIN used |-> PageSteps(used[i])] \o << << <<"register", "js">> >> >>

Preamble == <<"preamble", 0>>
Part(p) == <<p, edition[p]>>
NewHandler(p) == IF HandlerOf[p] = NoHandler THEN <<>> ELSE << <<HandlerOf[p], 0>> >>

\* A mutant of Written: the preamble is appended to what is there.
WrittenOnTop(step) ==
    CASE step[1] = "remove"   -> out[step[2]]
      [] step[1] = "preamble" -> Append(out[step[2]], Preamble)
      [] step[1] = "append"   -> Append(out[step[2]], Part(step[3]))
      [] step[1] = "register" -> out["js"] \o handlers

\* removeTargetPages(), prepareAndWritePreamples(), the join functions, the registration.
Written(step) ==
    CASE step[1] = "remove"   -> <<>>
      [] step[1] = "preamble" -> <<Preamble>>
      [] step[1] = "append"   -> Append(out[step[2]], Part(step[3]))
      [] step[1] = "register" -> out["js"] \o handlers

\* A text of the language file that is an array, and what would lie within it.
IsList(l, a) == a \in ListsOf[i18n[l][a][1]][l]
InList(l, a) == \E b \in DOMAIN i18n[l] : Within(a, b) /\ IsList(l, b)

\* mergeSection(): a value takes the place of the section that was there; a section cannot
\* take the place of a string (which has no members to assign: a class throws for it).
Mergeable(l, added) ==
    \A a \in added : \A b \in DOMAIN i18n[l] : Within(a, b) => IsList(l, b)

\* A mutant of Merge: the file of the page replaces the language file.
MergeNothing(l, added, part) == [a \in added |-> part]

\* What is merged into an array becomes a member of it, and JSON.stringify() leaves it out.
Placed(l, added) == {a \in added : ~InList(l, a)}

Merge(l, added, part) ==
    LET placed == Placed(l, added)
        kept   == {b \in DOMAIN i18n[l] : \A a \in placed : ~Within(b, a)}
    IN  [a \in placed \cup kept |-> IF a \in placed THEN part ELSE i18n[l][a]]

\* joinLanguages(), for one language file: one that is unreadable or cannot be merged throws.
JoinTexts ==
    /\ script = "buildPages" /\ ~AtEnd /\ Step[1] = "texts"
    /\ LET f == Step[2] p == Step[3] added == TextsOf[p][f]
       IN  IF f \notin cut /\ Mergeable(f, added)
           THEN /\ i18n' = [i18n EXCEPT ![f] = Merge(f, added, Part(p))]
                /\ Proceeds
                /\ UNCHANGED handlers
           ELSE /\ Leaves
                /\ handlers' = <<>>
                /\ UNCHANGED i18n
    /\ UNCHANGED <<inputVars, out, syncVars, versionVars, cut, done, runs>>

\* Any other write of the build.
BuildStep ==
    /\ script = "buildPages" /\ ~AtEnd /\ Step[1] # "texts"
    /\ LET f == Step[2]
       IN  /\ out' = [out EXCEPT ![f] = Written(Step)]
           /\ handlers' = IF Step[1] = "append" /\ f = "js"
                          THEN handlers \o NewHandler(Step[3]) ELSE handlers
           /\ cut' = cut \ {f}
    /\ Proceeds
    /\ UNCHANGED <<inputVars, i18n, syncVars, versionVars, done, runs>>

-------------------------------------------------------------------------------
(* syncFiles.                                                                *)

\* A mutant of IsNewer: a missing or an older file counts as newer.
IsNewerOrNot(a, b) == a.mtime # b.mtime

IsNewer(a, b) == a.mtime > b.mtime

\* syncFile(): which file is copied over the other?
CopiesTo ==
    CASE rule = "="  -> IF target.mtime = 0 THEN "target" ELSE "neither"
      [] rule = ">"  -> IF IsNewer(source, target) THEN "target" ELSE "neither"
      [] rule = "<"  -> IF IsNewer(target, source) THEN "source" ELSE "neither"
      [] rule = "<>" -> IF IsNewer(source, target) THEN "target"
                        ELSE IF IsNewer(target, source) THEN "source" ELSE "neither"

\* copyFileSync(): the copy gets a new time, and is as whole as what was copied.
SyncStep ==
    /\ script = "syncFiles" /\ ~AtEnd
    /\ Proceeds
    /\ CASE CopiesTo = "target"  -> /\ target' = [source EXCEPT !.mtime = now + 1]
                                    /\ now' = now + 1
                                    /\ cut' = IF "source" \in cut THEN cut \cup {"target"} ELSE cut \ {"target"}
                                    /\ UNCHANGED source
         [] CopiesTo = "source"  -> /\ source' = [target EXCEPT !.mtime = now + 1]
                                    /\ now' = now + 1
                                    /\ cut' = IF "target" \in cut THEN cut \cup {"source"} ELSE cut \ {"source"}
                                    /\ UNCHANGED target
         [] CopiesTo = "neither" -> UNCHANGED <<source, target, now, cut>>
    /\ UNCHANGED <<inputVars, pageVars, rule, versionVars, done, runs>>

-------------------------------------------------------------------------------
(* updateVersionInfos and buildSteps.py.                                     *)

\* A mutant of Raised: what is right of the raised number is kept, one that is raised is not.
RaisedSwapped(v, arg) ==
    CASE arg = "-major" -> <<v[1], v[2] + 1, 0>>
      [] arg = "-minor" -> <<v[1], 0, v[3] + 1>>
      [] arg = "-patch" -> <<v[1], v[2], v[3] + 1>>
      [] arg = "none"   -> v

\* updateProjectPackageFile()
Raised(v, arg) ==
    CASE arg = "-major" -> <<v[1] + 1, 0, 0>>
      [] arg = "-minor" -> <<v[1], v[2] + 1, 0>>
      [] arg = "-patch" -> <<v[1], v[2], v[3] + 1>>
      [] arg = "none"   -> v

\* A new version of the package starts with build 0 (-1, and then ++).
NextBuild(arg) == IF arg = "none" THEN version[4] + 1 ELSE 0

VersionSteps(arg) ==
    (IF arg = "none" THEN <<>> ELSE << <<"raise", {"package"}, arg>> >>)
    \o << <<"number", {"version"}, arg>>, <<"stamp", {"include", "settings"}>> >>
PrebuildSteps == << <<"increment", {"version"}>>, <<"include", {"include"}>> >>

\* settings.js is read before it is written: a line that is lost stays lost.
VersionStep ==
    /\ script \in {"updateVersionInfos", "prebuild"} /\ ~AtEnd
    /\ Proceeds
    /\ \/ /\ Step[1] = "raise"
          /\ package' = Raised(package, Step[3])
          /\ UNCHANGED <<version, stamp, cut>>
       \/ /\ Step[1] = "number"
          /\ version' = package \o <<NextBuild(Step[3])>>
          /\ UNCHANGED <<package, stamp, cut>>
       \/ /\ Step[1] = "increment"
          /\ version' = [version EXCEPT ![4] = @ + 1]
          /\ UNCHANGED <<package, stamp, cut>>
       \/ /\ Step[1] = "stamp"
          /\ stamp' = [stamp EXCEPT !.include = version,
                                    !.settings = IF "settings" \in cut THEN @ ELSE package]
          /\ cut' = cut \ {"include"}
          /\ UNCHANGED <<package, version>>
       \/ /\ Step[1] = "include"
          /\ stamp' = [stamp EXCEPT !.include = version]
          /\ cut' = cut \ {"include"}
          /\ UNCHANGED <<package, version>>
    /\ UNCHANGED <<inputVars, pageVars, syncVars, done, runs>>

-------------------------------------------------------------------------------
(* Starting, ending and stopping a script.                                   *)

Starts(name, steps) ==
    /\ name \in scripts /\ script = "none" /\ runs < MaxRuns
    /\ script' = name /\ plan' = steps /\ turn' = 1 /\ nth' = 1 /\ handlers' = <<>>
    /\ done' = "none" /\ runs' = runs + 1
    /\ UNCHANGED <<inputVars, out, i18n, syncVars, versionVars, cut>>

RunBuildPages == Starts("buildPages", BuildSteps(usePages))
RunSyncFiles  == Starts("syncFiles", << << <<"sync">> >> >>)

\* loadProjectPackageFile() and loadVersionFile(): JSON.parse() throws for a cut file.
RunUpdateVersionInfos ==
    /\ {"package", "version"} \cap cut = {}
    /\ \E arg \in Arguments : Starts("updateVersionInfos", <<VersionSteps(arg)>>)

\* before_build(): each release build counts, whatever package.json says.
RunPrebuild ==
    /\ {"package", "version"} \cap cut = {}
    /\ Starts("prebuild", <<PrebuildSteps>>)

Ends ==
    /\ script # "none" /\ AtEnd
    /\ Leaves /\ done' = script
    /\ UNCHANGED <<inputVars, pageVars, syncVars, versionVars, cut, runs>>

\* The files that the next write opens.
Opened ==
    CASE script = "buildPages" -> {Step[2]}
      [] script = "syncFiles"  -> {CopiesTo} \ {"neither"}
      [] OTHER                 -> Step[2]

\* A file that is removed is not cut by that; the copy that is cut is a new file.
Stops ==
    /\ script # "none" /\ ~AtEnd
    /\ Leaves /\ handlers' = <<>>
    /\ \E files \in SUBSET IF Step[1] = "remove" THEN {} ELSE Opened :
        /\ cut' = cut \cup files
        /\ now' = now + 1
        /\ source' = IF "source" \in files THEN [source EXCEPT !.mtime = now + 1] ELSE source
        /\ target' = IF "target" \in files THEN [target EXCEPT !.mtime = now + 1] ELSE target
    /\ UNCHANGED <<inputVars, out, i18n, rule, versionVars, done, runs>>

-------------------------------------------------------------------------------
(* The developer.                                                            *)

Edits(name) ==
    /\ name \in scripts /\ UNCHANGED scripts
    /\ script = "none" /\ edits < MaxEdits /\ edits' = edits + 1 /\ done' = "none"
Rest  == UNCHANGED <<pageVars, versionVars, scriptVars, runs>>

EditPage ==
    /\ Edits("buildPages") /\ Rest /\ UNCHANGED <<usePages, syncVars, cut>>
    /\ \E p \in Pages : edition' = [edition EXCEPT ![p] = @ + 1]

ChangePages ==
    /\ Edits("buildPages") /\ Rest /\ UNCHANGED <<edition, syncVars, cut>>
    /\ usePages' \in PageLists \ {usePages}

EditSource ==
    /\ Edits("syncFiles") /\ Rest /\ UNCHANGED <<edition, usePages, rule, target>>
    /\ source' = [content |-> edits + 1, mtime |-> now + 1] /\ now' = now + 1
    /\ cut' = cut \ {"source"}

EditTarget ==
    /\ Edits("syncFiles") /\ Rest /\ UNCHANGED <<edition, usePages, rule, source>>
    /\ target' = [content |-> edits + 1, mtime |-> now + 1] /\ now' = now + 1
    /\ cut' = cut \ {"target"}

\* A file that does not work is taken back from the history of the project.
Restore ==
    /\ script = "none" /\ done' = "none"
    /\ \E f \in cut \ (Types \cup {"source", "target"}) : cut' = cut \ {f}
    /\ Rest /\ UNCHANGED <<inputVars, syncVars>>

Init ==
    /\ scripts \in ScriptSets
    /\ edition = [p \in Pages |-> 0]
    /\ usePages \in IF "buildPages" \in scripts THEN PageLists ELSE {<<>>}
    /\ out = [f \in Types |-> <<>>]
    /\ i18n = [l \in AllLanguages |-> [a \in OwnTexts |-> <<"own", 0>>]]
    /\ rule \in IF "syncFiles" \in scripts THEN Rules ELSE {"="}
    /\ source = [content |-> 0, mtime |-> 1] /\ target = [content |-> 0, mtime |-> 0] /\ now = 1
    /\ package = <<1, 1, 1>> /\ version = <<1, 1, 1, 1>>
    /\ stamp = [include |-> version, settings |-> package]
    /\ cut = {} /\ script = "none" /\ plan = <<>> /\ turn = 1 /\ nth = 1 /\ handlers = <<>>
    /\ done = "none" /\ runs = 0 /\ edits = 0

Next ==
    \/ RunBuildPages \/ RunSyncFiles \/ RunUpdateVersionInfos \/ RunPrebuild
    \/ JoinTexts \/ BuildStep \/ SyncStep \/ VersionStep \/ Ends \/ Stops
    \/ EditPage \/ ChangePages \/ EditSource \/ EditTarget \/ Restore

Spec == Init /\ [][Next]_vars

-------------------------------------------------------------------------------
(* Properties.                                                               *)

Handlers(used) == FlattenSeq([i \in DOMAIN used |-> NewHandler(used[i])])
Joined(used) == <<Preamble>> \o [i \in DOMAIN used |-> Part(used[i])]

\* The page whose text wins: the last one of the list that has it, or has something around it.
Wins(l, i, a) ==
    /\ a \in TextsOf[usePages[i]][l]
    /\ \A j \in i + 1 .. Len(usePages) :
        \A b \in TextsOf[usePages[j]][l] : b # a /\ ~Within(a, b) /\ ~Within(b, a)

\* It stands in the language file.  The exception is a text whose section meets an array: the
\* build goes on and leaves it out.
Stands(l, i, a) ==
    /\ l \notin cut
    /\ \/ InList(l, a)
       \/ a \in DOMAIN i18n[l] /\ i18n[l][a] = Part(usePages[i])

\* What is built when a script has come to its end: each page once, in order, and the handlers
\* that its code registers (index.js calls them by these names), and every text that is not
\* within an array of the file,
PagesAreComplete ==
    /\ out = [f \in Types |-> IF f = "js" THEN Joined(usePages) \o Handlers(usePages)
                              ELSE Joined(usePages)]
    /\ cut \cap Types = {}
    /\ \A l \in AllLanguages : \A i \in DOMAIN usePages : \A a \in Texts :
        Wins(l, i, a) => Stands(l, i, a)

\* the copy that the rule asks for,
SyncIsComplete ==
    /\ rule = "=" => target.mtime > 0
    /\ rule = ">" => "target" \in cut \/ target.content >= source.content
    /\ rule = "<>" => source.content = target.content

\* one version in all files.
VersionsAreComplete ==
    /\ SubSeq(version, 1, 3) = package /\ stamp.include = version
    /\ "settings" \notin cut => stamp.settings = package
    /\ {"package", "version", "include"} \cap cut = {}

\* A script that came to its end has built what the files of the developer say, wherever the
\* scripts before it were stopped.  runBuildPages(), syncFile(), the main part of
\* updateVersionInfos.js.
DoneIsComplete ==
    /\ done = "buildPages" => PagesAreComplete
    /\ done = "syncFiles" => SyncIsComplete
    /\ done = "updateVersionInfos" => VersionsAreComplete

\* No script takes a text from a language file that its pages do not replace, and none
\* writes over a file that it could not read as if it were empty.  joinLanguages().
TextsStay ==
    [][\A l \in AllLanguages :
        /\ i18n'[l] # i18n[l] => l \notin cut
        /\ \A a \in DOMAIN i18n[l] : a \in DOMAIN i18n'[l] \/ \E b \in DOMAIN i18n'[l] : Within(a, b)]_vars

Less(v, w) == \E i \in 1..4 : v[i] < w[i] /\ \A j \in 1..(i - 1) : v[j] = w[j]

\* A version number is given once: each that is written is above all before it, whichever
\* script writes it, and also when a script was stopped between package.json and
\* version.json.  updateVersionFile(), before_build().
VersionsIncrease == [][version' # version => Less(version, version')]_vars

Contents == {source.content, target.content}

\* Synchronising never loses the newest edit of the two files, and a rule of one direction
\* never writes into its origin, also when a copy was cut.  (With "<>" a cut copy is newer
\* than its origin, and is copied back over it.)  syncFile().
NewestIsKept ==
    [][script = "syncFiles" =>
        /\ (rule # "<>" \/ cut \cap {"source", "target"} = {}) =>
              \E c \in {source'.content, target'.content} : \A d \in Contents : c >= d
        /\ rule \in {"=", ">"} => source' = source
        /\ rule = "<" => target' = target]_vars
===============================================================================
