---------------------------- MODULE WebBuildProofs ----------------------------
(***************************************************************************)
(* Proofs about the build scripts: for any pages, texts and languages, any  *)
(* lists of pages, any rule of a pair of files and any number of edits and  *)
(* of scripts that are stopped between or within their writes.             *)
(***************************************************************************)
EXTENDS WebBuild, SequenceTheorems, FiniteSetTheorems, TLAPS

-------------------------------------------------------------------------------
(* The writes of the scripts.                                                *)

Sequence(s) == \E S : s \in Seq(S)

\* Sequence u is s, and then t.
Joins(s, t, u) ==
    /\ Len(u) = Len(s) + Len(t)
    /\ \A i \in 1..Len(s) : u[i] = s[i]
    /\ \A i \in 1..Len(t) : u[Len(s) + i] = t[i]

\* Two sequences, of any elements, one after the other.
LEMMA JoinedSeq ==
    ASSUME NEW s, NEW t, Sequence(s), Sequence(t)
    PROVE  Sequence(s \o t) /\ Joins(s, t, s \o t)
<1>1. PICK S : s \in Seq(S)
  BY DEF Sequence
<1>2. PICK T : t \in Seq(T)
  BY DEF Sequence
<1>3. s \in Seq(S \cup T) /\ t \in Seq(S \cup T)
  BY <1>1, <1>2
<1>4. s \o t \in Seq(S \cup T)
  BY <1>3
<1>. QED  BY <1>3, <1>4 DEF Sequence, Joins

\* A sequence that is given by a function on the places of another one.
LEMMA MappedSeq ==
    ASSUME NEW s, Sequence(s), NEW F, F = [i \in DOMAIN s |-> F[i]]
    PROVE  Sequence(F) /\ Len(F) = Len(s)
<1>1. DOMAIN s = 1..Len(s) /\ Len(s) \in Nat
  BY DEF Sequence
<1>2. F \in Seq({F[i] : i \in 1..Len(s)}) /\ Len(F) = Len(s)
  BY <1>1
<1>. QED  BY <1>2 DEF Sequence

\* The writes for one page: three files, and then the languages.
LEMMA PageStepsAre ==
    ASSUME NEW p
    PROVE  /\ Len(PageSteps(p)) = 3 + Len(Languages) /\ Len(Languages) \in Nat
           /\ PageSteps(p)[1] = <<"append", "html", p>>
           /\ PageSteps(p)[2] = <<"append", "css", p>>
           /\ PageSteps(p)[3] = <<"append", "js", p>>
           /\ \A q \in 1..Len(Languages) : PageSteps(p)[3 + q] = <<"texts", Languages[q], p>>
<1>. DEFINE appends == << <<"append", "html", p>>, <<"append", "css", p>>, <<"append", "js", p>> >>
            texts   == [i \in DOMAIN Languages |-> <<"texts", Languages[i], p>>]
<1>1. Languages \in Seq(AllLanguages)
  BY BuildAssumption
<1>2. /\ DOMAIN Languages = 1..Len(Languages) /\ Len(Languages) \in Nat /\ Sequence(Languages)
  BY <1>1 DEF Sequence
<1>3. Sequence(texts) /\ Len(texts) = Len(Languages)
  <2>1. texts = [i \in DOMAIN Languages |-> texts[i]]
    OBVIOUS
  <2>. HIDE DEF texts
  <2>. QED  BY <1>2, <2>1, MappedSeq
<1>4. Sequence(appends) /\ Len(appends) = 3
  <2>1. appends \in Seq({appends[1], appends[2], appends[3]}) /\ Len(appends) = 3
    OBVIOUS
  <2>. QED  BY <2>1 DEF Sequence
<1>5. PageSteps(p) = appends \o texts
  BY DEF PageSteps
<1>6. \A q \in 1..Len(Languages) : texts[q] = <<"texts", Languages[q], p>>
  BY <1>2
<1>7. appends[1] = <<"append", "html", p>> /\ appends[2] = <<"append", "css", p>>
      /\ appends[3] = <<"append", "js", p>>
  OBVIOUS
<1>. HIDE DEF appends, texts
<1>8. Joins(appends, texts, PageSteps(p))
  BY <1>3, <1>4, <1>5, JoinedSeq
<1>9. /\ PageSteps(p)[1] = appends[1] /\ PageSteps(p)[2] = appends[2] /\ PageSteps(p)[3] = appends[3]
  BY <1>4, <1>8 DEF Joins
<1>. QED  BY <1>2, <1>3, <1>4, <1>6, <1>7, <1>8, <1>9 DEF Joins

\* The turns of a build: the start, one for each page, and the registration.
LEMMA BuildStepsAre ==
    ASSUME NEW used \in Seq(Pages)
    PROVE  /\ Len(BuildSteps(used)) = Len(used) + 2
           /\ BuildSteps(used)[1] = StartSteps
           /\ \A t \in 2..(Len(used) + 1) : BuildSteps(used)[t] = PageSteps(used[t - 1])
           /\ BuildSteps(used)[Len(used) + 2] = << <<"register", "js">> >>
<1>. DEFINE first == <<StartSteps>>
            pages == [i \in DOMAIN used |-> PageSteps(used[i])]
            last  == << << <<"register", "js">> >> >>
            n     == Len(used)
<1>1. DOMAIN used = 1..n /\ n \in Nat /\ Sequence(used)
  BY DEF Sequence
<1>2. Sequence(pages) /\ Len(pages) = n
  <2>1. pages = [i \in DOMAIN used |-> pages[i]]
    OBVIOUS
  <2>. HIDE DEF pages
  <2>. QED  BY <1>1, <2>1, MappedSeq
<1>3. Sequence(first) /\ Len(first) = 1 /\ first[1] = StartSteps
  <2>1. first \in Seq({StartSteps}) /\ Len(first) = 1 /\ first[1] = StartSteps
    OBVIOUS
  <2>. QED  BY <2>1 DEF Sequence
<1>4. Sequence(last) /\ Len(last) = 1 /\ last[1] = << <<"register", "js">> >>
  <2>1. last \in Seq({last[1]}) /\ Len(last) = 1 /\ last[1] = << <<"register", "js">> >>
    OBVIOUS
  <2>. QED  BY <2>1 DEF Sequence
<1>5. BuildSteps(used) = (first \o pages) \o last
  BY DEF BuildSteps
<1>6. \A i \in 1..n : pages[i] = PageSteps(used[i])
  BY <1>1
<1>. HIDE DEF first, pages, last, n
<1>7. Sequence(first \o pages) /\ Joins(first, pages, first \o pages)
  BY <1>2, <1>3, JoinedSeq
<1>8. Joins(first \o pages, last, BuildSteps(used))
  BY <1>4, <1>5, <1>7, JoinedSeq
<1>9. ASSUME NEW t \in 2..(n + 1) PROVE BuildSteps(used)[t] = PageSteps(used[t - 1])
  <2>1. t - 1 \in 1..n /\ t \in 1..(1 + n) /\ 1 + (t - 1) = t
    BY <1>1
  <2>2. (first \o pages)[t] = pages[t - 1] /\ Len(first \o pages) = 1 + n
    BY <1>2, <1>3, <1>7, <2>1 DEF Joins
  <2>3. BuildSteps(used)[t] = (first \o pages)[t]
    BY <1>8, <2>1, <2>2 DEF Joins
  <2>. QED  BY <1>6, <2>1, <2>2, <2>3
<1>10. /\ Len(BuildSteps(used)) = n + 2
       /\ BuildSteps(used)[1] = StartSteps
       /\ BuildSteps(used)[n + 2] = << <<"register", "js">> >>
  <2>1. 1 \in 1..1 /\ 1 \in 1..(1 + n) /\ (1 + n) + 1 = n + 2
    BY <1>1
  <2>2. Len(first \o pages) = 1 + n /\ (first \o pages)[1] = first[1]
    BY <1>2, <1>3, <1>7, <2>1 DEF Joins
  <2>3. BuildSteps(used)[1] = first[1] /\ BuildSteps(used)[n + 2] = last[1]
    BY <1>4, <1>8, <2>1, <2>2 DEF Joins
  <2>4. Len(BuildSteps(used)) = n + 2
    BY <1>4, <1>8, <2>1, <2>2 DEF Joins
  <2>. QED  BY <1>3, <1>4, <2>3, <2>4
<1>. QED  BY <1>9, <1>10 DEF n

\* The writes of updateVersionInfos.
LEMMA VersionStepsAre ==
    ASSUME NEW arg
    PROVE  /\ arg = "none" => /\ Len(VersionSteps(arg)) = 2
                              /\ VersionSteps(arg)[1] = <<"number", {"version"}, arg>>
                              /\ VersionSteps(arg)[2] = <<"stamp", {"include", "settings"}>>
           /\ arg # "none" => /\ Len(VersionSteps(arg)) = 3
                              /\ VersionSteps(arg)[1] = <<"raise", {"package"}, arg>>
                              /\ VersionSteps(arg)[2] = <<"number", {"version"}, arg>>
                              /\ VersionSteps(arg)[3] = <<"stamp", {"include", "settings"}>>
<1>. DEFINE raise == << <<"raise", {"package"}, arg>> >>
            rest  == << <<"number", {"version"}, arg>>, <<"stamp", {"include", "settings"}>> >>
<1>1. Sequence(raise) /\ Len(raise) = 1
  <2>1. raise \in Seq({raise[1]}) /\ Len(raise) = 1
    OBVIOUS
  <2>. QED  BY <2>1 DEF Sequence
<1>2. Sequence(rest) /\ Len(rest) = 2
  <2>1. rest \in Seq({rest[1], rest[2]}) /\ Len(rest) = 2
    OBVIOUS
  <2>. QED  BY <2>1 DEF Sequence
<1>3. Sequence(<<>>) /\ Len(<<>>) = 0
  <2>1. <<>> \in Seq({}) /\ Len(<<>>) = 0
    OBVIOUS
  <2>. QED  BY <2>1 DEF Sequence
<1>4. raise[1] = <<"raise", {"package"}, arg>> /\ rest[1] = <<"number", {"version"}, arg>>
      /\ rest[2] = <<"stamp", {"include", "settings"}>>
  OBVIOUS
<1>5. /\ arg = "none" => VersionSteps(arg) = <<>> \o rest
      /\ arg # "none" => VersionSteps(arg) = raise \o rest
  BY Zenon DEF VersionSteps
<1>. HIDE DEF raise, rest
<1>6. CASE arg = "none"
  <2>1. Joins(<<>>, rest, VersionSteps(arg))
    BY <1>2, <1>3, <1>5, <1>6, JoinedSeq
  <2>. QED  BY <1>2, <1>3, <1>4, <1>6, <2>1 DEF Joins
<1>7. CASE arg # "none"
  <2>1. Joins(raise, rest, VersionSteps(arg))
    BY <1>1, <1>2, <1>5, <1>7, JoinedSeq
  <2>. QED  BY <1>1, <1>2, <1>4, <1>7, <2>1 DEF Joins
<1>. QED  BY <1>6, <1>7

\* The writes before a release is built.
LEMMA PrebuildStepsAre ==
    /\ Len(PrebuildSteps) = 2
    /\ PrebuildSteps[1] = <<"increment", {"version"}>>
    /\ PrebuildSteps[2] = <<"include", {"include"}>>
BY DEF PrebuildSteps

\* The writes with which a build starts.
LEMMA StartStepsAre ==
    /\ Len(StartSteps) = 6
    /\ StartSteps[1] = <<"remove", "html">>   /\ StartSteps[2] = <<"remove", "js">>
    /\ StartSteps[3] = <<"remove", "css">>    /\ StartSteps[4] = <<"preamble", "html">>
    /\ StartSteps[5] = <<"preamble", "js">>   /\ StartSteps[6] = <<"preamble", "css">>
BY DEF StartSteps

-------------------------------------------------------------------------------
(* The course of a script: it does the writes of its plan, and no others.    *)

\* The plan that a script has, for pages used.
IsPlan(name, steps, used) ==
    /\ name = "buildPages" => steps = BuildSteps(used)
    /\ name = "syncFiles" => steps = << << <<"sync">> >> >>
    /\ name = "updateVersionInfos" => \E arg \in Arguments : steps = <<VersionSteps(arg)>>
    /\ name = "prebuild" => steps = <<PrebuildSteps>>
    /\ name \in {"buildPages", "syncFiles", "updateVersionInfos", "prebuild"}

\* The plan is the one of the running script.
PlanInv ==
    /\ usePages \in Seq(Pages)
    /\ script # "none" => IsPlan(script, plan, usePages)

\* Its next write is in the plan, until it is at the end.
PlaceInv ==
    script # "none" =>
        /\ done = "none"
        /\ turn \in 1..(Len(plan) + 1)
        /\ turn \in 1..Len(plan) => nth \in 1..Len(plan[turn])
        /\ turn = Len(plan) + 1 => nth = 1

CourseInv == PlanInv /\ PlaceInv

\* No turn is without a write.
LEMMA TurnsAreWrites ==
    ASSUME NEW name, NEW steps, NEW used \in Seq(Pages), IsPlan(name, steps, used)
    PROVE  Len(steps) \in Nat \ {0} /\ \A t \in 1..Len(steps) : Len(steps[t]) \in Nat \ {0}
<1>1. CASE name = "buildPages"
  <2>1. steps = BuildSteps(used) /\ Len(used) \in Nat
    BY <1>1 DEF IsPlan
  <2>2. Len(steps) = Len(used) + 2
    BY <2>1, BuildStepsAre
  <2>3. Len(steps[1]) = 6
    BY <2>1, BuildStepsAre, StartStepsAre
  <2>4. Len(steps[Len(used) + 2]) = 1
    <3>1. steps[Len(used) + 2] = << <<"register", "js">> >>
      BY <2>1, BuildStepsAre
    <3>. QED  BY <3>1
  <2>5. ASSUME NEW t \in 2..(Len(used) + 1) PROVE Len(steps[t]) \in Nat \ {0}
    <3>1. steps[t] = PageSteps(used[t - 1])
      BY <2>1, BuildStepsAre
    <3>2. Len(steps[t]) = 3 + Len(Languages) /\ Len(Languages) \in Nat
      BY <3>1, PageStepsAre
    <3>. QED  BY <3>2
  <2>6. ASSUME NEW t \in 1..Len(steps) PROVE Len(steps[t]) \in Nat \ {0}
    <3>1. t = 1 \/ t = Len(used) + 2 \/ t \in 2..(Len(used) + 1)
      BY <2>1, <2>2
    <3>2. CASE t = 1
      <4>1. Len(steps[t]) = 6
        BY <2>3, <3>2, Zenon
      <4>2. 6 \in Nat \ {0}
        BY SMTT(30)
      <4>. QED  BY <4>1, <4>2, Zenon
    <3>3. CASE t = Len(used) + 2
      <4>1. Len(steps[t]) = 1
        BY <2>4, <3>3, Zenon
      <4>2. 1 \in Nat \ {0}
        BY SMTT(30)
      <4>. QED  BY <4>1, <4>2, Zenon
    <3>. QED  BY <2>5, <3>1, <3>2, <3>3
  <2>. QED  BY <2>1, <2>2, <2>6
<1>2. CASE name = "syncFiles"
  <2>1. steps = << << <<"sync">> >> >>
    BY <1>2 DEF IsPlan
  <2>2. Len(steps) = 1 /\ Len(steps[1]) = 1
    BY <2>1
  <2>3. ASSUME NEW t \in 1..1 PROVE Len(steps[t]) \in Nat \ {0}
    <3>1. t = 1
      OBVIOUS
    <3>2. Len(steps[1]) \in Nat \ {0}
      BY <2>2
    <3>. QED  BY <3>1, <3>2, Zenon
  <2>4. Len(steps) \in Nat \ {0} /\ 1..Len(steps) = 1..1
    BY <2>2
  <2>. QED  BY <2>3, <2>4
<1>3. CASE name = "updateVersionInfos"
  <2>1. PICK arg \in Arguments : steps = <<VersionSteps(arg)>>
    BY <1>3 DEF IsPlan
  <2>2. Len(VersionSteps(arg)) \in {2, 3}
    BY VersionStepsAre
  <2>. QED  BY <2>1, <2>2
<1>4. CASE name = "prebuild"
  <2>1. Len(steps) = 1 /\ steps[1] = PrebuildSteps
    BY <1>4 DEF IsPlan
  <2>2. Len(steps[1]) = 2
    BY <2>1, PrebuildStepsAre
  <2>. QED  BY <2>1, <2>2
<1>. QED  BY <1>1, <1>2, <1>3, <1>4 DEF IsPlan

\* A write moves the script on.
LEMMA ProceedsKeepsPlace ==
    ASSUME CourseInv, script # "none", ~AtEnd, Proceeds, usePages' = usePages, done' = done
    PROVE  CourseInv'
<1>1. script' = script /\ plan' = plan
  BY DEF Proceeds
<1>2. PlanInv'
  BY <1>1 DEF CourseInv, PlanInv
<1>3. Len(plan) \in Nat \ {0} /\ \A t \in 1..Len(plan) : Len(plan[t]) \in Nat \ {0}
  BY TurnsAreWrites DEF CourseInv, PlanInv
<1>4. turn \in 1..Len(plan)
  BY <1>3 DEF CourseInv, PlaceInv, AtEnd
<1>5. nth \in 1..Len(plan[turn])
  BY <1>4 DEF CourseInv, PlaceInv
<1>6. CASE nth < Len(plan[turn])
  <2>1. nth' = nth + 1 /\ turn' = turn
    BY <1>6 DEF Proceeds
  <2>2. nth + 1 \in 1..Len(plan[turn]) /\ turn # Len(plan) + 1
    BY <1>3, <1>4, <1>5, <1>6
  <2>. QED  BY <1>1, <1>2, <1>4, <2>1, <2>2 DEF CourseInv, PlaceInv
<1>7. CASE ~(nth < Len(plan[turn]))
  <2>1. nth' = 1 /\ turn' = turn + 1
    BY <1>7 DEF Proceeds
  <2>2. turn + 1 \in 1..(Len(plan) + 1)
    BY <1>3, <1>4
  <2>3. turn + 1 \in 1..Len(plan) => 1 \in 1..Len(plan[turn + 1])
    BY <1>3
  <2>. QED  BY <1>1, <1>2, <2>1, <2>2, <2>3 DEF CourseInv, PlaceInv
<1>. QED  BY <1>6, <1>7

\* What a step does to the course of the scripts.
LEMMA CourseOfStep ==
    ASSUME [Next]_vars
    PROVE  \/ /\ script # "none" /\ ~AtEnd /\ Proceeds /\ UNCHANGED <<usePages, done, runs, edits>>
           \/ /\ script # "none" /\ Leaves /\ UNCHANGED usePages
              /\ \/ done' = done
                 \/ AtEnd /\ done' = script /\ UNCHANGED <<inputVars, pageVars, syncVars, versionVars, cut>>
           \/ RunBuildPages \/ RunSyncFiles \/ RunUpdateVersionInfos \/ RunPrebuild
           \/ script = "none" /\ done' = "none" /\ UNCHANGED <<scriptVars, usePages>>
           \/ ChangePages
           \/ UNCHANGED vars
<1>1. CASE JoinTexts
  BY <1>1 DEF JoinTexts, inputVars
<1>2. CASE BuildStep
  BY <1>2 DEF BuildStep, inputVars
<1>3. CASE SyncStep
  BY <1>3 DEF SyncStep, inputVars
<1>4. CASE VersionStep
  BY <1>4 DEF VersionStep, inputVars
<1>5. CASE Ends
  BY <1>5 DEF Ends, inputVars
<1>6. CASE Stops
  BY <1>6 DEF Stops, inputVars
<1>7. CASE EditPage \/ EditSource \/ EditTarget \/ Restore
  BY <1>7 DEF EditPage, EditSource, EditTarget, Restore, Edits, Rest, inputVars, scriptVars
<1>. QED  BY <1>1, <1>2, <1>3, <1>4, <1>5, <1>6, <1>7 DEF Next

LEMMA CourseStep == ASSUME CourseInv, [Next]_vars PROVE CourseInv'
<1>1. CASE script # "none" /\ ~AtEnd /\ Proceeds /\ UNCHANGED <<usePages, done, runs, edits>>
  BY <1>1, ProceedsKeepsPlace
<1>2. CASE Leaves /\ UNCHANGED usePages
  BY <1>2 DEF Leaves, CourseInv, PlanInv, PlaceInv
<1>3. ASSUME NEW name \in {"buildPages", "syncFiles", "updateVersionInfos", "prebuild"},
             NEW steps, Starts(name, steps), IsPlan(name, steps, usePages)
      PROVE  CourseInv'
  <2>1. script' = name /\ plan' = steps /\ turn' = 1 /\ nth' = 1 /\ done' = "none" /\ usePages' = usePages
    BY <1>3 DEF Starts, inputVars
  <2>2. PlanInv'
    BY <1>3, <2>1 DEF CourseInv, PlanInv
  <2>3. Len(plan') \in Nat \ {0} /\ \A t \in 1..Len(plan') : Len(plan'[t]) \in Nat \ {0}
    BY <1>3, <2>1, TurnsAreWrites DEF CourseInv, PlanInv
  <2>. QED  BY <2>1, <2>2, <2>3 DEF CourseInv, PlaceInv
<1>4. CASE RunBuildPages
  BY <1>3, <1>4 DEF RunBuildPages, IsPlan
<1>5. CASE RunSyncFiles
  BY <1>3, <1>5 DEF RunSyncFiles, IsPlan
<1>6. CASE RunUpdateVersionInfos
  BY <1>3, <1>6 DEF RunUpdateVersionInfos, IsPlan
<1>7. CASE RunPrebuild
  BY <1>3, <1>7 DEF RunPrebuild, IsPlan
<1>8. CASE script = "none" /\ done' = "none" /\ UNCHANGED <<scriptVars, usePages>>
  BY <1>8 DEF CourseInv, PlanInv, PlaceInv, scriptVars
<1>9. CASE ChangePages
  <2>1. script = "none" /\ script' = script /\ usePages' \in PageLists
    BY <1>9 DEF ChangePages, Edits, Rest, scriptVars
  <2>2. usePages' \in Seq(Pages)
    BY <2>1, BuildAssumption
  <2>. QED  BY <2>1, <2>2 DEF CourseInv, PlanInv, PlaceInv
<1>10. CASE UNCHANGED vars
  BY <1>10 DEF vars, inputVars, scriptVars, CourseInv, PlanInv, PlaceInv
<1>. QED  BY <1>1, <1>2, <1>4, <1>5, <1>6, <1>7, <1>8, <1>9, <1>10, CourseOfStep

LEMMA CourseInit == Init => CourseInv
<1>. SUFFICES ASSUME Init PROVE CourseInv
  OBVIOUS
<1>1. script = "none" /\ (usePages \in PageLists \/ usePages = <<>>)
  BY DEF Init
<1>2. usePages \in Seq(Pages)
  <2>1. <<>> \in Seq(Pages)
    OBVIOUS
  <2>2. usePages \in PageLists => usePages \in Seq(Pages)
    BY BuildAssumption
  <2>. QED  BY <1>1, <2>1, <2>2
<1>. QED  BY <1>1, <1>2 DEF CourseInv, PlanInv, PlaceInv

-------------------------------------------------------------------------------
(* The version numbers.                                                      *)

\* Version v, of three numbers, is below w.
Below(v, w) == \/ v[1] < w[1]
               \/ v[1] = w[1] /\ v[2] < w[2]
               \/ v[1] = w[1] /\ v[2] = w[2] /\ v[3] < w[3]

SameNumbers == version[1] = package[1] /\ version[2] = package[2] /\ version[3] = package[3]

\* data/version.json is never ahead of package.json.
NumbersInv ==
    /\ package \in Seq(Nat) /\ Len(package) = 3
    /\ version \in Seq(Nat) /\ Len(version) = 4
    /\ stamp \in [include : Seq(Nat), settings : Seq(Nat)]
    /\ SameNumbers \/ Below(version, package)

\* The turn in which updateVersionInfos writes data/version.json.
NumberTurn(arg) == IF arg = "none" THEN 1 ELSE 2

\* What updateVersionInfos has written so far.
UpdateInv ==
    \A arg \in Arguments : script = "updateVersionInfos" /\ plan = <<VersionSteps(arg)>> =>
        /\ {"package", "version"} \cap cut = {}
        /\ turn = 1 /\ nth = NumberTurn(arg) /\ arg # "none" => Below(version, package)
        /\ turn = 1 /\ nth > NumberTurn(arg) => SameNumbers
        /\ turn = 2 => VersionsAreComplete

VersionsInv ==
    /\ NumbersInv
    /\ UpdateInv
    /\ done = "updateVersionInfos" => VersionsAreComplete

\* The writes of updateVersionInfos and of the pre-build step, one by one.
Raise(arg) ==
    /\ script = "updateVersionInfos" /\ plan = <<VersionSteps(arg)>> /\ arg # "none"
    /\ turn = 1 /\ nth = 1 /\ turn' = 1 /\ nth' = 2
    /\ package' = Raised(package, arg) /\ UNCHANGED <<version, stamp, cut>>
Number(arg) ==
    /\ script = "updateVersionInfos" /\ plan = <<VersionSteps(arg)>>
    /\ turn = 1 /\ nth = NumberTurn(arg) /\ turn' = 1 /\ nth' = nth + 1
    /\ version' = package \o <<NextBuild(arg)>> /\ UNCHANGED <<package, stamp, cut>>
Stamp(arg) ==
    /\ script = "updateVersionInfos" /\ plan = <<VersionSteps(arg)>>
    /\ turn = 1 /\ nth = NumberTurn(arg) + 1 /\ turn' = 2 /\ nth' = 1
    /\ stamp' = [stamp EXCEPT !.include = version,
                              !.settings = IF "settings" \in cut THEN @ ELSE package]
    /\ cut' = cut \ {"include"} /\ UNCHANGED <<package, version>>
Increment ==
    /\ script = "prebuild"
    /\ version' = [version EXCEPT ![4] = @ + 1] /\ UNCHANGED <<package, stamp, cut>>
Include ==
    /\ script = "prebuild"
    /\ stamp' = [stamp EXCEPT !.include = version]
    /\ cut' = cut \ {"include"} /\ UNCHANGED <<package, version>>

\* A write changes what its name says.
LEMMA VersionWriteIs ==
    ASSUME VersionStep
    PROVE  /\ Step[1] = "raise" => package' = Raised(package, Step[3]) /\ UNCHANGED <<version, stamp, cut>>
           /\ Step[1] = "number" => /\ version' = package \o <<NextBuild(Step[3])>>
                                    /\ UNCHANGED <<package, stamp, cut>>
           /\ Step[1] = "increment" => /\ version' = [version EXCEPT ![4] = @ + 1]
                                       /\ UNCHANGED <<package, stamp, cut>>
           /\ Step[1] = "stamp" =>
                /\ stamp' = [stamp EXCEPT !.include = version,
                                          !.settings = IF "settings" \in cut THEN @ ELSE package]
                /\ cut' = cut \ {"include"} /\ UNCHANGED <<package, version>>
           /\ Step[1] = "include" => /\ stamp' = [stamp EXCEPT !.include = version]
                                     /\ cut' = cut \ {"include"} /\ UNCHANGED <<package, version>>
<1>1. Step[1] \in {"raise", "number", "increment", "stamp", "include"}
  BY DEF VersionStep
<1>2. CASE Step[1] = "raise"
  BY <1>2 DEF VersionStep
<1>3. CASE Step[1] = "number"
  BY <1>3 DEF VersionStep
<1>4. CASE Step[1] = "increment"
  BY <1>4 DEF VersionStep
<1>5. CASE Step[1] = "stamp"
  BY <1>5 DEF VersionStep
<1>6. CASE Step[1] = "include"
  BY <1>6 DEF VersionStep
<1>. QED  BY <1>1, <1>2, <1>3, <1>4, <1>5, <1>6

\* There are no others.
LEMMA VersionWrites ==
    ASSUME CourseInv, VersionStep
    PROVE  /\ UNCHANGED <<script, plan, done>>
           /\ \/ \E arg \in Arguments : Raise(arg) \/ Number(arg) \/ Stamp(arg)
              \/ Increment \/ Include
<1>1. UNCHANGED <<script, plan, done>>
  BY DEF VersionStep, Proceeds
<1>2. CASE script = "updateVersionInfos"
  <2>1. PICK arg \in Arguments : plan = <<VersionSteps(arg)>>
    BY <1>2 DEF CourseInv, PlanInv, IsPlan
  <2>2. Len(plan) = 1 /\ plan[1] = VersionSteps(arg)
    BY <2>1
  <2>3. turn = 1
    BY <1>2, <2>2 DEF VersionStep, AtEnd, CourseInv, PlaceInv
  <2>4. nth \in 1..Len(VersionSteps(arg)) /\ Step = VersionSteps(arg)[nth]
    BY <1>2, <2>2, <2>3 DEF CourseInv, PlaceInv, Step
  <2>5. IF nth < Len(VersionSteps(arg)) THEN nth' = nth + 1 /\ turn' = 1 ELSE nth' = 1 /\ turn' = 2
    BY <2>2, <2>3 DEF VersionStep, Proceeds
  <2>6. CASE arg = "none"
    <3>9. Len(VersionSteps(arg)) = 2
      BY <2>6, VersionStepsAre
    <3>1. \/ nth = 1 /\ Step = <<"number", {"version"}, arg>>
          \/ nth = 2 /\ Step = <<"stamp", {"include", "settings"}>>
      BY <2>4, <2>6, VersionStepsAre
    <3>2. CASE nth = 1 /\ Step = <<"number", {"version"}, arg>>
      <4>1. Step[1] = "number" /\ Step[3] = arg
        BY <3>2
      <4>2. turn' = 1 /\ nth' = nth + 1
        BY <2>5, <3>9, <3>2
      <4>3. version' = package \o <<NextBuild(arg)>> /\ UNCHANGED <<package, stamp, cut>>
        BY <4>1, VersionWriteIs, Zenon
      <4>4. nth = NumberTurn(arg)
        BY <2>6, <3>2, <4>2 DEF NumberTurn
      <4>5. Number(arg)
        BY <1>2, <2>1, <2>3, <2>6, <3>2, <4>2, <4>3, <4>4, Zenon DEF Number
      <4>. QED  BY <1>1, <4>5, Zenon
    <3>3. CASE nth = 2 /\ Step = <<"stamp", {"include", "settings"}>>
      <4>1. Step[1] = "stamp"
        BY <3>3
      <4>2. turn' = 2 /\ nth' = 1
        BY <2>5, <3>9, <3>3
      <4>3. /\ stamp' = [stamp EXCEPT !.include = version,
                                    !.settings = IF "settings" \in cut THEN @ ELSE package]
            /\ cut' = cut \ {"include"} /\ UNCHANGED <<package, version>>
        BY <4>1, VersionWriteIs, Zenon
      <4>4. nth = NumberTurn(arg) + 1
        BY <2>6, <3>3, <4>2 DEF NumberTurn
      <4>5. Stamp(arg)
        BY <1>2, <2>1, <2>3, <2>6, <3>3, <4>2, <4>3, <4>4, Zenon DEF Stamp
      <4>. QED  BY <1>1, <4>5, Zenon
    <3>. QED  BY <3>1, <3>2, <3>3
  <2>7. CASE arg # "none"
    <3>9. Len(VersionSteps(arg)) = 3
      BY <2>7, VersionStepsAre
    <3>1. \/ nth = 1 /\ Step = <<"raise", {"package"}, arg>>
          \/ nth = 2 /\ Step = <<"number", {"version"}, arg>>
          \/ nth = 3 /\ Step = <<"stamp", {"include", "settings"}>>
      <4>1. nth = 1 \/ nth = 2 \/ nth = 3
        BY <2>4, <2>7, VersionStepsAre
      <4>2. CASE nth = 1
        BY <2>4, <2>7, <4>2, VersionStepsAre
      <4>3. CASE nth = 2
        BY <2>4, <2>7, <4>3, VersionStepsAre
      <4>4. CASE nth = 3
        BY <2>4, <2>7, <4>4, VersionStepsAre
      <4>. QED  BY <4>1, <4>2, <4>3, <4>4
    <3>2. CASE nth = 1 /\ Step = <<"raise", {"package"}, arg>>
      <4>1. Step[1] = "raise" /\ Step[3] = arg
        BY <3>2
      <4>2. turn' = 1 /\ nth' = nth + 1
        BY <2>5, <3>9, <3>2
      <4>3. package' = Raised(package, arg) /\ UNCHANGED <<version, stamp, cut>>
        BY <4>1, VersionWriteIs, Zenon
      <4>4. nth' = 2
        BY <2>7, <3>2, <4>2 DEF NumberTurn
      <4>5. Raise(arg)
        BY <1>2, <2>1, <2>3, <2>7, <3>2, <4>2, <4>3, <4>4, Zenon DEF Raise
      <4>. QED  BY <1>1, <4>5, Zenon
    <3>3. CASE nth = 2 /\ Step = <<"number", {"version"}, arg>>
      <4>1. Step[1] = "number" /\ Step[3] = arg
        BY <3>3
      <4>2. turn' = 1 /\ nth' = nth + 1
        BY <2>5, <3>9, <3>3
      <4>3. version' = package \o <<NextBuild(arg)>> /\ UNCHANGED <<package, stamp, cut>>
        BY <4>1, VersionWriteIs, Zenon
      <4>4. nth = NumberTurn(arg)
        BY <2>7, <3>3, <4>2 DEF NumberTurn
      <4>5. Number(arg)
        BY <1>2, <2>1, <2>3, <2>7, <3>3, <4>2, <4>3, <4>4, Zenon DEF Number
      <4>. QED  BY <1>1, <4>5, Zenon
    <3>4. CASE nth = 3 /\ Step = <<"stamp", {"include", "settings"}>>
      <4>1. Step[1] = "stamp"
        BY <3>4
      <4>2. turn' = 2 /\ nth' = 1
        BY <2>5, <3>9, <3>4
      <4>3. /\ stamp' = [stamp EXCEPT !.include = version,
                                    !.settings = IF "settings" \in cut THEN @ ELSE package]
            /\ cut' = cut \ {"include"} /\ UNCHANGED <<package, version>>
        BY <4>1, VersionWriteIs, Zenon
      <4>4. nth = NumberTurn(arg) + 1
        BY <2>7, <3>4, <4>2 DEF NumberTurn
      <4>5. Stamp(arg)
        BY <1>2, <2>1, <2>3, <2>7, <3>4, <4>2, <4>3, <4>4, Zenon DEF Stamp
      <4>. QED  BY <1>1, <4>5, Zenon
    <3>. QED  BY <3>1, <3>2, <3>3, <3>4
  <2>. QED  BY <1>1, <2>6, <2>7
<1>3. CASE script = "prebuild"
  <2>1. Len(plan) = 1 /\ plan[1] = PrebuildSteps
    BY <1>3 DEF CourseInv, PlanInv, IsPlan
  <2>2. turn = 1
    BY <1>3, <2>1 DEF VersionStep, AtEnd, CourseInv, PlaceInv
  <2>3. nth \in 1..2 /\ Step = PrebuildSteps[nth]
    BY <1>3, <2>1, <2>2, PrebuildStepsAre DEF CourseInv, PlaceInv, Step
  <2>4. Step[1] \in {"increment", "include"}
    BY <2>3, PrebuildStepsAre
  <2>. QED  BY <1>1, <1>3, <2>4 DEF VersionStep, Increment, Include
<1>. QED  BY <1>2, <1>3 DEF VersionStep

LEMMA ElementsAre ==
    ASSUME NEW v \in Seq(Nat), NEW n \in 3..4, Len(v) = n
    PROVE  \A i \in 1..n : v[i] \in Nat
<1>1. v \in [1..Len(v) -> Nat]
  BY LenProperties
<1>2. v \in [1..n -> Nat]
  BY <1>1, Zenon
<1>. QED  BY <1>2

\* The numbers of a package that is raised.
LEMMA RaisedIs ==
    ASSUME NEW v \in Seq(Nat), Len(v) = 3, NEW arg \in {"-major", "-minor", "-patch"}
    PROVE  Raised(v, arg) \in Seq(Nat) /\ Len(Raised(v, arg)) = 3 /\ Below(v, Raised(v, arg))
<1>1. v[1] \in Nat /\ v[2] \in Nat /\ v[3] \in Nat
  BY ElementsAre
<1>2. CASE arg = "-major"
  <2>1. Raised(v, arg) = <<v[1] + 1, 0, 0>>
    BY <1>2 DEF Raised
  <2>. QED  BY <1>1, <2>1 DEF Below
<1>3. CASE arg = "-minor"
  <2>1. Raised(v, arg) = <<v[1], v[2] + 1, 0>>
    BY <1>3 DEF Raised
  <2>. QED  BY <1>1, <2>1 DEF Below
<1>4. CASE arg = "-patch"
  <2>1. Raised(v, arg) = <<v[1], v[2], v[3] + 1>>
    BY <1>4 DEF Raised
  <2>. QED  BY <1>1, <2>1 DEF Below
<1>. QED  BY <1>2, <1>3, <1>4

LEMMA NumbersAre ==
    ASSUME NumbersInv
    PROVE  /\ package[1] \in Nat /\ package[2] \in Nat /\ package[3] \in Nat
           /\ version[1] \in Nat /\ version[2] \in Nat /\ version[3] \in Nat /\ version[4] \in Nat
<1>1. package \in Seq(Nat) /\ Len(package) = 3 /\ version \in Seq(Nat) /\ Len(version) = 4
  BY DEF NumbersInv
<1>. QED  BY <1>1, ElementsAre

\* The version of the package with a build number.
LEMMA NumberedIs ==
    ASSUME NumbersInv, NEW b \in Nat
    PROVE  LET v == package \o <<b>>
           IN  /\ v \in Seq(Nat) /\ Len(v) = 4
               /\ v[1] = package[1] /\ v[2] = package[2] /\ v[3] = package[3] /\ v[4] = b
<1>1. package \in Seq(Nat) /\ Len(package) = 3
  BY DEF NumbersInv
<1>2. <<b>> \in Seq(Nat) /\ Len(<<b>>) = 1 /\ <<b>>[1] = b
  OBVIOUS
<1>3. Sequence(package) /\ Sequence(<<b>>)
  BY <1>1, <1>2 DEF Sequence
<1>4. Joins(package, <<b>>, package \o <<b>>)
  BY <1>3, JoinedSeq
<1>5. package \o <<b>> \in Seq(Nat)
  BY <1>1, <1>2
<1>. QED  BY <1>1, <1>2, <1>4, <1>5 DEF Joins

\* The same numbers are the same version.
LEMMA SameVersion ==
    ASSUME NumbersInv, SameNumbers
    PROVE  SubSeq(version, 1, 3) = package
<1>1. package \in Seq(Nat) /\ Len(package) = 3 /\ version \in Seq(Nat) /\ Len(version) = 4
  BY DEF NumbersInv
<1>2. /\ SubSeq(version, 1, 3) \in Seq(Nat) /\ Len(SubSeq(version, 1, 3)) = 3
      /\ \A i \in 1..3 : SubSeq(version, 1, 3)[i] = version[i]
  <2>1. \A i \in 1..4 : version[i] \in Nat
    <3>1. 4 \in 3..4
      OBVIOUS
    <3>. QED  BY <1>1, <3>1, ElementsAre, Zenon
  <2>. QED  BY <2>1, SubSeqProperties
<1>3. \A i \in 1..3 : version[i] = package[i]
  BY DEF SameNumbers
<1>. QED  BY <1>1, <1>2, <1>3, SeqEqual

\* The next build of the same version.
LEMMA IncrementedIs ==
    ASSUME NumbersInv
    PROVE  LET v == [version EXCEPT ![4] = @ + 1]
           IN  /\ v \in Seq(Nat) /\ Len(v) = 4
               /\ v[1] = version[1] /\ v[2] = version[2] /\ v[3] = version[3] /\ v[4] = version[4] + 1
<1>1. version \in Seq(Nat) /\ Len(version) = 4 /\ version[4] \in Nat
  BY NumbersAre DEF NumbersInv
<1>2. 4 \in 1..4 /\ version[4] + 1 \in Nat
  BY <1>1
<1>3. DOMAIN version = 1..4
  BY <1>1
<1>4. [version EXCEPT ![4] = version[4] + 1] \in Seq(Nat)
  <2>1. 4 \in 1..Len(version)
    BY <1>1, <1>2, Zenon
  <2>2. version \in Seq(Nat) /\ version[4] + 1 \in Nat
    BY <1>1, <1>2, Zenon
  <2>3. PICK e \in Nat : e = version[4] + 1
    BY <2>2, Zenon
  <2>4. [version EXCEPT ![4] = e] \in Seq(Nat)
    BY <2>1, <2>2, ExceptSeq, Zenon
  <2>. QED  BY <2>3, <2>4, Zenon
<1>5. Len([version EXCEPT ![4] = version[4] + 1]) = 4
  <2>1. DOMAIN [version EXCEPT ![4] = version[4] + 1] = 1..4
    BY <1>3
  <2>. QED  BY <1>4, <2>1, LenProperties
<1>. QED  BY <1>3, <1>4, <1>5

LEMMA VersionsInit == Init => VersionsInv
<1>. SUFFICES ASSUME Init PROVE VersionsInv
  OBVIOUS
<1>1. /\ package = <<1, 1, 1>> /\ version = <<1, 1, 1, 1>>
      /\ stamp = [include |-> version, settings |-> package]
      /\ script = "none" /\ done = "none"
  BY DEF Init
<1>2. /\ package \in Seq(Nat) /\ Len(package) = 3 /\ version \in Seq(Nat) /\ Len(version) = 4
      /\ SameNumbers
  BY <1>1 DEF SameNumbers
<1>3. stamp \in [include : Seq(Nat), settings : Seq(Nat)]
  BY <1>1, <1>2
<1>. QED  BY <1>1, <1>2, <1>3 DEF VersionsInv, NumbersInv, UpdateInv

\* The order of the versions, number by number.
LEMMA LessIs ==
    ASSUME NEW v, NEW w,
           \/ v[1] < w[1]
           \/ v[1] = w[1] /\ v[2] < w[2]
           \/ v[1] = w[1] /\ v[2] = w[2] /\ v[3] < w[3]
           \/ v[1] = w[1] /\ v[2] = w[2] /\ v[3] = w[3] /\ v[4] < w[4]
    PROVE  Less(v, w)
<1>1. CASE v[1] < w[1]
  BY <1>1 DEF Less
<1>2. CASE v[1] = w[1] /\ v[2] < w[2]
  BY <1>2 DEF Less
<1>3. CASE v[1] = w[1] /\ v[2] = w[2] /\ v[3] < w[3]
  BY <1>3 DEF Less
<1>4. CASE v[1] = w[1] /\ v[2] = w[2] /\ v[3] = w[3] /\ v[4] < w[4]
  BY <1>4 DEF Less
<1>. QED  BY <1>1, <1>2, <1>3, <1>4

\* The plan of updateVersionInfos tells its argument.
LEMMA PlanOfArgument ==
    ASSUME NEW a \in Arguments, NEW b \in Arguments, <<VersionSteps(a)>> = <<VersionSteps(b)>>
    PROVE  a = b
<1>1. VersionSteps(a) = VersionSteps(b)
  OBVIOUS
<1>2. CASE a = "none" \/ b = "none"
  BY <1>1, <1>2, VersionStepsAre
<1>3. CASE a # "none" /\ b # "none"
  <2>1. VersionSteps(a)[1] = <<"raise", {"package"}, a>> /\ VersionSteps(b)[1] = <<"raise", {"package"}, b>>
    BY <1>3, VersionStepsAre
  <2>2. <<"raise", {"package"}, a>>[3] = a /\ <<"raise", {"package"}, b>>[3] = b
    OBVIOUS
  <2>. QED  BY <1>1, <2>1, <2>2
<1>. QED  BY <1>2, <1>3

\* The writes of the version scripts, one by one.
LEMMA RaiseStep ==
    ASSUME VersionsInv, CourseInv, NEW arg \in Arguments, Raise(arg), script' = script, plan' = plan, done' = done
    PROVE  VersionsInv'
<1>1. arg \in {"-major", "-minor", "-patch"} /\ NumberTurn(arg) = 2
  BY BuildAssumption DEF Raise, NumberTurn
<1>2. package' \in Seq(Nat) /\ Len(package') = 3 /\ Below(package, package')
  BY <1>1, RaisedIs DEF Raise, VersionsInv, NumbersInv
<1>3. package'[1] \in Nat /\ package'[2] \in Nat /\ package'[3] \in Nat
  BY <1>2, ElementsAre
<1>4. Below(version, package')
  <2>1. SameNumbers \/ Below(version, package)
    BY DEF VersionsInv, NumbersInv
  <2>2. /\ package[1] \in Nat /\ package[2] \in Nat /\ package[3] \in Nat
        /\ version[1] \in Nat /\ version[2] \in Nat /\ version[3] \in Nat
    BY NumbersAre DEF VersionsInv
  <2>3. Below(package, package')
    BY <1>2
  <2>. QED  BY <1>3, <2>1, <2>2, <2>3 DEF SameNumbers, Below
<1>5. Below(version', package')
  BY <1>4 DEF Raise
<1>6. NumbersInv'
  BY <1>2, <1>5 DEF Raise, VersionsInv, NumbersInv
<1>7. ASSUME NEW a \in Arguments, script' = "updateVersionInfos", plan' = <<VersionSteps(a)>>
      PROVE  a = arg
  BY <1>7, PlanOfArgument DEF Raise
<1>8. {"package", "version"} \cap cut' = {} /\ turn' = 1 /\ nth' = 2
  BY DEF Raise, VersionsInv, UpdateInv
<1>9. UpdateInv'
  BY <1>1, <1>5, <1>7, <1>8 DEF UpdateInv
<1>10. done' # "updateVersionInfos"
  BY DEF CourseInv, PlaceInv, Raise
<1>. QED  BY <1>6, <1>9, <1>10 DEF VersionsInv

LEMMA NumberStep ==
    ASSUME VersionsInv, CourseInv, NEW arg \in Arguments, Number(arg), script' = script, plan' = plan, done' = done
    PROVE  VersionsInv' /\ Less(version, version')
<1>1. NextBuild(arg) \in Nat /\ NumbersInv
  BY NumbersAre DEF NextBuild, VersionsInv
<1>2. /\ version' \in Seq(Nat) /\ Len(version') = 4
      /\ version'[1] = package[1] /\ version'[2] = package[2] /\ version'[3] = package[3]
      /\ version'[4] = NextBuild(arg)
  BY <1>1, NumberedIs DEF Number
<1>3. SameNumbers'
  BY <1>2 DEF SameNumbers, Number
<1>4. NumbersInv'
  BY <1>1, <1>2, <1>3 DEF Number, NumbersInv
<1>5. ASSUME NEW a \in Arguments, script' = "updateVersionInfos", plan' = <<VersionSteps(a)>>
      PROVE  a = arg
  BY <1>5, PlanOfArgument DEF Number
<1>6. {"package", "version"} \cap cut' = {} /\ turn' = 1 /\ nth' = NumberTurn(arg) + 1 /\ NumberTurn(arg) \in Nat
  BY DEF Number, VersionsInv, UpdateInv, NumberTurn
<1>7. UpdateInv'
  BY <1>3, <1>5, <1>6 DEF UpdateInv
<1>8. done' # "updateVersionInfos"
  BY DEF CourseInv, PlaceInv, Number
<1>9. Less(version, version')
  <2>3. version[4] \in Nat
    BY <1>1, NumbersAre
  <2>1. CASE Below(version, package)
    BY <1>2, <2>1, LessIs DEF Below
  <2>2. CASE ~Below(version, package)
    <3>1. arg = "none"
      BY <2>2 DEF VersionsInv, UpdateInv, Number
    <3>2. version'[4] = version[4] + 1 /\ SameNumbers
      BY <1>1, <1>2, <2>2, <3>1 DEF NextBuild, NumbersInv
    <3>3. version[4] < version'[4]
      BY <2>3, <3>2
    <3>. QED  BY <1>2, <3>2, <3>3, LessIs DEF SameNumbers
  <2>. QED  BY <2>1, <2>2
<1>. QED  BY <1>4, <1>7, <1>8, <1>9 DEF VersionsInv

LEMMA StampStep ==
    ASSUME VersionsInv, CourseInv, NEW arg \in Arguments, Stamp(arg), script' = script, plan' = plan, done' = done
    PROVE  VersionsInv'
<1>1. NumbersInv /\ SameNumbers /\ {"package", "version"} \cap cut = {}
  BY DEF VersionsInv, UpdateInv, Stamp, NumberTurn
<1>2. SubSeq(version, 1, 3) = package
  BY <1>1, SameVersion
<1>3. stamp' \in [include : Seq(Nat), settings : Seq(Nat)]
  BY <1>1 DEF Stamp, NumbersInv
<1>4. NumbersInv'
  BY <1>1, <1>3 DEF Stamp, NumbersInv, SameNumbers, Below
<1>5. stamp'.include = version /\ ("settings" \notin cut => stamp'.settings = package)
  BY <1>1 DEF Stamp, NumbersInv
<1>6. VersionsAreComplete'
  BY <1>1, <1>2, <1>5 DEF Stamp, VersionsAreComplete
<1>7. {"package", "version"} \cap cut' = {} /\ turn' = 2
  BY <1>1 DEF Stamp
<1>8. UpdateInv'
  BY <1>6, <1>7 DEF UpdateInv
<1>. QED  BY <1>4, <1>6, <1>8 DEF VersionsInv

LEMMA PrebuildStep ==
    ASSUME VersionsInv, CourseInv, Increment \/ Include, script' = script, plan' = plan, done' = done
    PROVE  VersionsInv' /\ (version' # version => Less(version, version'))
<1>1. NumbersInv /\ script' = "prebuild" /\ done' # "updateVersionInfos"
  BY DEF VersionsInv, CourseInv, PlaceInv, Increment, Include
<1>2. UpdateInv'
  BY <1>1 DEF UpdateInv
<1>3. CASE Increment
  <2>1. /\ version' \in Seq(Nat) /\ Len(version') = 4 /\ package' = package /\ stamp' = stamp
        /\ version'[1] = version[1] /\ version'[2] = version[2] /\ version'[3] = version[3]
        /\ version'[4] = version[4] + 1
    BY <1>1, <1>3, IncrementedIs DEF Increment
  <2>2. NumbersInv'
    BY <1>1, <2>1 DEF NumbersInv, SameNumbers, Below
  <2>3. Less(version, version')
    <3>1. version[4] \in Nat
      BY <1>1, NumbersAre
    <3>2. version[4] < version'[4]
      BY <2>1, <3>1
    <3>. QED  BY <2>1, <3>2, LessIs
  <2>. QED  BY <1>1, <1>2, <2>2, <2>3 DEF VersionsInv
<1>4. CASE Include
  <2>1. stamp' \in [include : Seq(Nat), settings : Seq(Nat)]
    BY <1>1, <1>4 DEF Include, NumbersInv
  <2>2. NumbersInv'
    BY <1>1, <1>4, <2>1 DEF Include, NumbersInv, SameNumbers, Below
  <2>. QED  BY <1>1, <1>2, <1>4, <2>2 DEF VersionsInv, Include
<1>. QED  BY <1>3, <1>4

\* Nothing else touches the versions.
LEMMA NumbersStay ==
    ASSUME NumbersInv, UNCHANGED versionVars
    PROVE  NumbersInv'
BY DEF NumbersInv, SameNumbers, Below, versionVars

LEMMA VersionsStep ==
    ASSUME VersionsInv, CourseInv, [Next]_vars
    PROVE  VersionsInv' /\ (version' # version => Less(version, version'))
<1>1. CASE VersionStep
  <2>1. script' = script /\ plan' = plan /\ done' = done
    BY <1>1, VersionWrites
  <2>2. (\E arg \in Arguments : Raise(arg) \/ Number(arg) \/ Stamp(arg)) \/ Increment \/ Include
    BY <1>1, VersionWrites
  <2>3. ASSUME NEW arg \in Arguments, Raise(arg) PROVE VersionsInv' /\ version' = version
    BY <2>1, <2>3, RaiseStep DEF Raise
  <2>4. ASSUME NEW arg \in Arguments, Number(arg) PROVE VersionsInv' /\ Less(version, version')
    BY <2>1, <2>4, NumberStep
  <2>5. ASSUME NEW arg \in Arguments, Stamp(arg) PROVE VersionsInv' /\ version' = version
    BY <2>1, <2>5, StampStep DEF Stamp
  <2>. QED  BY <2>1, <2>2, <2>3, <2>4, <2>5, PrebuildStep
<1>2. CASE JoinTexts \/ BuildStep \/ SyncStep
  <2>1. /\ script' \in {"none", "buildPages", "syncFiles"} /\ script # "none"
        /\ done' = done /\ UNCHANGED versionVars
    BY <1>2 DEF JoinTexts, BuildStep, SyncStep, Proceeds, Leaves
  <2>2. NumbersInv' /\ version' = version
    BY <2>1, NumbersStay DEF VersionsInv, versionVars
  <2>. QED  BY <2>1, <2>2 DEF VersionsInv, UpdateInv, CourseInv, PlaceInv
<1>3. CASE Ends
  <2>1. script' = "none" /\ done' = script /\ UNCHANGED versionVars /\ cut' = cut /\ script # "none" /\ AtEnd
    BY <1>3 DEF Ends, Leaves
  <2>2. script = "updateVersionInfos" => VersionsAreComplete
    <3>1. SUFFICES ASSUME script = "updateVersionInfos" PROVE VersionsAreComplete
      OBVIOUS
    <3>2. PICK arg \in Arguments : plan = <<VersionSteps(arg)>>
      BY <3>1 DEF CourseInv, PlanInv, IsPlan
    <3>3. turn = 2
      BY <2>1, <3>2 DEF AtEnd, CourseInv, PlaceInv
    <3>. QED  BY <3>1, <3>2, <3>3 DEF VersionsInv, UpdateInv
  <2>3. VersionsAreComplete => VersionsAreComplete'
    BY <2>1 DEF VersionsAreComplete, versionVars
  <2>4. NumbersInv' /\ version' = version
    BY <2>1, NumbersStay DEF VersionsInv, versionVars
  <2>. QED  BY <2>1, <2>2, <2>3, <2>4 DEF VersionsInv, UpdateInv
<1>4. CASE Stops
  <2>1. script' = "none" /\ done' = "none" /\ UNCHANGED versionVars
    BY <1>4 DEF Stops, Leaves, CourseInv, PlaceInv
  <2>2. NumbersInv' /\ version' = version
    BY <2>1, NumbersStay DEF VersionsInv, versionVars
  <2>. QED  BY <2>1, <2>2 DEF VersionsInv, UpdateInv
<1>5. ASSUME NEW name, NEW steps, Starts(name, steps), name # "updateVersionInfos" PROVE VersionsInv' /\ version' = version
  <2>1. script' # "updateVersionInfos" /\ done' = "none" /\ UNCHANGED versionVars
    BY <1>5 DEF Starts
  <2>2. NumbersInv' /\ version' = version
    BY <2>1, NumbersStay DEF VersionsInv, versionVars
  <2>. QED  BY <2>1, <2>2 DEF VersionsInv, UpdateInv
<1>6. CASE RunUpdateVersionInfos
  <2>1. /\ turn' = 1 /\ nth' = 1 /\ done' = "none" /\ cut' = cut /\ UNCHANGED versionVars
        /\ {"package", "version"} \cap cut = {}
    BY <1>6 DEF RunUpdateVersionInfos, Starts
  <2>2. NumbersInv' /\ version' = version
    BY <2>1, NumbersStay DEF VersionsInv, versionVars
  <2>3. UpdateInv'
    BY <2>1 DEF UpdateInv, NumberTurn
  <2>. QED  BY <2>1, <2>2, <2>3 DEF VersionsInv
<1>7. CASE EditPage \/ ChangePages \/ EditSource \/ EditTarget \/ Restore
  <2>1. script' = "none" /\ done' = "none" /\ UNCHANGED versionVars
    BY <1>7 DEF EditPage, ChangePages, EditSource, EditTarget, Restore, Edits, Rest, scriptVars
  <2>2. NumbersInv' /\ version' = version
    BY <2>1, NumbersStay DEF VersionsInv, versionVars
  <2>. QED  BY <2>1, <2>2 DEF VersionsInv, UpdateInv
<1>8. CASE UNCHANGED vars
  <2>1. UNCHANGED <<script, plan, turn, nth, done, cut>> /\ UNCHANGED versionVars
    BY <1>8 DEF vars, scriptVars
  <2>2. NumbersInv' /\ version' = version
    BY <2>1, NumbersStay DEF VersionsInv, versionVars
  <2>3. VersionsAreComplete' = VersionsAreComplete
    BY <2>1 DEF VersionsAreComplete, versionVars
  <2>4. Below(version, package)' = Below(version, package) /\ SameNumbers' = SameNumbers
    BY <2>1 DEF Below, SameNumbers, versionVars
  <2>5. UpdateInv'
    BY <2>1, <2>3, <2>4 DEF VersionsInv, UpdateInv
  <2>. QED  BY <2>1, <2>2, <2>3, <2>5 DEF VersionsInv
<1>9. CASE RunBuildPages \/ RunSyncFiles \/ RunPrebuild
  BY <1>5, <1>9 DEF RunBuildPages, RunSyncFiles, RunPrebuild
<1>. QED  BY <1>1, <1>2, <1>3, <1>4, <1>6, <1>7, <1>8, <1>9 DEF Next

-------------------------------------------------------------------------------
(* The files that are opened, and the pair of files that is synchronised.    *)

\* The turns of a build, and the writes of each.
LEMMA BuildTurn ==
    ASSUME CourseInv, script = "buildPages", ~AtEnd
    PROVE  /\ usePages \in Seq(Pages) /\ Len(usePages) \in Nat /\ Len(Languages) \in Nat
           /\ \/ turn = 1 /\ Len(plan[turn]) = 6 /\ nth \in 1..6 /\ Step = StartSteps[nth]
              \/ /\ turn \in 2..(Len(usePages) + 1) /\ Len(plan[turn]) = 3 + Len(Languages)
                 /\ nth \in 1..(3 + Len(Languages)) /\ Step = PageSteps(usePages[turn - 1])[nth]
              \/ turn = Len(usePages) + 2 /\ Len(plan[turn]) = 1 /\ nth = 1 /\ Step = <<"register", "js">>
<1>1. turn \in 1..Len(plan) /\ nth \in 1..Len(plan[turn])
  <2>1. Len(plan) \in Nat
    BY TurnsAreWrites DEF CourseInv, PlanInv
  <2>. QED  BY <2>1 DEF CourseInv, PlaceInv, AtEnd
<1>2. plan = BuildSteps(usePages) /\ usePages \in Seq(Pages) /\ Len(usePages) \in Nat
  BY DEF CourseInv, PlanInv, IsPlan
<1>3. Len(plan) = Len(usePages) + 2 /\ Len(Languages) \in Nat
  BY <1>2, BuildStepsAre, PageStepsAre
<1>4. turn = 1 \/ turn = Len(usePages) + 2 \/ turn \in 2..(Len(usePages) + 1)
  BY <1>1, <1>2, <1>3
<1>5. CASE turn = 1
  <2>1. plan[turn] = StartSteps
    BY <1>2, <1>5, BuildStepsAre
  <2>. QED  BY <1>1, <1>2, <1>3, <1>5, <2>1, StartStepsAre DEF Step
<1>6. CASE turn = Len(usePages) + 2
  <2>1. plan[turn] = << <<"register", "js">> >>
    BY <1>2, <1>6, BuildStepsAre
  <2>2. Len(plan[turn]) = 1 /\ plan[turn][1] = <<"register", "js">>
    BY <2>1
  <2>3. nth \in 1..1
    BY <1>1, <2>2, Zenon
  <2>4. nth = 1
    BY <2>3
  <2>5. Step = <<"register", "js">>
    BY <2>2, <2>4 DEF Step
  <2>. QED  BY <1>2, <1>3, <1>6, <2>2, <2>4, <2>5, Zenon
<1>7. CASE turn \in 2..(Len(usePages) + 1)
  <2>1. plan[turn] = PageSteps(usePages[turn - 1])
    BY <1>2, <1>7, BuildStepsAre
  <2>2. Len(plan[turn]) = 3 + Len(Languages)
    BY <2>1, PageStepsAre
  <2>3. nth \in 1..(3 + Len(Languages)) /\ Step = PageSteps(usePages[turn - 1])[nth]
    BY <1>1, <2>1, <2>2, Zenon DEF Step
  <2>. QED  BY <1>2, <1>3, <1>7, <2>2, <2>3, Zenon
<1>. QED  BY <1>4, <1>5, <1>6, <1>7

\* A script opens the files that are its own.
LEMMA OpenedFiles ==
    ASSUME CourseInv, script # "none", ~AtEnd
    PROVE  /\ script = "buildPages" => Opened \subseteq Types \cup AllLanguages
           /\ script = "syncFiles" => Opened = {CopiesTo} \ {"neither"} /\ turn = 1 /\ nth = 1 /\ Len(plan) = 1
           /\ script \in {"updateVersionInfos", "prebuild"} =>
                 Opened \subseteq {"package", "version", "include", "settings"}
<1>1. turn \in 1..Len(plan) /\ nth \in 1..Len(plan[turn])
  <2>1. Len(plan) \in Nat
    BY TurnsAreWrites DEF CourseInv, PlanInv
  <2>. QED  BY <2>1 DEF CourseInv, PlaceInv, AtEnd
<1>2. CASE script = "buildPages"
  <2>1. CASE turn = 1 /\ nth \in 1..6 /\ Step = StartSteps[nth]
    <3>1. Step[2] \in Types
      BY <2>1, StartStepsAre DEF Types
    <3>. QED  BY <1>2, <3>1 DEF Opened
  <2>2. CASE Step = <<"register", "js">>
    BY <1>2, <2>2 DEF Opened, Types
  <2>3. CASE /\ turn \in 2..(Len(usePages) + 1) /\ nth \in 1..(3 + Len(Languages))
             /\ Step = PageSteps(usePages[turn - 1])[nth]
    <3>. DEFINE p == usePages[turn - 1]
    <3>1. Len(Languages) \in Nat
      BY PageStepsAre
    <3>2. CASE nth \in 1..3
      <4>1. Step[2] \in Types
        BY <2>3, <3>2, PageStepsAre DEF Types
      <4>. QED  BY <1>2, <4>1 DEF Opened
    <3>3. CASE nth \in 4..(3 + Len(Languages))
      <4>. DEFINE q == nth - 3
      <4>1. q \in 1..Len(Languages) /\ nth = 3 + q
        BY <2>3, <3>1, <3>3
      <4>2. Step = <<"texts", Languages[q], p>>
        BY <2>3, <4>1, PageStepsAre
      <4>3. Languages[q] \in AllLanguages
        BY <4>1, BuildAssumption
      <4>. QED  BY <1>2, <4>2, <4>3 DEF Opened
    <3>. QED  BY <2>3, <3>1, <3>2, <3>3
  <2>. QED  BY <1>2, <2>1, <2>2, <2>3, BuildTurn
<1>3. CASE script = "syncFiles"
  <2>1. plan = << << <<"sync">> >> >>
    BY <1>3 DEF CourseInv, PlanInv, IsPlan
  <2>2. Len(plan) = 1 /\ Len(plan[1]) = 1
    BY <2>1
  <2>3. turn = 1
    BY <1>1, <2>2
  <2>4. nth \in 1..1
    BY <1>1, <2>2, <2>3, Zenon
  <2>5. nth = 1
    BY <2>4
  <2>. QED  BY <1>3, <2>2, <2>3, <2>5 DEF Opened
<1>4. CASE script = "updateVersionInfos"
  <2>1. PICK arg \in Arguments : plan = <<VersionSteps(arg)>>
    BY <1>4 DEF CourseInv, PlanInv, IsPlan
  <2>2. Len(plan) = 1 /\ plan[1] = VersionSteps(arg)
    BY <2>1
  <2>3. turn = 1
    BY <1>1, <2>2
  <2>4. nth \in 1..Len(VersionSteps(arg)) /\ Step = VersionSteps(arg)[nth]
    BY <1>1, <2>2, <2>3 DEF Step
  <2>5. Step[2] \subseteq {"package", "version", "include", "settings"}
    <3>1. CASE arg = "none"
      <4>1. nth = 1 \/ nth = 2
        BY <2>4, <3>1, VersionStepsAre
      <4>2. Step = <<"number", {"version"}, arg>> \/ Step = <<"stamp", {"include", "settings"}>>
        BY <2>4, <3>1, <4>1, VersionStepsAre
      <4>. QED  BY <4>2
    <3>2. CASE arg # "none"
      <4>1. nth = 1 \/ nth = 2 \/ nth = 3
        BY <2>4, <3>2, VersionStepsAre
      <4>2. \/ Step = <<"raise", {"package"}, arg>> \/ Step = <<"number", {"version"}, arg>>
            \/ Step = <<"stamp", {"include", "settings"}>>
        BY <2>4, <3>2, <4>1, VersionStepsAre
      <4>. QED  BY <4>2
    <3>. QED  BY <3>1, <3>2
  <2>. QED  BY <1>4, <2>5 DEF Opened
<1>5. CASE script = "prebuild"
  <2>1. Len(plan) = 1 /\ plan[1] = PrebuildSteps
    BY <1>5 DEF CourseInv, PlanInv, IsPlan
  <2>2. turn = 1
    BY <1>1, <2>1
  <2>3. nth \in 1..2 /\ Step = PrebuildSteps[nth]
    BY <1>1, <2>1, <2>2, PrebuildStepsAre DEF Step
  <2>4. Step = <<"increment", {"version"}>> \/ Step = <<"include", {"include"}>>
    BY <2>3, PrebuildStepsAre
  <2>5. Step[2] \subseteq {"package", "version", "include", "settings"}
    BY <2>4
  <2>. QED  BY <1>5, <2>5 DEF Opened
<1>. QED  BY <1>2, <1>3, <1>4, <1>5 DEF CourseInv, PlanInv, IsPlan

\* The two files: their times are past, and never the same.
PairInv ==
    /\ source \in [content : Nat, mtime : Nat] /\ target \in [content : Nat, mtime : Nat]
    /\ now \in Nat /\ edits \in Nat
    /\ source.mtime <= now /\ target.mtime <= now /\ source.mtime > 0
    /\ source.content <= edits /\ target.content <= edits
    /\ source.mtime # target.mtime
    /\ target.mtime = 0 => target.content = 0
    /\ rule \in {"=", ">", "<", "<>"}

Whole == cut \cap {"source", "target"} = {}

\* The newer file has the newest edit, where the rule does not forbid it.
NewerInv ==
    /\ rule \in {"=", ">"} => "source" \notin cut
    /\ rule = "<" => "target" \notin cut
    /\ source.mtime > target.mtime /\ (rule = ">" \/ (rule = "<>" /\ Whole)) => source.content >= target.content
    /\ target.mtime > source.mtime /\ (rule = "<" \/ (rule = "<>" /\ Whole)) => target.content >= source.content
    /\ target.mtime > source.mtime /\ rule = ">" => "target" \in cut \/ target.content >= source.content

SyncInv ==
    /\ PairInv /\ NewerInv
    /\ script = "syncFiles" /\ turn = 2 => SyncIsComplete
    /\ done = "syncFiles" => SyncIsComplete

LEMMA SyncInit == Init => SyncInv
<1>. SUFFICES ASSUME Init PROVE SyncInv
  OBVIOUS
<1>1. /\ source = [content |-> 0, mtime |-> 1] /\ target = [content |-> 0, mtime |-> 0]
      /\ now = 1 /\ edits = 0 /\ cut = {} /\ script = "none" /\ done = "none"
  BY DEF Init
<1>2. rule \in {"=", ">", "<", "<>"}
  BY BuildAssumption DEF Init
<1>. QED  BY <1>1, <1>2 DEF SyncInv, PairInv, NewerInv

\* The files are the same as before.
LEMMA SyncStays ==
    ASSUME SyncInv, UNCHANGED syncVars, edits' \in Nat, edits' >= edits,
           "source" \in cut' <=> "source" \in cut, "target" \in cut' <=> "target" \in cut
    PROVE  PairInv' /\ NewerInv' /\ SyncIsComplete' = SyncIsComplete
<1>1. PairInv'
  BY DEF SyncInv, PairInv, syncVars
<1>2. NewerInv'
  BY DEF SyncInv, NewerInv, Whole, syncVars
<1>3. SyncIsComplete' = SyncIsComplete
  BY DEF SyncIsComplete, syncVars
<1>. QED  BY <1>1, <1>2, <1>3

\* What NewestIsKept says of a step.
Kept ==
    /\ (rule # "<>" \/ cut \cap {"source", "target"} = {}) =>
          \E c \in {source'.content, target'.content} : \A d \in Contents : c >= d
    /\ rule \in {"=", ">"} => source' = source
    /\ rule = "<" => target' = target

LEMMA KeptAsItIs ==
    ASSUME PairInv, source'.content = source.content, target'.content = target.content,
           rule \in {"=", ">"} => source' = source, rule = "<" => target' = target
    PROVE  Kept
<1>1. source.content \in Nat /\ target.content \in Nat
  BY DEF PairInv
<1>2. CASE source.content >= target.content
  BY <1>1, <1>2 DEF Kept, Contents
<1>3. CASE target.content >= source.content
  BY <1>1, <1>3 DEF Kept, Contents
<1>. QED  BY <1>1, <1>2, <1>3

\* When the newest content is copied, it is in both files.
LEMMA KeptInBoth ==
    ASSUME PairInv, NEW c \in Nat, source'.content = c, target'.content = c,
           rule # "<>" \/ Whole => c >= source.content /\ c >= target.content,
           rule \in {"=", ">"} => source' = source, rule = "<" => target' = target
    PROVE  Kept
BY DEF Kept, Contents, Whole

\* Which file is copied over the other.
LEMMA CopyIs ==
    ASSUME PairInv
    PROVE  \/ /\ CopiesTo = "target"
              /\ (rule = "=" /\ target.mtime = 0) \/ (rule \in {">", "<>"} /\ source.mtime > target.mtime)
           \/ CopiesTo = "source" /\ rule \in {"<", "<>"} /\ target.mtime > source.mtime
           \/ /\ CopiesTo = "neither"
              /\ \/ rule = "=" /\ target.mtime > 0
                 \/ rule = ">" /\ target.mtime > source.mtime
                 \/ rule = "<" /\ source.mtime > target.mtime
<1>1. /\ source.mtime \in Nat /\ target.mtime \in Nat /\ source.mtime # target.mtime
      /\ rule \in {"=", ">", "<", "<>"}
  BY DEF PairInv
<1>2. CASE rule = "="
  BY <1>1, <1>2 DEF CopiesTo
<1>3. CASE rule = ">"
  BY <1>1, <1>3 DEF CopiesTo, IsNewer
<1>4. CASE rule = "<"
  BY <1>1, <1>4 DEF CopiesTo, IsNewer
<1>5. CASE rule = "<>"
  BY <1>1, <1>5 DEF CopiesTo, IsNewer
<1>. QED  BY <1>1, <1>2, <1>3, <1>4, <1>5

\* A file is copied.
LEMMA CopyStep ==
    ASSUME SyncInv, CourseInv, SyncStep
    PROVE  SyncInv' /\ Kept
<1>1. /\ PairInv /\ NewerInv /\ rule' = rule /\ edits' = edits /\ script = "syncFiles" /\ script' = script
      /\ done' = done /\ done' = "none"
  BY DEF SyncInv, SyncStep, Proceeds, inputVars, CourseInv, PlaceInv
<1>2. /\ source.content \in Nat /\ target.content \in Nat /\ source.mtime \in Nat /\ target.mtime \in Nat
      /\ now \in Nat /\ edits \in Nat
  BY <1>1 DEF PairInv
<1>3. CASE CopiesTo = "target"
  <2>1. /\ target' = [source EXCEPT !.mtime = now + 1] /\ now' = now + 1 /\ source' = source
        /\ cut' = IF "source" \in cut THEN cut \cup {"target"} ELSE cut \ {"target"}
    BY <1>3 DEF SyncStep
  <2>2. target' = [content |-> source.content, mtime |-> now + 1]
    BY <1>1, <2>1 DEF PairInv
  <2>3. PairInv'
    BY <1>1, <1>2, <2>1, <2>2 DEF PairInv
  <2>4. target'.content = source'.content /\ target'.mtime > source'.mtime /\ target'.mtime > 0
    BY <1>1, <1>2, <2>1, <2>2 DEF PairInv
  <2>5. rule # "<"
    BY <1>3 DEF CopiesTo
  <2>6. rule \in {"=", ">"} => "source" \notin cut'
    BY <1>1, <2>1 DEF NewerInv
  <2>7. NewerInv' /\ SyncIsComplete'
    BY <1>1, <1>2, <2>1, <2>4, <2>5, <2>6 DEF NewerInv, SyncIsComplete
  <2>8. rule # "<>" \/ Whole => source.content >= target.content
    BY <1>1, <1>2, <1>3, CopyIs DEF PairInv, NewerInv
  <2>9. Kept
    BY <1>1, <1>2, <2>1, <2>4, <2>5, <2>8, KeptInBoth
  <2>. QED  BY <1>1, <2>3, <2>7, <2>9 DEF SyncInv
<1>4. CASE CopiesTo = "source"
  <2>1. /\ source' = [target EXCEPT !.mtime = now + 1] /\ now' = now + 1 /\ target' = target
        /\ cut' = IF "target" \in cut THEN cut \cup {"source"} ELSE cut \ {"source"}
    BY <1>4 DEF SyncStep
  <2>2. source' = [content |-> target.content, mtime |-> now + 1]
    BY <1>1, <2>1 DEF PairInv
  <2>3. rule \in {"<", "<>"} /\ target.mtime > source.mtime
    BY <1>1, <1>4, CopyIs
  <2>4. PairInv'
    BY <1>1, <1>2, <2>1, <2>2, <2>3 DEF PairInv
  <2>5. source'.content = target'.content /\ source'.mtime > target'.mtime
    BY <1>1, <1>2, <2>1, <2>2 DEF PairInv
  <2>6. rule = "<" => "target" \notin cut'
    BY <1>1, <2>1 DEF NewerInv
  <2>7. NewerInv' /\ SyncIsComplete'
    BY <1>1, <1>2, <2>1, <2>3, <2>5, <2>6 DEF NewerInv, SyncIsComplete
  <2>8. rule # "<>" \/ Whole => target.content >= source.content
    BY <1>1, <1>2, <2>3 DEF PairInv, NewerInv
  <2>9. Kept
    BY <1>1, <1>2, <2>1, <2>3, <2>5, <2>8, KeptInBoth
  <2>. QED  BY <1>1, <2>4, <2>7, <2>9 DEF SyncInv
<1>5. CASE CopiesTo = "neither"
  <2>1. UNCHANGED <<source, target, now, cut>>
    BY <1>5 DEF SyncStep
  <2>2. PairInv' /\ NewerInv'
    BY <1>1, <1>2, <2>1, SyncStays DEF syncVars
  <2>3. SyncIsComplete'
    BY <1>1, <1>2, <1>5, <2>1, CopyIs DEF SyncIsComplete, NewerInv
  <2>4. Kept
    BY <1>1, <2>1, KeptAsItIs
  <2>. QED  BY <1>1, <2>2, <2>3, <2>4 DEF SyncInv
<1>. QED  BY <1>1, <1>3, <1>4, <1>5, CopyIs

\* A script is stopped while it copies.
LEMMA StopStep ==
    ASSUME SyncInv, CourseInv, Stops
    PROVE  SyncInv' /\ (script = "syncFiles" => Kept)
<1>1. /\ PairInv /\ NewerInv /\ rule' = rule /\ edits' = edits /\ now' = now + 1
      /\ script # "none" /\ ~AtEnd /\ script' = "none" /\ done' = "none"
  BY DEF SyncInv, Stops, Leaves, inputVars, CourseInv, PlaceInv
<1>2. /\ source.content \in Nat /\ target.content \in Nat /\ source.mtime \in Nat /\ target.mtime \in Nat
      /\ now \in Nat /\ edits \in Nat
  BY <1>1 DEF PairInv
<1>3. PICK files \in SUBSET Opened :
        /\ cut' = cut \cup files
        /\ source' = IF "source" \in files THEN [source EXCEPT !.mtime = now + 1] ELSE source
        /\ target' = IF "target" \in files THEN [target EXCEPT !.mtime = now + 1] ELSE target
  BY DEF Stops
<1>4. /\ "source" \in files => script = "syncFiles" /\ CopiesTo = "source"
      /\ "target" \in files => script = "syncFiles" /\ CopiesTo = "target"
  <2>1. CASE script = "syncFiles"
    BY <1>1, <1>3, <2>1, OpenedFiles
  <2>2. CASE script = "buildPages"
    BY <1>1, <1>3, <2>2, OpenedFiles, BuildAssumption DEF Types, OtherFiles
  <2>3. CASE script \in {"updateVersionInfos", "prebuild"}
    BY <1>1, <1>3, <2>3, OpenedFiles
  <2>. QED  BY <1>1, <2>1, <2>2, <2>3 DEF CourseInv, PlanInv, IsPlan
<1>5. CASE "source" \in files
  <2>1. "target" \notin files /\ rule \in {"<", "<>"} /\ target.mtime > source.mtime
    BY <1>1, <1>4, <1>5, CopyIs
  <2>2. source' = [content |-> source.content, mtime |-> now + 1] /\ target' = target
    BY <1>1, <1>3, <1>5, <2>1 DEF PairInv
  <2>3. PairInv'
    BY <1>1, <1>2, <2>2 DEF PairInv
  <2>4. "source" \in cut' /\ ("target" \in cut' => "target" \in cut)
    BY <1>3, <1>5, <2>1
  <2>5. NewerInv'
    BY <1>1, <1>2, <2>1, <2>2, <2>4 DEF NewerInv, PairInv, Whole
  <2>6. Kept
    BY <1>1, <2>1, <2>2, KeptAsItIs
  <2>. QED  BY <1>1, <2>3, <2>5, <2>6 DEF SyncInv
<1>6. CASE "target" \in files
  <2>1. /\ "source" \notin files
        /\ (rule = "=" /\ target.mtime = 0) \/ (rule \in {">", "<>"} /\ source.mtime > target.mtime)
    BY <1>1, <1>4, <1>6, CopyIs
  <2>2. target' = [content |-> target.content, mtime |-> now + 1] /\ source' = source
    BY <1>1, <1>3, <1>6, <2>1 DEF PairInv
  <2>3. PairInv'
    BY <1>1, <1>2, <2>2 DEF PairInv
  <2>4. "target" \in cut' /\ ("source" \in cut' => "source" \in cut)
    BY <1>3, <1>6, <2>1
  <2>5. NewerInv'
    BY <1>1, <1>2, <2>1, <2>2, <2>4 DEF NewerInv, PairInv, Whole
  <2>6. Kept
    BY <1>1, <2>1, <2>2, KeptAsItIs
  <2>. QED  BY <1>1, <2>3, <2>5, <2>6 DEF SyncInv
<1>7. CASE "source" \notin files /\ "target" \notin files
  <2>1. source' = source /\ target' = target
    BY <1>3, <1>7
  <2>2. PairInv'
    BY <1>1, <1>2, <2>1 DEF PairInv
  <2>3. ("source" \in cut' <=> "source" \in cut) /\ ("target" \in cut' <=> "target" \in cut)
    BY <1>3, <1>7
  <2>4. NewerInv'
    BY <1>1, <2>1, <2>3 DEF NewerInv, Whole
  <2>5. Kept
    BY <1>1, <2>1, KeptAsItIs
  <2>. QED  BY <1>1, <2>2, <2>4, <2>5 DEF SyncInv
<1>. QED  BY <1>5, <1>6, <1>7

\* The developer edits one of the two files.
LEMMA EditStep ==
    ASSUME SyncInv, EditSource \/ EditTarget
    PROVE  SyncInv'
<1>1. /\ PairInv /\ NewerInv /\ rule' = rule /\ edits' = edits + 1 /\ now' = now + 1
      /\ script' = "none" /\ done' = "none"
  BY DEF SyncInv, EditSource, EditTarget, Edits, Rest, scriptVars
<1>2. /\ source.content \in Nat /\ target.content \in Nat /\ source.mtime \in Nat /\ target.mtime \in Nat
      /\ now \in Nat /\ edits \in Nat
  BY <1>1 DEF PairInv
<1>3. CASE EditSource
  <2>1. source' = [content |-> edits + 1, mtime |-> now + 1] /\ target' = target /\ cut' = cut \ {"source"}
    BY <1>3 DEF EditSource
  <2>2. PairInv'
    BY <1>1, <1>2, <2>1 DEF PairInv
  <2>3. "source" \notin cut' /\ ("target" \in cut' <=> "target" \in cut)
    BY <2>1
  <2>4. NewerInv'
    BY <1>1, <1>2, <2>1, <2>3 DEF NewerInv, PairInv, Whole
  <2>. QED  BY <1>1, <2>2, <2>4 DEF SyncInv
<1>4. CASE EditTarget
  <2>1. target' = [content |-> edits + 1, mtime |-> now + 1] /\ source' = source /\ cut' = cut \ {"target"}
    BY <1>4 DEF EditTarget
  <2>2. PairInv'
    BY <1>1, <1>2, <2>1 DEF PairInv
  <2>3. "target" \notin cut' /\ ("source" \in cut' <=> "source" \in cut)
    BY <2>1
  <2>4. NewerInv'
    BY <1>1, <1>2, <2>1, <2>3 DEF NewerInv, PairInv, Whole
  <2>. QED  BY <1>1, <2>2, <2>4 DEF SyncInv
<1>. QED  BY <1>3, <1>4

LEMMA SyncNext ==
    ASSUME SyncInv, CourseInv, [Next]_vars
    PROVE  SyncInv' /\ (script = "syncFiles" => Kept)
<1>1. CASE SyncStep
  BY <1>1, CopyStep
<1>2. CASE Stops
  BY <1>2, StopStep
<1>3. CASE EditSource \/ EditTarget
  BY <1>3, EditStep DEF EditSource, EditTarget, Edits
<1>4. CASE JoinTexts \/ BuildStep \/ VersionStep
  <2>1. /\ UNCHANGED syncVars /\ edits' = edits /\ done' = "none"
        /\ script # "syncFiles" /\ script' # "syncFiles"
    BY <1>4 DEF JoinTexts, BuildStep, VersionStep, Proceeds, Leaves, inputVars, CourseInv, PlaceInv
  <2>2. ("source" \in cut' <=> "source" \in cut) /\ ("target" \in cut' <=> "target" \in cut)
    <3>1. CASE BuildStep
      <4>1. Step[2] \in Types \cup AllLanguages /\ cut' = cut \ {Step[2]}
        BY <3>1, OpenedFiles DEF BuildStep, Opened
      <4>2. Step[2] # "source" /\ Step[2] # "target"
        BY <4>1, BuildAssumption DEF Types, OtherFiles
      <4>. QED  BY <4>1, <4>2
    <3>2. CASE JoinTexts
      BY <3>2 DEF JoinTexts
    <3>3. CASE VersionStep
      BY <3>3, VersionWriteIs DEF VersionStep
    <3>. QED  BY <1>4, <3>1, <3>2, <3>3
  <2>3. PairInv' /\ NewerInv'
    BY <2>1, <2>2, SyncStays DEF SyncInv, PairInv
  <2>. QED  BY <2>1, <2>3 DEF SyncInv
<1>5. CASE Ends
  <2>1. /\ UNCHANGED syncVars /\ edits' = edits /\ cut' = cut /\ script' = "none" /\ done' = script
        /\ script # "none" /\ AtEnd
    BY <1>5 DEF Ends, Leaves, inputVars
  <2>2. PairInv' /\ NewerInv' /\ SyncIsComplete' = SyncIsComplete
    BY <2>1, SyncStays DEF SyncInv, PairInv
  <2>3. script = "syncFiles" => SyncIsComplete
    <3>1. SUFFICES ASSUME script = "syncFiles" PROVE SyncIsComplete
      OBVIOUS
    <3>2. Len(plan) = 1
      <4>1. plan = << << <<"sync">> >> >>
        BY <3>1 DEF CourseInv, PlanInv, IsPlan
      <4>. QED  BY <4>1
    <3>3. turn = 2
      BY <2>1, <3>2 DEF AtEnd, CourseInv, PlaceInv
    <3>. QED  BY <3>1, <3>3 DEF SyncInv
  <2>4. Kept
    BY <2>1, KeptAsItIs DEF SyncInv, syncVars
  <2>. QED  BY <2>1, <2>2, <2>3, <2>4 DEF SyncInv
<1>6. ASSUME NEW name, NEW steps, Starts(name, steps) PROVE SyncInv' /\ script # "syncFiles"
  <2>1. UNCHANGED syncVars /\ edits' = edits /\ cut' = cut /\ turn' = 1 /\ done' = "none" /\ script = "none"
    BY <1>6 DEF Starts, inputVars
  <2>2. PairInv' /\ NewerInv'
    BY <2>1, SyncStays DEF SyncInv, PairInv
  <2>. QED  BY <2>1, <2>2 DEF SyncInv
<1>7. CASE RunBuildPages \/ RunSyncFiles \/ RunUpdateVersionInfos \/ RunPrebuild
  BY <1>6, <1>7 DEF RunBuildPages, RunSyncFiles, RunUpdateVersionInfos, RunPrebuild
<1>8. CASE EditPage \/ ChangePages \/ Restore
  <2>1. /\ UNCHANGED syncVars /\ edits' \in {edits, edits + 1} /\ done' = "none"
        /\ script = "none" /\ script' = "none"
    BY <1>8 DEF EditPage, ChangePages, Restore, Edits, Rest, scriptVars, inputVars
  <2>2. ("source" \in cut' <=> "source" \in cut) /\ ("target" \in cut' <=> "target" \in cut)
    BY <1>8 DEF EditPage, ChangePages, Restore
  <2>3. PairInv' /\ NewerInv'
    BY <2>1, <2>2, SyncStays DEF SyncInv, PairInv
  <2>. QED  BY <2>1, <2>3 DEF SyncInv
<1>9. CASE UNCHANGED vars
  <2>1. UNCHANGED syncVars /\ UNCHANGED <<edits, cut, script, turn, done>>
    BY <1>9 DEF vars, inputVars, scriptVars
  <2>2. PairInv' /\ NewerInv' /\ SyncIsComplete' = SyncIsComplete
    BY <2>1, SyncStays DEF SyncInv, PairInv
  <2>3. Kept
    BY <2>1, KeptAsItIs DEF SyncInv, syncVars
  <2>. QED  BY <2>1, <2>2, <2>3 DEF SyncInv
<1>. QED  BY <1>1, <1>2, <1>3, <1>4, <1>5, <1>7, <1>8, <1>9 DEF Next

-------------------------------------------------------------------------------
(* The language files.                                                       *)

LanguagesInv == DOMAIN i18n = AllLanguages

\* What a merge leaves of the texts that were there.
LEMMA MergeKeeps ==
    ASSUME NEW l, NEW added, NEW part, NEW a \in DOMAIN i18n[l]
    PROVE  \/ a \in DOMAIN Merge(l, added, part)
           \/ \E b \in DOMAIN Merge(l, added, part) : Within(a, b)
<1>. DEFINE placed == Placed(l, added)
<1>1. DOMAIN Merge(l, added, part) =
        placed \cup {b \in DOMAIN i18n[l] : \A c \in placed : ~Within(b, c)}
  BY DEF Merge
<1>. HIDE DEF placed
<1>. QED  BY <1>1

LEMMA LanguagesInit == Init => LanguagesInv
BY DEF Init, LanguagesInv

LEMMA LanguagesStep ==
    ASSUME LanguagesInv, [Next]_vars
    PROVE  /\ LanguagesInv'
           /\ \A l \in AllLanguages :
                /\ i18n'[l] # i18n[l] => l \notin cut
                /\ \A a \in DOMAIN i18n[l] : a \in DOMAIN i18n'[l] \/ \E b \in DOMAIN i18n'[l] : Within(a, b)
<1>1. CASE i18n' = i18n
  BY <1>1 DEF LanguagesInv
<1>2. CASE JoinTexts /\ i18n' # i18n
  <2>. DEFINE f == Step[2]  added == TextsOf[Step[3]][f]  part == Part(Step[3])
  <2>1. f \notin cut /\ i18n' = [i18n EXCEPT ![f] = Merge(f, added, part)]
    BY <1>2 DEF JoinTexts
  <2>2. LanguagesInv'
    BY <2>1 DEF LanguagesInv
  <2>. HIDE DEF f, added, part
  <2>3. ASSUME NEW l \in AllLanguages
        PROVE  /\ i18n'[l] # i18n[l] => l \notin cut
               /\ \A a \in DOMAIN i18n[l] : a \in DOMAIN i18n'[l] \/ \E b \in DOMAIN i18n'[l] : Within(a, b)
    <3>1. CASE l = f
      <4>1. i18n'[l] = Merge(l, added, part)
        BY <2>1, <3>1 DEF LanguagesInv
      <4>. QED  BY <2>1, <3>1, <4>1, MergeKeeps
    <3>2. CASE l # f
      BY <2>1, <3>2 DEF LanguagesInv
    <3>. QED  BY <3>1, <3>2
  <2>. QED  BY <2>2, <2>3
<1>3. JoinTexts \/ i18n' = i18n
  <2>1. CASE BuildStep \/ SyncStep \/ VersionStep \/ Ends \/ Stops
    BY <2>1 DEF BuildStep, SyncStep, VersionStep, Ends, Stops, pageVars
  <2>2. CASE RunBuildPages \/ RunSyncFiles \/ RunUpdateVersionInfos \/ RunPrebuild
    BY <2>2 DEF RunBuildPages, RunSyncFiles, RunUpdateVersionInfos, RunPrebuild, Starts
  <2>3. CASE EditPage \/ ChangePages \/ EditSource \/ EditTarget \/ Restore
    BY <2>3 DEF EditPage, ChangePages, EditSource, EditTarget, Restore, Rest, pageVars
  <2>4. CASE UNCHANGED vars
    BY <2>4 DEF vars, pageVars
  <2>. QED  BY <2>1, <2>2, <2>3, <2>4 DEF Next
<1>. QED  BY <1>1, <1>2, <1>3

-------------------------------------------------------------------------------
(* The pages: what FlattenSeq and the joined files are, page by page.         *)

\* Every set of numbers has a least one.
LEMMA LeastNumber ==
    ASSUME NEW T, T \subseteq Nat, T # {}
    PROVE  \E i \in T : \A j \in T : i <= j
<1> DEFINE R == StrictSubsetOrdering(Nat)
           S == FiniteSubsetsOf(Nat)
           I == {0..i : i \in T}
<1>1. IsWellFoundedOn(R, S)
  BY FS_StrictSubsetOrderingWellFounded
<1>2. I \subseteq S
  <2>1. \A i \in T : i \in Int /\ 0..i \in SUBSET Nat
    OBVIOUS
  <2>2. \A i \in T : IsFiniteSet(0..i)
    <3>1. 0 \in Int
      OBVIOUS
    <3> QED BY <2>1, <3>1, FS_Interval
  <2> QED BY <2>1, <2>2 DEF FiniteSubsetsOf
<1>3. I # {}
  OBVIOUS
<1>4. \E x \in I : \A y \in I : ~ (<<y, x>> \in R)
  <2> HIDE DEF R, S, I
  <2> QED BY <1>1, <1>2, <1>3, WFMin
<1>5. PICK i \in T : \A j \in T : ~ (<<0..j, 0..i>> \in R)
  BY <1>4
<1>6. ASSUME NEW j \in T, j < i PROVE FALSE
  <2>1. 0..j \subseteq 0..i /\ 0..j # 0..i
    <3>1. i \in 0..i /\ i \notin 0..j
      BY <1>6
    <3> QED BY <1>6, <3>1
  <2>2. <<0..j, 0..i>> \in R
    BY <2>1 DEF StrictSubsetOrdering
  <2> QED BY <2>2, <1>5, <1>6
<1> QED BY <1>6

\* The function that FlattenSeq defines: the first i sequences, one after the other.
Flattens(f, seqs, n) == f = [i \in 1..n |-> IF i = 1 THEN seqs[i] ELSE f[i-1] \o seqs[i]]
FlatOf(seqs) == CHOOSE f : Flattens(f, seqs, Len(seqs))

LEMMA FlattenedBy ==
    ASSUME NEW seqs
    PROVE  FlattenSeq(seqs) = IF Len(seqs) = 0 THEN seqs ELSE FlatOf(seqs)[Len(seqs)]
BY DEF FlattenSeq, FlatOf, Flattens

LEMMA FlatExists == ASSUME NEW seqs, NEW n \in Nat PROVE \E f : Flattens(f, seqs, n)
<1>. DEFINE T == {m \in Nat : ~ \E f : Flattens(f, seqs, m)}
<1>. SUFFICES ASSUME T # {} PROVE FALSE
  OBVIOUS
<1>1. PICK m \in T : \A j \in T : m <= j
  BY LeastNumber
<1>2. m \in Nat /\ ~ \E f : Flattens(f, seqs, m)
  BY <1>1
<1>3. CASE m = 0
  <2>1. 1..m = {}
    BY <1>3
  <2>2. Flattens([i \in {} |-> seqs], seqs, m)
    BY <2>1 DEF Flattens
  <2>. QED  BY <1>2, <2>2
<1>4. CASE m # 0
  <2>1. m - 1 \in Nat /\ m - 1 \notin T
    BY <1>1, <1>2, <1>4
  <2>2. PICK g : Flattens(g, seqs, m - 1)
    BY <2>1
  <2>. DEFINE f == [i \in 1..m |-> IF i = m THEN IF m = 1 THEN seqs[m] ELSE g[m-1] \o seqs[m] ELSE g[i]]
  <2>3. ASSUME NEW i \in 1..m PROVE f[i] = IF i = 1 THEN seqs[i] ELSE f[i-1] \o seqs[i]
    <3>1. CASE i = m
      <4>1. i # 1 => i - 1 \in 1..m /\ i - 1 # m
        BY <1>2, <3>1
      <4>. QED  BY <3>1, <4>1
    <3>2. CASE i # m
      <4>1. i \in 1..(m - 1) /\ (i # 1 => i - 1 \in 1..m /\ i - 1 # m)
        BY <1>2, <3>2
      <4>2. g[i] = IF i = 1 THEN seqs[i] ELSE g[i-1] \o seqs[i]
        BY <2>2, <4>1 DEF Flattens
      <4>. QED  BY <3>2, <4>1, <4>2
    <3>. QED  BY <3>1, <3>2
  <2>4. f = [i \in 1..m |-> f[i]]
    OBVIOUS
  <2>. HIDE DEF f
  <2>5. Flattens(f, seqs, m)
    BY <2>3, <2>4 DEF Flattens
  <2>. QED  BY <1>2, <2>5
<1>. QED  BY <1>3, <1>4

LEMMA FlatIs ==
    ASSUME NEW seqs, Len(seqs) \in Nat, NEW i \in 1..Len(seqs)
    PROVE  FlatOf(seqs)[i] = IF i = 1 THEN seqs[i] ELSE FlatOf(seqs)[i-1] \o seqs[i]
<1>1. Flattens(FlatOf(seqs), seqs, Len(seqs))
  BY FlatExists DEF FlatOf
<1>. HIDE DEF FlatOf
<1>. QED  BY <1>1 DEF Flattens

\* The handlers of the first k pages.
HandlersOf(used) == [i \in DOMAIN used |-> NewHandler(used[i])]
HandlersTo(used, k) == IF k = 0 THEN <<>> ELSE FlatOf(HandlersOf(used))[k]

LEMMA HandlersOfAre ==
    ASSUME NEW used \in Seq(Pages)
    PROVE  /\ Sequence(HandlersOf(used)) /\ Len(HandlersOf(used)) = Len(used) /\ Len(used) \in Nat
           /\ \A i \in 1..Len(used) : HandlersOf(used)[i] = NewHandler(used[i])
<1>1. Sequence(used) /\ DOMAIN used = 1..Len(used) /\ Len(used) \in Nat
  BY DEF Sequence
<1>2. /\ HandlersOf(used) = [i \in DOMAIN used |-> HandlersOf(used)[i]]
      /\ \A i \in DOMAIN used : HandlersOf(used)[i] = NewHandler(used[i])
  BY DEF HandlersOf
<1>. QED  BY <1>1, <1>2, MappedSeq

LEMMA HandlersGrow ==
    ASSUME NEW used \in Seq(Pages), NEW k \in Nat, k < Len(used)
    PROVE  HandlersTo(used, k + 1) = HandlersTo(used, k) \o NewHandler(used[k + 1])
<1>1. /\ Len(HandlersOf(used)) = Len(used) /\ Len(used) \in Nat
      /\ k + 1 \in 1..Len(used) /\ HandlersOf(used)[k + 1] = NewHandler(used[k + 1])
  BY HandlersOfAre
<1>2. FlatOf(HandlersOf(used))[k + 1] =
        IF k + 1 = 1 THEN NewHandler(used[k + 1]) ELSE FlatOf(HandlersOf(used))[(k + 1) - 1] \o NewHandler(used[k + 1])
  BY <1>1, FlatIs
<1>3. CASE k = 0
  <2>1. HandlersTo(used, k + 1) = NewHandler(used[k + 1]) /\ HandlersTo(used, k) = <<>>
    BY <1>2, <1>3 DEF HandlersTo
  <2>2. PICK S : NewHandler(used[k + 1]) \in Seq(S)
    <3>. DEFINE h == <<HandlerOf[used[k + 1]], 0>>
    <3>1. NewHandler(used[k + 1]) = <<>> \/ NewHandler(used[k + 1]) = <<h>>
      BY DEF NewHandler
    <3>. HIDE DEF h
    <3>2. <<>> \in Seq({h}) /\ <<h>> \in Seq({h})
      OBVIOUS
    <3>. QED  BY <3>1, <3>2
  <2>. QED  BY <2>1, <2>2, ConcatEmptySeq
<1>4. CASE k # 0
  <2>1. k + 1 # 0 /\ k + 1 # 1 /\ (k + 1) - 1 = k
    BY <1>4
  <2>. QED  BY <1>2, <1>4, <2>1 DEF HandlersTo
<1>. QED  BY <1>3, <1>4

LEMMA HandlersAll ==
    ASSUME NEW used \in Seq(Pages)
    PROVE  Handlers(used) = HandlersTo(used, Len(used))
<1>1. Sequence(HandlersOf(used)) /\ Len(HandlersOf(used)) = Len(used) /\ Len(used) \in Nat
  BY HandlersOfAre
<1>2. Handlers(used) = IF Len(used) = 0 THEN HandlersOf(used) ELSE FlatOf(HandlersOf(used))[Len(used)]
  BY <1>1, FlattenedBy DEF Handlers, HandlersOf
<1>3. Len(used) = 0 => HandlersOf(used) = <<>>
  BY <1>1, EmptySeq DEF Sequence
<1>. QED  BY <1>2, <1>3 DEF HandlersTo

\* The parts of the first k pages.
PartAt(used, ed, i) == <<used[i], ed[used[i]]>>
Parts(used, ed, k) == <<Preamble>> \o [i \in 1..k |-> PartAt(used, ed, i)]
PartsIn(used, ed, k) == {Preamble} \cup {PartAt(used, ed, i) : i \in 1..k}

LEMMA PartsAre ==
    ASSUME NEW used, NEW ed, NEW k \in Nat
    PROVE  /\ Parts(used, ed, k) \in Seq(PartsIn(used, ed, k)) /\ Len(Parts(used, ed, k)) = k + 1
           /\ Parts(used, ed, k)[1] = Preamble /\ \A i \in 1..k : Parts(used, ed, k)[i + 1] = PartAt(used, ed, i)
<1>. DEFINE first == <<Preamble>>  rest == [i \in 1..k |-> PartAt(used, ed, i)]
            S == PartsIn(used, ed, k)
<1>1. rest \in Seq(S) /\ Len(rest) = k /\ \A i \in 1..k : rest[i] = PartAt(used, ed, i)
  BY DEF PartsIn
<1>2. first \in Seq(S) /\ Len(first) = 1 /\ first[1] = Preamble
  BY DEF PartsIn
<1>3. Parts(used, ed, k) = first \o rest
  BY DEF Parts
<1>. HIDE DEF first, rest, S
<1>4. Sequence(first) /\ Sequence(rest)
  BY <1>1, <1>2 DEF Sequence
<1>5. Joins(first, rest, Parts(used, ed, k))
  BY <1>3, <1>4, JoinedSeq
<1>6. Parts(used, ed, k) \in Seq(S)
  BY <1>1, <1>2, <1>3
<1>. QED  BY <1>1, <1>2, <1>5, <1>6 DEF Joins, S

LEMMA PartsOfNone == ASSUME NEW used, NEW ed PROVE Parts(used, ed, 0) = <<Preamble>>
<1>1. Parts(used, ed, 0) \in Seq(PartsIn(used, ed, 0)) /\ Len(Parts(used, ed, 0)) = 1
      /\ Parts(used, ed, 0)[1] = Preamble
  <2>1. 0 \in Nat /\ 0 + 1 = 1
    OBVIOUS
  <2>. QED  BY <2>1, PartsAre, Zenon
<1>. QED  BY <1>1

LEMMA PartsGrow ==
    ASSUME NEW used, NEW ed, NEW k \in Nat
    PROVE  Parts(used, ed, k + 1) = Append(Parts(used, ed, k), PartAt(used, ed, k + 1))
<1>. DEFINE S == PartsIn(used, ed, k + 1)
            e == PartAt(used, ed, k + 1)
<1>1. Parts(used, ed, k + 1) \in Seq(S) /\ Len(Parts(used, ed, k + 1)) = k + 2
      /\ Parts(used, ed, k + 1)[1] = Preamble /\ \A i \in 1..(k + 1) : Parts(used, ed, k + 1)[i + 1] = PartAt(used, ed, i)
  <2>1. k + 1 \in Nat /\ (k + 1) + 1 = k + 2
    OBVIOUS
  <2>2. Parts(used, ed, k + 1) \in Seq(S) /\ Len(Parts(used, ed, k + 1)) = (k + 1) + 1
        /\ Parts(used, ed, k + 1)[1] = Preamble /\ \A i \in 1..(k + 1) : Parts(used, ed, k + 1)[i + 1] = PartAt(used, ed, i)
    BY <2>1, PartsAre, Zenon
  <2>. QED  BY <2>1, <2>2, Zenon
<1>2. Parts(used, ed, k) \in Seq(S) /\ Len(Parts(used, ed, k)) = k + 1
      /\ Parts(used, ed, k)[1] = Preamble /\ \A i \in 1..k : Parts(used, ed, k)[i + 1] = PartAt(used, ed, i)
  <2>1. PartsIn(used, ed, k) \subseteq S
    BY DEF PartsIn
  <2>. HIDE DEF S
  <2>. QED  BY <2>1, PartsAre, SeqMonotonic
<1>3. e \in S
  BY DEF PartsIn
<1>. HIDE DEF S, e
<1>4. /\ Append(Parts(used, ed, k), e) \in Seq(S) /\ Len(Append(Parts(used, ed, k), e)) = k + 2
      /\ \A i \in 1..(k + 1) : Append(Parts(used, ed, k), e)[i] = Parts(used, ed, k)[i]
      /\ Append(Parts(used, ed, k), e)[k + 2] = e
  BY <1>2, <1>3, AppendProperties
<1>5. ASSUME NEW i \in 1..(k + 2) PROVE Parts(used, ed, k + 1)[i] = Append(Parts(used, ed, k), e)[i]
  <2>1. CASE i = 1
    BY <1>1, <1>2, <1>4, <2>1
  <2>2. CASE i = k + 2
    <3>1. k + 1 \in 1..(k + 1) /\ (k + 1) + 1 = k + 2
      OBVIOUS
    <3>. QED  BY <1>1, <1>4, <2>2, <3>1 DEF e
  <2>3. CASE i \in 2..(k + 1)
    <3>. DEFINE j == i - 1
    <3>1. j \in 1..k /\ j \in 1..(k + 1) /\ i \in 1..(k + 1) /\ j + 1 = i
      BY <2>3
    <3>. HIDE DEF j
    <3>. QED  BY <1>1, <1>2, <1>4, <3>1
  <2>4. i = 1 \/ i = k + 2 \/ i \in 2..(k + 1)
    OBVIOUS
  <2>. QED  BY <2>1, <2>2, <2>3, <2>4, Zenon
<1>. QED  BY <1>1, <1>4, <1>5, SeqEqual DEF e

-------------------------------------------------------------------------------
(* The build.                                                                *)

\* The write of a page's turn, and of the first turn, that is for a file.
Place(f) == CASE f = "html" -> 1 [] f = "css" -> 2 [] f = "js" -> 3
StartPlace(f) == CASE f = "html" -> 4 [] f = "js" -> 5 [] f = "css" -> 6

\* How many pages the write at place c of a page's turn has done.
Count(c) == turn - 2 + (IF nth > c THEN 1 ELSE 0)

\* Wins, among the first k pages of those that are used.
WinsTo(used, k, l, i, a) ==
    /\ a \in TextsOf[used[i]][l]
    /\ \A j \in i + 1 .. k :
        \A b \in TextsOf[used[j]][l] : b # a /\ ~Within(a, b) /\ ~Within(b, a)

\* The language file has the texts of the first k pages.
TextsTo(k, l) ==
    \A i \in 1..k : \A a \in Texts :
        WinsTo(usePages, k, l, i, a) => Stands(l, i, a)

\* What the build has written, before, in and after the turns of the pages.
StartedInv ==
    /\ handlers = <<>>
    /\ \A f \in Types : nth > StartPlace(f) => out[f] = <<Preamble>> /\ f \notin cut
JoinedInv ==
    /\ \A f \in Types : out[f] = Parts(usePages, edition, Count(Place(f))) /\ f \notin cut
    /\ handlers = HandlersTo(usePages, Count(3))
    /\ \A q \in 1..Len(Languages) : TextsTo(Count(3 + q), Languages[q])

OutInv == out = [f \in Types |-> out[f]]
TextsInv == \A l \in AllLanguages : DOMAIN i18n[l] \subseteq Texts

BuildInv ==
    /\ OutInv /\ LanguagesInv /\ TextsInv
    /\ script = "buildPages" =>
        /\ turn = 1 => StartedInv
        /\ turn \in 2..(Len(usePages) + 2) => JoinedInv
        /\ turn = Len(usePages) + 3 => PagesAreComplete
    /\ done = "buildPages" => PagesAreComplete

\* A write moves its own count on, and no other.
LEMMA CountStep ==
    ASSUME Proceeds, NEW n \in Nat, Len(plan[turn]) = n, turn \in Nat, nth \in 1..n, NEW c \in 1..n
    PROVE  /\ Count(c)' = IF c = nth THEN Count(c) + 1 ELSE Count(c)
           /\ Count(nth) = turn - 2 /\ turn' \in {turn, turn + 1}
           /\ Count(c) \in {turn - 2, turn - 1}
<1>1. CASE nth < n
  BY <1>1 DEF Proceeds, Count
<1>2. CASE ~(nth < n)
  BY <1>2 DEF Proceeds, Count
<1>. QED  BY <1>1, <1>2

\* What lies within a text that lies within another lies within that.
LEMMA WithinIsTransitive ==
    ASSUME NEW a \in Texts, NEW b \in Texts, NEW c \in Texts, Within(a, b), Within(b, c)
    PROVE  Within(a, c)
<1>1. a \in Seq(STRING) /\ b \in Seq(STRING) /\ c \in Seq(STRING)
  BY BuildAssumption
<1>2. /\ Len(b) <= Len(a) /\ SubSeq(b, 1, Len(b)) = SubSeq(a, 1, Len(b)) /\ b # a
      /\ Len(c) <= Len(b) /\ SubSeq(c, 1, Len(c)) = SubSeq(b, 1, Len(c)) /\ c # b
  BY DEF Within, IsStrictPrefix, IsPrefix
<1>3. Len(c) <= Len(a) /\ Len(a) \in Nat /\ Len(b) \in Nat /\ Len(c) \in Nat
  BY <1>1, <1>2
<1>4. \A i \in 1..Len(b) : b[i] = a[i]
  BY <1>1, <1>2
<1>5. \A i \in 1..Len(c) : c[i] = b[i] /\ i \in 1..Len(b)
  BY <1>1, <1>2
<1>6. \A i \in 1..Len(c) : c[i] = a[i]
  BY <1>4, <1>5
<1>7. SubSeq(c, 1, Len(c)) = SubSeq(a, 1, Len(c))
  BY <1>1, <1>3, <1>6
<1>8. c # a
  <2>1. Len(a) = Len(b) /\ a = c => a = b
    BY <1>1, <1>4
  <2>2. a = c => Len(a) = Len(b)
    BY <1>2, <1>3
  <2>. QED  BY <1>2, <2>1, <2>2
<1>. QED  BY <1>3, <1>7, <1>8 DEF Within, IsStrictPrefix, IsPrefix

\* An array around a text stays if no added text is around that.
LEMMA ListStays ==
    ASSUME NEW l \in AllLanguages, NEW added \in SUBSET Texts, NEW part, NEW a \in Texts,
           DOMAIN i18n[l] \subseteq Texts, i18n'[l] = Merge(l, added, part),
           InList(l, a), \A c \in added : ~Within(a, c)
    PROVE  InList(l, a)'
<1>. DEFINE placed == Placed(l, added)
<1>1. PICK b \in DOMAIN i18n[l] : Within(a, b) /\ IsList(l, b)
  BY DEF InList
<1>2. placed \subseteq added
  BY DEF Placed
<1>3. /\ DOMAIN i18n'[l] = placed \cup {c \in DOMAIN i18n[l] : \A d \in placed : ~Within(c, d)}
      /\ \A c \in DOMAIN i18n'[l] : i18n'[l][c] = IF c \in placed THEN part ELSE i18n[l][c]
  BY DEF Merge
<1>. HIDE DEF placed
<1>4. \A d \in placed : d \in Texts /\ ~Within(b, d)
  <2>1. b \in Texts
    BY <1>1
  <2>2. \A d \in placed : d \in Texts /\ d \in added
    BY <1>2
  <2>. QED  BY <1>1, <2>1, <2>2, WithinIsTransitive
<1>5. b \notin placed
  BY <1>1, <1>2
<1>6. b \in DOMAIN i18n'[l] /\ i18n'[l][b] = i18n[l][b]
  BY <1>1, <1>3, <1>4, <1>5
<1>. QED  BY <1>1, <1>6 DEF InList, IsList

\* The texts of the next page are merged.
LEMMA TextsGrow ==
    ASSUME NEW k \in Nat, NEW l \in AllLanguages, NEW p \in Pages, p = usePages[k + 1],
           LanguagesInv, TextsInv, TextsTo(k, l), l \notin cut, cut' = cut, UNCHANGED <<usePages, edition>>,
           i18n' = [i18n EXCEPT ![l] = Merge(l, TextsOf[p][l], Part(p))]
    PROVE  \A i \in 1..(k + 1) : \A a \in Texts : WinsTo(usePages, k + 1, l, i, a) => Stands(l, i, a)'
<1>. DEFINE added == TextsOf[p][l]  part == Part(p)  placed == Placed(l, added)
<1>1. i18n'[l] = Merge(l, added, part)
  BY DEF LanguagesInv
<1>2. /\ DOMAIN i18n'[l] = placed \cup {b \in DOMAIN i18n[l] : \A c \in placed : ~Within(b, c)}
      /\ \A a \in DOMAIN i18n'[l] : i18n'[l][a] = IF a \in placed THEN part ELSE i18n[l][a]
  BY <1>1 DEF Merge
<1>3. SUFFICES ASSUME NEW i \in 1..(k + 1), NEW a \in Texts, WinsTo(usePages, k + 1, l, i, a)
      PROVE  Stands(l, i, a)'
  OBVIOUS
<1>4. /\ added \in SUBSET Texts /\ placed \subseteq added /\ \A b \in added : InList(l, b) <=> b \notin placed
      /\ DOMAIN i18n[l] \subseteq Texts
  BY DEF Texts, Placed, TextsInv
<1>5. \A b \in added : a \in added => ~Within(a, b)
  BY BuildAssumption
<1>6. \A j : Part(usePages[j])' = Part(usePages[j])
  BY DEF Part
<1>. HIDE DEF added, part, placed
<1>7. InList(l, a) /\ (\A c \in added : ~Within(a, c)) => InList(l, a)'
  BY <1>1, <1>4, ListStays
<1>8. CASE i = k + 1
  <2>1. a \in added /\ part = Part(usePages[i])
    BY <1>3, <1>8 DEF WinsTo, added, part
  <2>2. CASE a \in placed
    BY <1>2, <1>6, <2>1, <2>2 DEF Stands
  <2>3. CASE a \notin placed
    BY <1>4, <1>5, <1>7, <2>1, <2>3 DEF Stands
  <2>. QED  BY <2>2, <2>3
<1>9. CASE i # k + 1
  <2>1. i \in 1..k /\ k + 1 \in (i + 1)..(k + 1)
    BY <1>9
  <2>2. \A b \in added : b # a /\ ~Within(a, b)
    BY <1>3, <2>1 DEF WinsTo, added
  <2>3. WinsTo(usePages, k, l, i, a)
    <3>1. \A j \in (i + 1)..k : j \in (i + 1)..(k + 1)
      BY <2>1
    <3>. QED  BY <1>3, <3>1 DEF WinsTo
  <2>4. Stands(l, i, a)
    BY <2>1, <2>3 DEF TextsTo
  <2>5. CASE InList(l, a)
    BY <1>7, <2>2, <2>5 DEF Stands
  <2>6. CASE a \in DOMAIN i18n[l] /\ i18n[l][a] = Part(usePages[i])
    BY <1>2, <1>4, <1>6, <2>2, <2>6 DEF Stands
  <2>. QED  BY <2>4, <2>5, <2>6 DEF Stands
<1>. QED  BY <1>8, <1>9

\* What stands in a language file that is not written stays there.
LEMMA StandsStill ==
    ASSUME NEW l, i18n'[l] = i18n[l], cut' \subseteq cut, UNCHANGED <<usePages, edition>>,
           NEW i, NEW a, Stands(l, i, a)
    PROVE  Stands(l, i, a)'
BY DEF Stands, InList, IsList, Part

\* A write of the first turn.
LEMMA StartWrite ==
    ASSUME BuildInv, CourseInv, BuildStep, turn = 1, nth \in 1..6, Len(plan[turn]) = 6, Step = StartSteps[nth]
    PROVE  BuildInv'
<1>1. /\ script = "buildPages" /\ script' = script /\ done' = done /\ done' = "none"
      /\ usePages' = usePages /\ edition' = edition /\ i18n' = i18n /\ LanguagesInv
      /\ handlers = <<>> /\ \A f \in Types : nth > StartPlace(f) => out[f] = <<Preamble>> /\ f \notin cut
      /\ out = [f \in Types |-> out[f]]
      /\ out' = [out EXCEPT ![Step[2]] = Written(Step)] /\ cut' = cut \ {Step[2]}
  BY DEF BuildStep, Proceeds, inputVars, CourseInv, PlaceInv, BuildInv, StartedInv, OutInv
<1>2. IF nth < 6 THEN nth' = nth + 1 /\ turn' = 1 ELSE nth' = 1 /\ turn' = 2
  BY DEF BuildStep, Proceeds
<1>3. Step[1] \in {"remove", "preamble"} /\ Step[2] \in Types
  BY StartStepsAre DEF Types
<1>4. handlers' = <<>>
  BY <1>1, <1>3 DEF BuildStep
<1>5. OutInv' /\ LanguagesInv' /\ TextsInv'
  BY <1>1 DEF OutInv, LanguagesInv, TextsInv, BuildInv
<1>6. ASSUME NEW f \in Types, nth >= StartPlace(f) PROVE out'[f] = <<Preamble>> /\ f \notin cut'
  <2>1. StartPlace(f) \in 4..6 /\ (StartPlace(f) = nth => Step = <<"preamble", f>>)
    BY StartStepsAre DEF StartPlace, Types
  <2>2. CASE StartPlace(f) = nth
    BY <1>1, <2>1, <2>2 DEF Written
  <2>3. CASE StartPlace(f) # nth
    <3>1. nth > StartPlace(f) /\ nth \in 4..6
      BY <1>6, <2>1, <2>3
    <3>2. Step[1] = "preamble"
      BY <3>1, StartStepsAre
    <3>3. Written(Step) = <<Preamble>>
      BY <3>2 DEF Written
    <3>. QED  BY <1>1, <3>1, <3>3
  <2>. QED  BY <2>2, <2>3
<1>7. CASE nth < 6
  <2>1. turn' = 1 /\ nth' = nth + 1
    BY <1>2, <1>7
  <2>2. \A f \in Types : StartPlace(f) \in Nat /\ (nth' > StartPlace(f) => nth >= StartPlace(f))
    BY <2>1 DEF StartPlace, Types
  <2>3. StartedInv'
    BY <1>4, <1>6, <2>2 DEF StartedInv, StartPlace
  <2>4. Len(usePages') \in Nat
    BY <1>1, BuildTurn DEF BuildStep
  <2>. QED  BY <1>1, <1>5, <2>1, <2>3, <2>4 DEF BuildInv
<1>8. CASE nth = 6
  <2>1. turn' = 2 /\ nth' = 1
    BY <1>2, <1>8
  <2>2. \A f \in Types : nth >= StartPlace(f) /\ Place(f) \in 1..3
    BY <1>8 DEF StartPlace, Place, Types
  <2>3. \A c \in Nat \ {0} : Count(c)' = 0
    BY <2>1 DEF Count
  <2>4. ASSUME NEW f \in Types PROVE (out[f] = Parts(usePages, edition, Count(Place(f))) /\ f \notin cut)'
    <3>1. Count(Place(f))' = 0
      BY <2>2, <2>3
    <3>. QED  BY <1>6, <2>2, <3>1, PartsOfNone
  <2>5. (handlers = HandlersTo(usePages, Count(3)))'
    BY <1>4, <2>3 DEF HandlersTo
  <2>6. ASSUME NEW q \in 1..Len(Languages) PROVE TextsTo(Count(3 + q), Languages[q])'
    <3>1. Count(3 + q)' = 0
      BY <2>3
    <3>. QED  BY <3>1 DEF TextsTo
  <2>7. JoinedInv'
    BY <2>4, <2>5, <2>6 DEF JoinedInv
  <2>8. Len(usePages') \in Nat
    BY <1>1, BuildTurn DEF BuildStep
  <2>. QED  BY <1>1, <1>5, <2>1, <2>7, <2>8 DEF BuildInv
<1>. QED  BY <1>7, <1>8

\* A write of a page's turn.
LEMMA PageTurn ==
    ASSUME BuildInv, CourseInv, script = "buildPages", ~AtEnd, turn \in 2..(Len(usePages) + 1), Proceeds,
           usePages' = usePages, edition' = edition
    PROVE  /\ JoinedInv /\ turn' \in 2..(Len(usePages) + 2) /\ nth \in 1..(3 + Len(Languages))
           /\ Step = PageSteps(usePages[turn - 1])[nth]
           /\ Len(usePages) \in Nat /\ Len(Languages) \in Nat /\ usePages \in Seq(Pages)
           /\ \A c \in 1..(3 + Len(Languages)) :
                /\ Count(c) \in 0..Len(usePages)
                /\ c # nth => Count(c)' = Count(c)
                /\ c = nth => Count(c) = turn - 2 /\ Count(c)' = Count(c) + 1
<1>1. /\ usePages \in Seq(Pages) /\ Len(usePages) \in Nat /\ Len(Languages) \in Nat
      /\ Len(plan[turn]) = 3 + Len(Languages) /\ nth \in 1..(3 + Len(Languages))
      /\ Step = PageSteps(usePages[turn - 1])[nth]
  BY BuildTurn
<1>2. JoinedInv
  BY <1>1 DEF BuildInv
<1>. DEFINE n == 3 + Len(Languages)
<1>3. n \in Nat /\ Len(plan[turn]) = n /\ turn \in Nat /\ nth \in 1..n
  BY <1>1
<1>. HIDE DEF n
<1>4. ASSUME NEW c \in 1..n
      PROVE  /\ Count(c)' = IF c = nth THEN Count(c) + 1 ELSE Count(c)
             /\ Count(nth) = turn - 2 /\ turn' \in {turn, turn + 1}
             /\ Count(c) \in {turn - 2, turn - 1}
  BY <1>3, CountStep
<1>5. \A c \in 1..n :
        /\ Count(c) \in 0..Len(usePages)
        /\ c # nth => Count(c)' = Count(c)
        /\ c = nth => Count(c) = turn - 2 /\ Count(c)' = Count(c) + 1
  BY <1>1, <1>4
<1>6. turn' \in 2..(Len(usePages) + 2)
  BY <1>1, <1>3, <1>4
<1>. QED  BY <1>1, <1>2, <1>5, <1>6 DEF n

\* A page is appended to one of the files.
LEMMA PageWrite ==
    ASSUME BuildInv, CourseInv, BuildStep, turn \in 2..(Len(usePages) + 1)
    PROVE  BuildInv'
<1>. DEFINE p == usePages[turn - 1]  f == Step[2]
<1>1. /\ script = "buildPages" /\ ~AtEnd /\ Proceeds /\ script' = script /\ done' = done /\ done' = "none"
      /\ usePages' = usePages /\ edition' = edition /\ i18n' = i18n /\ LanguagesInv
      /\ out = [g \in Types |-> out[g]]
      /\ out' = [out EXCEPT ![f] = Written(Step)] /\ cut' = cut \ {f}
      /\ handlers' = IF Step[1] = "append" /\ f = "js" THEN handlers \o NewHandler(Step[3]) ELSE handlers
      /\ Step[1] # "texts"
  BY DEF BuildStep, Proceeds, inputVars, CourseInv, PlaceInv, BuildInv, OutInv
<1>2. /\ JoinedInv /\ turn' \in 2..(Len(usePages) + 2) /\ nth \in 1..(3 + Len(Languages))
      /\ Step = PageSteps(p)[nth]
      /\ Len(usePages) \in Nat /\ Len(Languages) \in Nat /\ usePages \in Seq(Pages)
      /\ \A c \in 1..(3 + Len(Languages)) :
            /\ Count(c) \in 0..Len(usePages)
            /\ c # nth => Count(c)' = Count(c)
            /\ c = nth => Count(c) = turn - 2 /\ Count(c)' = Count(c) + 1
  BY <1>1, PageTurn
<1>3. nth \in 1..3
  <2>1. SUFFICES ASSUME nth \in 4..(3 + Len(Languages)) PROVE FALSE
    BY <1>2
  <2>. DEFINE q == nth - 3
  <2>2. q \in 1..Len(Languages) /\ nth = 3 + q
    BY <1>2, <2>1
  <2>3. Step = <<"texts", Languages[q], p>>
    BY <1>2, <2>2, PageStepsAre
  <2>. QED  BY <1>1, <2>3
<1>4. Step[1] = "append" /\ f \in Types /\ Step[3] = p /\ Place(f) = nth
  <2>1. CASE nth = 1
    <3>1. Step = <<"append", "html", p>>
      BY <1>2, <2>1, PageStepsAre
    <3>. QED  BY <2>1, <3>1 DEF Place, Types
  <2>2. CASE nth = 2
    <3>1. Step = <<"append", "css", p>>
      BY <1>2, <2>2, PageStepsAre
    <3>. QED  BY <2>2, <3>1 DEF Place, Types
  <2>3. CASE nth = 3
    <3>1. Step = <<"append", "js", p>>
      BY <1>2, <2>3, PageStepsAre
    <3>. QED  BY <2>3, <3>1 DEF Place, Types
  <2>. QED  BY <1>3, <2>1, <2>2, <2>3
<1>5. Written(Step) = Append(out[f], Part(p))
  BY <1>4 DEF Written
<1>6. \A g \in Types : Place(g) \in 1..3 /\ (Place(g) = nth => g = f)
  BY <1>4 DEF Place, Types
<1>7. 1..3 \subseteq 1..(3 + Len(Languages)) /\ \A q \in 1..Len(Languages) : 3 + q \in 1..(3 + Len(Languages)) /\ 3 + q # nth
  BY <1>2, <1>3, SMTT(30)
<1>. HIDE DEF p, f
<1>8. ASSUME NEW g \in Types PROVE (out[g] = Parts(usePages, edition, Count(Place(g))) /\ g \notin cut)'
  <2>1. CASE g = f
    <3>1. Count(Place(g))' = Count(Place(g)) + 1 /\ Count(Place(g)) = turn - 2 /\ Count(Place(g)) \in Nat
      BY <1>2, <1>4, <1>6, <1>7, <2>1
    <3>2. PICK k \in Nat : k = Count(Place(g))
      BY <3>1
    <3>3. k + 1 = turn - 1
      BY <1>2, <3>1, <3>2
    <3>4. out'[g] = Append(out[g], Part(p))
      BY <1>1, <1>5, <2>1
    <3>5. Parts(usePages, edition, k + 1) = Append(Parts(usePages, edition, k), Part(p))
      BY <3>3, PartsGrow DEF PartAt, Part, p
    <3>6. out[g] = Parts(usePages, edition, k)
      BY <1>2, <3>2 DEF JoinedInv
    <3>7. Count(Place(g))' = k + 1
      BY <3>1, <3>2
    <3>. QED  BY <1>1, <2>1, <3>4, <3>5, <3>6, <3>7
  <2>2. CASE g # f
    <3>1. Count(Place(g))' = Count(Place(g))
      BY <1>2, <1>6, <1>7, <2>2
    <3>. QED  BY <1>1, <1>2, <2>2, <3>1 DEF JoinedInv
  <2>. QED  BY <2>1, <2>2
<1>9. (handlers = HandlersTo(usePages, Count(3)))'
  <2>1. CASE f = "js"
    <3>1. nth = 3
      BY <1>4, <2>1 DEF Place
    <3>2. Count(3)' = Count(3) + 1 /\ Count(3) = turn - 2 /\ Count(3) \in Nat
      BY <1>2, <3>1
    <3>3. PICK k \in Nat : k = Count(3)
      BY <3>2
    <3>4. k + 1 = turn - 1 /\ k < Len(usePages)
      BY <1>2, <3>2, <3>3
    <3>5. HandlersTo(usePages, k + 1) = HandlersTo(usePages, k) \o NewHandler(p)
      BY <1>2, <3>4, HandlersGrow DEF p
    <3>6. handlers = HandlersTo(usePages, k)
      BY <1>2, <3>3 DEF JoinedInv
    <3>. QED  BY <1>1, <1>4, <2>1, <3>2, <3>3, <3>5, <3>6
  <2>2. CASE f # "js"
    <3>1. nth # 3
      BY <1>4, <2>2 DEF Place, Types
    <3>2. Count(3)' = Count(3)
      BY <1>2, <1>7, <3>1
    <3>. QED  BY <1>1, <1>2, <2>2, <3>2 DEF JoinedInv
  <2>. QED  BY <2>1, <2>2
<1>10. ASSUME NEW q \in 1..Len(Languages) PROVE TextsTo(Count(3 + q), Languages[q])'
  <2>1. Count(3 + q)' = Count(3 + q)
    BY <1>2, <1>7
  <2>2. TextsTo(Count(3 + q), Languages[q])
    BY <1>2 DEF JoinedInv
  <2>3. cut' \subseteq cut
    BY <1>1
  <2>. QED  BY <1>1, <2>1, <2>2, <2>3, StandsStill DEF TextsTo
<1>11. JoinedInv'
  BY <1>8, <1>9, <1>10 DEF JoinedInv
<1>12. OutInv' /\ LanguagesInv' /\ TextsInv'
  BY <1>1 DEF OutInv, LanguagesInv, TextsInv, BuildInv
<1>. QED  BY <1>1, <1>2, <1>11, <1>12 DEF BuildInv

\* The handlers are registered: the last write.
LEMMA LastWrite ==
    ASSUME BuildInv, CourseInv, BuildStep, turn = Len(usePages) + 2
    PROVE  BuildInv'
<1>1. /\ script = "buildPages" /\ ~AtEnd /\ Proceeds /\ script' = script /\ done' = done /\ done' = "none"
      /\ usePages' = usePages /\ edition' = edition /\ i18n' = i18n /\ LanguagesInv
      /\ out = [g \in Types |-> out[g]]
      /\ out' = [out EXCEPT ![Step[2]] = Written(Step)] /\ cut' = cut \ {Step[2]}
  BY DEF BuildStep, Proceeds, inputVars, CourseInv, PlaceInv, BuildInv, OutInv
<1>2. /\ usePages \in Seq(Pages) /\ Len(usePages) \in Nat /\ Len(Languages) \in Nat
      /\ nth = 1 /\ Len(plan[turn]) = 1 /\ Step = <<"register", "js">>
  BY <1>1, BuildTurn
<1>3. turn' = Len(usePages) + 3
  BY <1>1, <1>2 DEF Proceeds
<1>4. \A c \in Nat \ {0} : Count(c) = Len(usePages)
  BY <1>2 DEF Count
<1>5. \A f \in Types : out[f] = Parts(usePages, edition, Len(usePages)) /\ f \notin cut
  <2>1. JoinedInv
    BY <1>1, <1>2 DEF BuildInv
  <2>2. \A f \in Types : Place(f) \in Nat \ {0}
    BY DEF Place, Types
  <2>. QED  BY <1>4, <2>1, <2>2 DEF JoinedInv
<1>6. handlers = Handlers(usePages)
  <2>1. handlers = HandlersTo(usePages, Count(3))
    BY <1>1, <1>2 DEF BuildInv, JoinedInv
  <2>. QED  BY <1>2, <1>4, <2>1, HandlersAll
<1>7. Parts(usePages, edition, Len(usePages)) = Joined(usePages)
  <2>1. DOMAIN usePages = 1..Len(usePages)
    BY <1>2
  <2>. QED  BY <2>1 DEF Parts, PartAt, Joined, Part
<1>8. Written(Step) = out["js"] \o handlers /\ Step[2] = "js"
  BY <1>2 DEF Written
<1>9. out' = [f \in Types |-> IF f = "js" THEN Joined(usePages) \o Handlers(usePages) ELSE Joined(usePages)]
  BY <1>1, <1>5, <1>6, <1>7, <1>8 DEF Types
<1>10. cut' \cap Types = {}
  BY <1>1, <1>5
<1>11. ASSUME NEW l \in AllLanguages, NEW i \in DOMAIN usePages, NEW a \in Texts, Wins(l, i, a)
       PROVE  Stands(l, i, a)'
  <2>1. PICK q \in 1..Len(Languages) : l = Languages[q]
    BY BuildAssumption DEF AllLanguages
  <2>2. TextsTo(Count(3 + q), Languages[q])
    BY <1>1, <1>2 DEF BuildInv, JoinedInv
  <2>3. TextsTo(Len(usePages), l)
    BY <1>4, <2>1, <2>2
  <2>4. i \in 1..Len(usePages) /\ WinsTo(usePages, Len(usePages), l, i, a)
    BY <1>2, <1>11 DEF Wins, WinsTo
  <2>5. Stands(l, i, a)
    BY <2>3, <2>4 DEF TextsTo
  <2>6. InList(l, a)' = InList(l, a) /\ Part(usePages[i])' = Part(usePages[i]) /\ l \notin cut'
    BY <1>1, <2>5 DEF InList, IsList, Part, Stands
  <2>. QED  BY <1>1, <2>5, <2>6 DEF Stands
<1>12. (PagesAreComplete)'
  <2>1. Joined(usePages)' = Joined(usePages) /\ Handlers(usePages') = Handlers(usePages)
    BY <1>1 DEF Joined, Part
  <2>2. \A l, i, a : Wins(l, i, a)' = Wins(l, i, a)
    BY <1>1 DEF Wins
  <2>3. \A i : Part(usePages[i])' = Part(usePages[i])
    BY <1>1 DEF Part
  <2>4. (out = [f \in Types |-> IF f = "js" THEN Joined(usePages) \o Handlers(usePages) ELSE Joined(usePages)])'
    BY <1>1, <1>9, <2>1
  <2>5. (\A l \in AllLanguages : \A i \in DOMAIN usePages : \A a \in Texts :
          Wins(l, i, a) => Stands(l, i, a))'
    BY <1>1, <1>11, <2>2, <2>3
  <2>. QED  BY <1>10, <2>4, <2>5 DEF PagesAreComplete
<1>13. OutInv' /\ LanguagesInv' /\ TextsInv'
  BY <1>1 DEF OutInv, LanguagesInv, TextsInv, BuildInv
<1>. QED  BY <1>1, <1>2, <1>3, <1>12, <1>13 DEF BuildInv

\* The texts of a page are merged.
LEMMA TextsWrite ==
    ASSUME BuildInv, CourseInv, JoinTexts
    PROVE  BuildInv'
<1>1. /\ script = "buildPages" /\ ~AtEnd /\ done' = done /\ done' = "none" /\ Step[1] = "texts"
      /\ usePages' = usePages /\ edition' = edition /\ out' = out /\ cut' = cut /\ LanguagesInv
      /\ out = [g \in Types |-> out[g]]
  BY DEF JoinTexts, inputVars, CourseInv, PlaceInv, BuildInv, OutInv
<1>2. OutInv' /\ LanguagesInv'
  BY <1>1 DEF OutInv, LanguagesInv, JoinTexts
<1>3. CASE Leaves
  <2>1. i18n' = i18n /\ script' = "none"
    BY <1>1, <1>3 DEF Leaves, JoinTexts, Proceeds
  <2>2. TextsInv'
    BY <2>1 DEF TextsInv, BuildInv
  <2>. QED  BY <1>1, <1>2, <2>1, <2>2 DEF BuildInv
<1>4. CASE ~Leaves
  <2>. DEFINE f == Step[2]  p == Step[3]
  <2>1. /\ f \notin cut /\ i18n' = [i18n EXCEPT ![f] = Merge(f, TextsOf[p][f], Part(p))]
        /\ Proceeds /\ handlers' = handlers /\ script' = script
    BY <1>4 DEF JoinTexts, Proceeds
  <2>2. turn \in 2..(Len(usePages) + 1)
    <3>1. turn = 1 /\ nth \in 1..6 => Step # StartSteps[nth]
      BY <1>1, StartStepsAre
    <3>. QED  BY <1>1, <3>1, BuildTurn
  <2>3. /\ JoinedInv /\ turn' \in 2..(Len(usePages) + 2) /\ nth \in 1..(3 + Len(Languages))
        /\ Step = PageSteps(usePages[turn - 1])[nth]
        /\ Len(usePages) \in Nat /\ Len(Languages) \in Nat /\ usePages \in Seq(Pages)
        /\ \A c \in 1..(3 + Len(Languages)) :
              /\ Count(c) \in 0..Len(usePages)
              /\ c # nth => Count(c)' = Count(c)
              /\ c = nth => Count(c) = turn - 2 /\ Count(c)' = Count(c) + 1
    BY <1>1, <2>1, <2>2, PageTurn
  <2>4. nth \in 4..(3 + Len(Languages))
    <3>1. nth \in 1..3 => Step[1] = "append"
      BY <2>3, PageStepsAre
    <3>. QED  BY <1>1, <2>3, <3>1
  <2>5. PICK r \in 1..Len(Languages) : nth = 3 + r
    <3>1. nth - 3 \in 1..Len(Languages) /\ nth = 3 + (nth - 3)
      BY <2>3, <2>4
    <3>. QED  BY <3>1
  <2>6. f = Languages[r] /\ p = usePages[turn - 1] /\ f \in AllLanguages
    <3>1. Step = <<"texts", Languages[r], usePages[turn - 1]>>
      BY <2>3, <2>5, PageStepsAre
    <3>2. Languages[r] \in AllLanguages
      BY BuildAssumption
    <3>. QED  BY <3>1, <3>2
  <2>7. p \in Pages
    BY <2>2, <2>3, <2>6
  <2>8. TextsInv'
    <3>. DEFINE added == TextsOf[p][f]
    <3>1. added \subseteq Texts
      BY <2>6, <2>7 DEF Texts
    <3>2. Placed(f, added) \subseteq Texts
      BY <3>1 DEF Placed
    <3>3. DOMAIN Merge(f, added, Part(p)) \subseteq Texts
      BY <2>6, <3>2 DEF Merge, BuildInv, TextsInv
    <3>. QED  BY <1>1, <2>1, <2>6, <3>3 DEF BuildInv, TextsInv, LanguagesInv
  <2>. HIDE DEF f, p
  <2>9. 1..3 \subseteq 1..(3 + Len(Languages)) /\ \A c \in 1..3 : c # nth
    BY <2>3, <2>4
  <2>10. ASSUME NEW g \in Types PROVE (out[g] = Parts(usePages, edition, Count(Place(g))) /\ g \notin cut)'
    <3>1. Place(g) \in 1..3
      BY DEF Place, Types
    <3>2. Count(Place(g))' = Count(Place(g))
      BY <2>3, <2>9, <3>1
    <3>. QED  BY <1>1, <2>3, <3>2 DEF JoinedInv
  <2>11. (handlers = HandlersTo(usePages, Count(3)))'
    <3>1. Count(3)' = Count(3)
      BY <2>3, <2>9
    <3>. QED  BY <1>1, <2>1, <2>3, <3>1 DEF JoinedInv
  <2>12. ASSUME NEW q \in 1..Len(Languages) PROVE TextsTo(Count(3 + q), Languages[q])'
    <3>1. 3 + q \in 1..(3 + Len(Languages)) /\ (3 + q = nth <=> q = r)
      BY <2>3, <2>5
    <3>2. TextsTo(Count(3 + q), Languages[q])
      BY <2>3 DEF JoinedInv
    <3>3. CASE q = r
      <4>1. Count(3 + q) = turn - 2 /\ Count(3 + q)' = Count(3 + q) + 1 /\ Count(3 + q) \in Nat
        BY <2>3, <3>1, <3>3
      <4>2. PICK k \in Nat : k = Count(3 + q)
        BY <4>1
      <4>3. Count(3 + q)' = k + 1 /\ k + 1 = turn - 1 /\ TextsTo(k, f) /\ f = Languages[q]
        <5>1. Count(3 + q)' = k + 1
          BY <4>1, <4>2
        <5>2. k + 1 = turn - 1
          <6>1. k = turn - 2 /\ Len(usePages) \in Nat
            BY <2>3, <4>1, <4>2
          <6>. QED  BY <2>2, <6>1
        <5>3. f = Languages[q] /\ TextsTo(k, f)
          BY <2>6, <3>2, <3>3, <4>2
        <5>. QED  BY <5>1, <5>2, <5>3
      <4>4. PICK l \in AllLanguages : l = f
        BY <2>6
      <4>5. \A i \in 1..(k + 1) : \A a \in Texts : WinsTo(usePages, k + 1, l, i, a) =>
              Stands(l, i, a)'
        BY <1>1, <2>1, <2>6, <2>7, <4>3, <4>4, TextsGrow DEF BuildInv
      <4>. QED  BY <1>1, <4>3, <4>4, <4>5 DEF TextsTo
    <3>4. CASE q # r
      <4>1. Count(3 + q)' = Count(3 + q)
        BY <2>3, <3>1, <3>4
      <4>2. Languages[q] # f
        BY <2>6, <3>4, BuildAssumption
      <4>3. i18n'[Languages[q]] = i18n[Languages[q]]
        BY <2>1, <4>2
      <4>. QED  BY <1>1, <3>2, <4>1, <4>3, StandsStill DEF TextsTo
    <3>. QED  BY <3>3, <3>4
  <2>13. JoinedInv'
    BY <2>10, <2>11, <2>12 DEF JoinedInv
  <2>. QED  BY <1>1, <1>2, <2>1, <2>3, <2>13, <2>8 DEF BuildInv
<1>. QED  BY <1>3, <1>4

LEMMA BuildInit == Init => BuildInv
BY LanguagesInit DEF Init, BuildInv, OutInv, TextsInv, Texts

LEMMA BuildNext == ASSUME BuildInv, CourseInv, [Next]_vars PROVE BuildInv'
<1>1. CASE JoinTexts
  BY <1>1, TextsWrite
<1>2. CASE BuildStep
  <2>1. script = "buildPages" /\ ~AtEnd
    BY <1>2 DEF BuildStep
  <2>. QED  BY <1>2, <2>1, BuildTurn, StartWrite, PageWrite, LastWrite
<1>3. OutInv /\ LanguagesInv /\ TextsInv
  BY DEF BuildInv
<1>4. CASE SyncStep \/ VersionStep
  <2>1. script' = script /\ script # "buildPages" /\ done' = "none" /\ UNCHANGED pageVars
    BY <1>4 DEF SyncStep, VersionStep, Proceeds, CourseInv, PlaceInv
  <2>. QED  BY <1>3, <2>1 DEF BuildInv, OutInv, LanguagesInv, TextsInv, pageVars
<1>5. CASE Ends
  <2>1. /\ script' = "none" /\ done' = script /\ cut' = cut /\ UNCHANGED pageVars /\ UNCHANGED <<usePages, edition>>
        /\ script # "none" /\ AtEnd
    BY <1>5 DEF Ends, Leaves, inputVars
  <2>2. script = "buildPages" => PagesAreComplete
    <3>1. SUFFICES ASSUME script = "buildPages" PROVE PagesAreComplete
      OBVIOUS
    <3>2. Len(plan) = Len(usePages) + 2 /\ Len(usePages) \in Nat
      BY <3>1, BuildStepsAre DEF CourseInv, PlanInv, IsPlan
    <3>3. turn = Len(usePages) + 3
      BY <2>1, <3>2 DEF AtEnd, CourseInv, PlaceInv
    <3>. QED  BY <3>1, <3>3 DEF BuildInv
  <2>3. PagesAreComplete' = PagesAreComplete
    BY <2>1 DEF PagesAreComplete, Joined, Part, Wins, Stands, InList, IsList, pageVars
  <2>. QED  BY <1>3, <2>1, <2>2, <2>3 DEF BuildInv, OutInv, LanguagesInv, TextsInv, pageVars
<1>6. CASE Stops
  BY <1>3, <1>6 DEF Stops, Leaves, BuildInv, OutInv, LanguagesInv, TextsInv, CourseInv, PlaceInv
<1>7. ASSUME NEW name, NEW steps, Starts(name, steps) PROVE BuildInv'
  <2>1. /\ turn' = 1 /\ nth' = 1 /\ handlers' = <<>> /\ done' = "none" /\ out' = out /\ i18n' = i18n
        /\ usePages' = usePages
    BY <1>7 DEF Starts, inputVars
  <2>2. StartedInv'
    BY <2>1 DEF StartedInv, StartPlace, Types
  <2>3. Len(usePages') \in Nat
    BY <2>1 DEF CourseInv, PlanInv
  <2>. QED  BY <1>3, <2>1, <2>2, <2>3 DEF BuildInv, OutInv, LanguagesInv, TextsInv
<1>8. CASE RunBuildPages \/ RunSyncFiles \/ RunUpdateVersionInfos \/ RunPrebuild
  BY <1>7, <1>8 DEF RunBuildPages, RunSyncFiles, RunUpdateVersionInfos, RunPrebuild
<1>9. CASE EditPage \/ ChangePages \/ EditSource \/ EditTarget \/ Restore
  <2>1. script' = "none" /\ done' = "none" /\ UNCHANGED pageVars
    BY <1>9 DEF EditPage, ChangePages, EditSource, EditTarget, Restore, Edits, Rest, scriptVars
  <2>. QED  BY <1>3, <2>1 DEF BuildInv, OutInv, LanguagesInv, TextsInv, pageVars
<1>10. CASE UNCHANGED vars
  <2>1. UNCHANGED <<script, turn, nth, done, cut, usePages, edition, out, i18n, handlers>>
    BY <1>10 DEF vars, inputVars, pageVars, scriptVars
  <2>2. PagesAreComplete' = PagesAreComplete
    BY <2>1 DEF PagesAreComplete, Joined, Part, Wins, Stands, InList, IsList
  <2>3. StartedInv' = StartedInv /\ JoinedInv' = JoinedInv
    BY <2>1 DEF StartedInv, JoinedInv, TextsTo, Stands, InList, IsList, Count, Part
  <2>. QED  BY <2>1, <2>2, <2>3 DEF BuildInv, OutInv, LanguagesInv, TextsInv
<1>. QED  BY <1>1, <1>2, <1>4, <1>5, <1>6, <1>8, <1>9, <1>10 DEF Next

-------------------------------------------------------------------------------
(* The theorems.                                                             *)

\* A version number is given once, wherever the scripts are stopped.
THEOREM VersionsOnlyIncrease == Spec => VersionsIncrease
<1>1. Init => VersionsInv /\ CourseInv
  BY VersionsInit, CourseInit
<1>2. VersionsInv /\ CourseInv /\ [Next]_vars => VersionsInv' /\ CourseInv'
  BY VersionsStep, CourseStep
<1>3. VersionsInv /\ CourseInv /\ [Next]_vars => [version' # version => Less(version, version')]_vars
  BY VersionsStep
<1>. QED  BY <1>1, <1>2, <1>3, PTL DEF Spec, VersionsIncrease

\* The newest edit of the two files outlives every copy, whole or cut.
THEOREM NewestEditIsKept == Spec => NewestIsKept
<1>1. Init => SyncInv /\ CourseInv
  BY SyncInit, CourseInit
<1>2. SyncInv /\ CourseInv /\ [Next]_vars => SyncInv' /\ CourseInv'
  BY SyncNext, CourseStep
<1>3. SyncInv /\ CourseInv /\ [Next]_vars => [script = "syncFiles" => Kept]_vars
  BY SyncNext
<1>. QED  BY <1>1, <1>2, <1>3, PTL DEF Spec, NewestIsKept, Kept

\* No build takes a text from a language file, or writes over one that it cannot read.
THEOREM NoTextIsLost == Spec => TextsStay
<1>1. Init => LanguagesInv
  BY LanguagesInit
<1>2. LanguagesInv /\ [Next]_vars => LanguagesInv'
  BY LanguagesStep
<1>3. LanguagesInv /\ [Next]_vars =>
        [\A l \in AllLanguages :
            /\ i18n'[l] # i18n[l] => l \notin cut
            /\ \A a \in DOMAIN i18n[l] : a \in DOMAIN i18n'[l] \/ \E b \in DOMAIN i18n'[l] : Within(a, b)]_vars
  BY LanguagesStep
<1>. QED  BY <1>1, <1>2, <1>3, PTL DEF Spec, TextsStay

\* What a script that came to its end has built is complete, wherever those before it were
\* stopped.
THEOREM BuiltIsComplete == Spec => []DoneIsComplete
<1>1. Init => BuildInv /\ SyncInv /\ VersionsInv /\ CourseInv
  BY BuildInit, SyncInit, VersionsInit, CourseInit
<1>2. BuildInv /\ SyncInv /\ VersionsInv /\ CourseInv /\ [Next]_vars
        => BuildInv' /\ SyncInv' /\ VersionsInv' /\ CourseInv'
  BY BuildNext, SyncNext, VersionsStep, CourseStep
<1>3. BuildInv /\ SyncInv /\ VersionsInv => DoneIsComplete
  BY DEF BuildInv, SyncInv, VersionsInv, DoneIsComplete
<1>. QED  BY <1>1, <1>2, <1>3, PTL DEF Spec
===============================================================================
