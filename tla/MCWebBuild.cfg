\* See MCWebBuild.tla.  The system may stop: the bounds end it.
CONSTANTS
    NoHandler = "none"
    Pages <- MCPages
    HandlerOf <- MCHandlerOf
    Languages <- MCLanguages
    TextsOf <- MCTextsOf
    OwnTexts <- MCOwnTexts
    ListsOf <- MCListsOf
    PageLists <- MCPageLists
    Rules = {"=", ">", "<", "<>"}
    Arguments = {"none", "-major", "-minor", "-patch"}
    ScriptSets = {{"buildPages"}, {"syncFiles"}, {"updateVersionInfos", "prebuild"}}
    MaxRuns = 4
    MaxEdits = 2
SPECIFICATION Spec
INVARIANTS
    DoneIsComplete
PROPERTIES
    TextsStay
    VersionsIncrease
    NewestIsKept
CHECK_DEADLOCK FALSE
