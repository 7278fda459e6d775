------------------------------ MODULE Port64User ----------------------------
(***************************************************************************)
(* The services of the 64-bit port, each a part of its own: "part" is      *)
(* chosen at the start and only the part that was chosen takes steps.      *)
(***************************************************************************)
EXTENDS Desktop64, Session64, Tools64, Packages64

MCLimits == {<<2,0>>}
MCSetKeys == {<<<<"c">>,<<"k">>>>, <<<<"c">>,<<"l">>>>}
MCSetWatches == {{<<<<"c">>,<<"k">>>>}, MCSetKeys}
MCSetTexts == SeqOf({"x", ".", "="}, 2) \cup {<<"#">>}
MCFilePaths == {<<1>>, <<1,1>>, <<2>>}
MCRegexAtoms == {[kind |-> "any"], [kind |-> "one", from |-> 1], [kind |-> "quoted", from |-> STAR],
                 [kind |-> "in", from |-> 1, to |-> 2], [kind |-> "out", from |-> 1]}
MCRegexTexts == {<<STAR>>, <<1, STAR>>} \cup UNION {[1 .. n -> {1, 2}] : n \in 1 .. 3}
MCShellWords == UNION {[1 .. n -> {1, SPACE, QUOTE, HASH, BACKSLASH}] : n \in 1 .. 2}
MCVersions == {<<>>, <<1>>, <<2>>, <<10>>, <<1,-1>>, <<1,-1,0>>, <<1,-1,2>>, <<1,-1,10>>,
    <<1,500>>, <<1,500,2>>, <<1,-1,2,-1,1>>, <<1,-1,2,501>>, <<500>>}
MCPkgVersions == {<<1>>, <<1,-1,5>>, <<2>>}
MCDepVersions == {<<1>>, <<2>>}
MCD(n) == [name |-> n, op |-> "any", ver |-> <<>>]
MCDepLists == {<<>>, <<MCD("c"), MCD("b")>>, <<[name |-> "c", op |-> ">=", ver |-> <<2>>]>>, <<MCD("a")>>}
MCTargetWants == {<<>>, <<"a">>, <<"b">>, <<"c">>, <<"a", "c">>, <<"b", "c">>, <<"c", "b">>}

\* The part that runs.
VARIABLE part
parts == {"wm", "bar", "theme", "launch", "panel", "menu", "color", "settings", "notifyd",
    "fileman", "conv", "regex", "make", "iconv", "py", "words", "wayland", "v", "d", "t", "x", "p",
    "u", "f", "w"}
allVars == <<part, wmdeVars, taskbar64_tab, themeVars, launcher64_tab, panel64_plugins, menuVars,
    theme64_in, settingsVars, notifydVars, filemanVars, settings64_in, regexVars, makeVars,
    iconvVars, pyVars, wordsVars, waylandVars, verVars, depVars, targetVars, txnVars, pkgVars,
    updVars, fileVars, fwVars>>

PartsInit ==
    /\ part \in parts
    /\ wmdeInit
    /\ taskbarInit
    /\ themeInit
    /\ launcherInit
    /\ panelInit
    /\ menuInit
    /\ IF part = "color" THEN colourInit ELSE theme64_in = <<0, 0, 0>>
    /\ settingsInit
    /\ notifydInit
    /\ filemanInit
    /\ IF part = "conv" THEN settings64_inInit ELSE settings64_in = [ch |-> <<"c">>, key |-> <<"k">>, val |-> <<>>, n |-> 0]
    /\ RegexInit
    /\ MakeInit
    /\ IconvInit
    /\ PyTreeInit
    /\ WordsInit
    /\ WaylandInit
    /\ VerInit
    /\ DepInit
    /\ TargetInit
    /\ TxnInit
    /\ PkgInit
    /\ UpdInit
    /\ FileInit
    /\ FwInit
PartsNext ==
    /\ UNCHANGED part
    /\ IF part = "wm" THEN wmdeNext ELSE UNCHANGED wmdeVars
    /\ IF part = "bar" THEN taskbarNext ELSE UNCHANGED taskbar64_tab
    /\ IF part = "theme" THEN themeNext ELSE UNCHANGED themeVars
    /\ IF part = "launch" THEN launcherNext ELSE UNCHANGED launcher64_tab
    /\ IF part = "panel" THEN panelNext ELSE UNCHANGED panel64_plugins
    /\ IF part = "menu" THEN menuNext ELSE UNCHANGED menuVars
    /\ UNCHANGED theme64_in
    /\ IF part = "settings" THEN settingsNext ELSE UNCHANGED settingsVars
    /\ IF part = "notifyd" THEN notifydNext ELSE UNCHANGED notifydVars
    /\ IF part = "fileman" THEN filemanNext ELSE UNCHANGED filemanVars
    /\ UNCHANGED settings64_in
    /\ IF part = "regex" THEN RegexNext ELSE UNCHANGED regexVars
    /\ IF part = "make" THEN MakeNext ELSE UNCHANGED makeVars
    /\ IF part = "iconv" THEN IconvNext ELSE UNCHANGED iconvVars
    /\ IF part = "py" THEN PyNext ELSE UNCHANGED pyVars
    /\ IF part = "words" THEN WordsNext ELSE UNCHANGED wordsVars
    /\ IF part = "wayland" THEN WaylandNext ELSE UNCHANGED waylandVars
    /\ IF part = "v" THEN VerNext ELSE UNCHANGED verVars
    /\ IF part = "d" THEN DepNext ELSE UNCHANGED depVars
    /\ IF part = "t" THEN TargetNext ELSE UNCHANGED targetVars
    /\ IF part = "x" THEN TxnNext ELSE UNCHANGED txnVars
    /\ IF part = "p" THEN PkgNext ELSE UNCHANGED pkgVars
    /\ IF part = "u" THEN UpdNext ELSE UNCHANGED updVars
    /\ IF part = "f" THEN FileNext ELSE UNCHANGED fileVars
    /\ IF part = "w" THEN FwNext ELSE UNCHANGED fwVars
PartsSpec == PartsInit /\ [][PartsNext]_allVars

------------------------------
\* What the user sees: windows, themes, settings and files are as they were
\* left, the tools compute what they should, and packages are solved, ordered,
\* signed and applied as they should be.
UserServicesSound ==
    /\ FocusVisible /\ GeometryRestored /\ StackOrdered /\ ButtonsOrdered
    /\ LineageEnds /\ ColoursSound /\ TopIsTop /\ MenuCounted
    /\ ChangesReported /\ ExportImports /\ NumbersComeBack /\ PathsUnique /\ ListOrdered
    /\ PatternsMatch /\ BuildsComplete /\ ConversionResumes /\ ExpressionsValued
    /\ WordsComeBack /\ HistoryNewest /\ EventsPolledInOrder
    /\ VersionsOrdered /\ SolveSound /\ SolveComplete /\ PlanSound
    /\ AppliedCompatible /\ SignedByKey /\ FilesInside /\ CopiedBeforeBoot

\* Moving a plugin loses none, expiring leaves nothing overdue, and a directory
\* is renamed with all there is below it, or the call fails; a rollback of
\* packages restores, a commit decides, and versions only go up.
UserServicesSteps ==
    [][/\ MoveKeepsPlugins /\ NoneOverdue /\ RenameMovesAll
       /\ RollbackRestores /\ CommitDecides /\ NoDowngrade]_allVars
==============================
