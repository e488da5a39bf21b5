---------------------------- MODULE AdminConsole ----------------------------
(* The admin console put together: the configuration and its form, the country multiselect, the   *)
(* languages, the log viewer and the page.  Their states are disjoint, so that they are taken one *)
(* at a time: "part" is chosen at the start and is the one that moves.  The part "form" is a      *)
(* value and what is typed, taken through an input.                                               *)
EXTENDS ConfigConsole, CountrySelect, ConsoleTexts, LogViewer, ConsolePage

CONSTANTS
  Parts,
  Probe, NoProbe   \* values and contents of the inputs of a path

ASSUME ProbeAssumption ==
  \A probed \in Probe :
    /\ probed.path \in FormPaths
    /\ IsValue(FieldKind[probed.path], probed.value)
    /\ IsContent(FieldKind[probed.path], probed.typed)

VARIABLES part, probe

consoleVars == <<configVars, selectVars, textVars, logVars, pageVars, part, probe>>

ConsoleInit ==
  /\ part \in Parts
  /\ ConfigInit /\ SelectInit /\ LogInit /\ PageInit /\ TextInit
  /\ part # "texts" => storedLocale = NoTag /\ storageWorks /\ fieldFiles = Locales
  /\ probe \in IF part = "form" THEN Probe ELSE {NoProbe}

ConsoleNext ==
  /\ UNCHANGED <<part, probe>>
  /\ \/ part = "config" /\ ConfigNext /\ UNCHANGED <<selectVars, textVars, logVars, pageVars>>
     \/ part = "select" /\ SelectNext /\ UNCHANGED <<configVars, textVars, logVars, pageVars>>
     \/ part = "texts" /\ TextNext /\ UNCHANGED <<configVars, selectVars, logVars, pageVars>>
     \/ part = "logs" /\ LogNext /\ UNCHANGED <<configVars, selectVars, textVars, pageVars>>
     \/ part = "page" /\ PageNext /\ UNCHANGED <<configVars, selectVars, textVars, logVars>>

ConsoleSpec == ConsoleInit /\ [][ConsoleNext]_consoleVars

-----------------------------------------------------------------------------
\* Showing a configuration in the form and saving it means what it meant, path by path, the paths
\* of the other tabs included.  Except a list in a single line, and entries with a comma or none.
LoadSaveKeeps ==
  part = "form" =>
    LET kind == FieldKind[probe.path]
    IN  Plain(kind, probe.value) =>
          Meaning(kind, Passed(probe.path, probe.value)) = Meaning(kind, probe.value)

\* What the form has stored once it stores again: saving twice is saving once, whatever was typed,
\* and what the schema accepted it accepts again.
SecondSaveHarmless ==
  part = "form" /\ Collectable(FieldKind[probe.path], probe.typed) =>
    LET kind == FieldKind[probe.path]
        once == Stored(probe.path, Collect(kind, probe.typed))
        twice == Stored(probe.path, Passed(probe.path, once))
    IN  /\ (kind = "line" => Len(once) < 2) => Meaning(kind, twice) = Meaning(kind, once)
        /\ Accepts(probe.path, once) => Accepts(probe.path, twice)

\* The form gives back what it was given: both of these.
FormKeeps == LoadSaveKeeps /\ SecondSaveHarmless

\* The console speaks the chosen language and finds it again when the page is reloaded; the texts
\* are looked at where the language moves.
ConsoleSpeaks == (part = "texts" => TextsSpeak) /\ LanguageSurvives

\* Type invariants: the log viewer's offset stays on a page boundary (logsState), the page shows one
\* of its screens, tabs and boxes.
ConsoleTypeOK == LogTypeOK /\ PageTypeOK
=============================================================================
