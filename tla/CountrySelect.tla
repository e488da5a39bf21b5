---------------------------- MODULE CountrySelect ----------------------------
(* The country multiselect of the form: one set of selected codes and two drawings of it, the     *)
(* chips and the list of options, which its handlers redraw as they go.                           *)
EXTENDS ConsoleForm

CONSTANTS
  Listed,     \* the codes of countries.js; others may be selected in a stored configuration
  Unlisted,
  Query,      \* what may be searched for: the codes whose code or name contains it
  NoQuery

ASSUME SelectAssumption ==
  /\ Listed \cap Unlisted = {} /\ NoQuery \notin Query
  /\ Listed \cup Unlisted \subseteq Nat /\ IsFiniteSet(Listed \cup Unlisted)

VARIABLES
  picked,     \* the selected codes
  chips, options,
  query, dropdown

selectVars == <<picked, chips, options, query, dropdown>>

Codes == Listed \cup Unlisted

\* sortedOptions, filtered as renderOptions does, with the boxes of the selected ones checked.
OptionsOf(codes, q) ==
  LET found == (Listed \cup codes) \cap (IF q = NoQuery THEN Codes ELSE q)
  IN  [code \in found |-> code \in codes]

\* The form is populated: the chips and the options are drawn.
SetValues(codes) ==
  /\ picked' = codes /\ chips' = codes /\ options' = OptionsOf(codes, query)
  /\ UNCHANGED <<query, dropdown>>

\* A click on a chip removes its code; both are drawn again.
ClickChip(code) ==
  /\ code \in chips
  /\ picked' = picked \ {code} /\ chips' = picked' /\ options' = OptionsOf(picked', query)
  /\ UNCHANGED <<query, dropdown>>

Toggle(code) ==
  /\ dropdown /\ code \in DOMAIN options
  /\ options' = [options EXCEPT ![code] = ~@]
  /\ picked' = IF options'[code] THEN picked \cup {code} ELSE picked \ {code}
  /\ UNCHANGED <<query, dropdown>>

\* Mutated: the chips are not drawn again.
ToggleOptionOnly(code) == Toggle(code) /\ UNCHANGED chips

\* The box of an option, which the browser checks or unchecks: the chips are drawn again, the
\* options are left, one that is no longer selected and not listed among them.
ToggleOption(code) == Toggle(code) /\ chips' = picked'

\* The list opens when the search field has the focus, and closes on Escape or a click elsewhere.
OpenOptions ==
  /\ ~dropdown /\ dropdown' = TRUE /\ options' = OptionsOf(picked, query)
  /\ UNCHANGED <<picked, chips, query>>

CloseOptions == dropdown /\ dropdown' = FALSE /\ UNCHANGED <<picked, chips, options, query>>

Search(q) ==
  /\ q # query /\ query' = q /\ options' = OptionsOf(picked, q)
  /\ UNCHANGED <<picked, chips, dropdown>>

SelectInit ==
  /\ picked = {} /\ chips = {} /\ query = NoQuery /\ dropdown = FALSE
  /\ options = OptionsOf({}, NoQuery)

SelectNext ==
  \/ \E codes \in SUBSET Codes : SetValues(codes)
  \/ \E code \in Codes : ClickChip(code) \/ ToggleOption(code)
  \/ OpenOptions \/ CloseOptions
  \/ \E q \in Query \cup {NoQuery} : Search(q)

SelectSpec == SelectInit /\ [][SelectNext]_selectVars

\* The chips, the checked options and the value the form collects are one set, whichever of them was
\* used last, what was searched for, and whenever an answer filled the form: a save stores what the
\* operator sees.
ViewsAgree ==
  /\ chips = picked
  /\ \A code \in DOMAIN options : options[code] <=> code \in picked
  /\ {code.place : code \in ToSet(FormatCountries(picked))} = chips
=============================================================================
