---------------------------- MODULE ConsoleTexts -----------------------------
(* The languages of the console: which texts each dictionary has, how the dictionaries of the     *)
(* fields are built, and how the language is chosen, stored and restored.  A text is known by its *)
(* language; a dictionary is the function from what it translates to the language it says it in.  *)
EXTENDS ConsoleFields, Naturals

Locales == {"en", "es", "ru", "ko", "fr", "de", "pt", "zh", "ja", "it"}
DefaultLocale == "en"

\* A language tag is a language and a region, which may be none; what is stored may be no tag.
NoRegion == "none"
Tag == [language : Locales \cup {"xx"}, region : {NoRegion, "XX"}]
NoTag == [language |-> "", region |-> NoRegion]
TagOf(locale) == [language |-> locale, region |-> NoRegion]

VARIABLES
  currentLocale,
  storedLocale,   \* what the storage of the browser holds
  storageWorks,
  fieldFiles      \* the locales with a file of field texts when the dictionaries were built

textVars == <<currentLocale, storedLocale, storageWorks, fieldFiles>>

-----------------------------------------------------------------------------
\* The dictionaries.  TAB_META and SECTION_DESC are complete.
TabMeta == [section \in TabIds |-> [locale \in Locales |-> locale]]
SectionDescriptions == [section \in TabIds |-> [locale \in Locales |-> locale]]

\* UI has some keys in English only; of the others, which all dictionaries have, two stand for all.
EnglishOnly == {"countryNoResults", "countryRemove", "countrySearchPlaceholder", "dashNotifyHint"}
EnglishUi == [key \in EnglishOnly \cup {"connect", "saveChanges"} |-> "en"]
TranslatedUi(locale) == [key \in {"connect", "saveChanges"} |-> locale]
Ui == [locale \in Locales |-> IF locale = "en" THEN EnglishUi ELSE TranslatedUi(locale)]

\* What the tables of the fields say of a field: a label, a description, an example, and for some
\* the signals it feeds.
Silent ==
  DOMAIN (StepUpFields ++ FeatureFields ++ LoggingFields ++ DecisionFields)
  \cup Under(<<"ip_intel">>, {"cache_ttl_seconds", "timeout_seconds", "fail_open"})
  \cup Under(<<"aml", "blocklist">>,
         {"enabled", "sync_ofac_crypto_enabled", "sync_ofac_countries_enabled",
          "sync_interval_hours", "fail_open", "crypto_hit_score", "country_hit_score",
          "manual_crypto_wallets", "manual_bank_accounts", "manual_ewallet_accounts",
          "manual_card_accounts"})
  \cup Under(<<"withdrawal_method">>, {"medium_score", "high_score", "critical_score"})
  \cup Under(<<"betting_patterns">>, {"enabled", "burst_window_seconds", "win_rate_min_bets"})
  \cup Under(<<"hedge_betting">>,
         {"enabled", "window_seconds", "round_leg_ttl_seconds", "time_pair_window_seconds",
          "require_round_id", "amount_match_tolerance_percent", "min_gross_volume",
          "volume_washing_score"})

Attributes(path) ==
  {"label", "description", "example"} \cup IF path \in Silent THEN {} ELSE {"signal"}

\* extract-fields takes them from the table; its patterns miss one example.
Groups == <<"hedge_betting", "opposite_selection_groups">>
FieldPaths == FormPaths \ DOMAIN DashboardFields
Extracted ==
  [path \in FieldPaths |-> Attributes(path) \ IF path = Groups THEN {"example"} ELSE {}]

\* The dictionary made of the extracted texts, and of a file with a locale's (the files have the keys
\* of the extracted ones).
EnglishBundle == [path \in FieldPaths |-> [attribute \in Extracted[path] |-> "en"]]
TranslatedBundle(locale) ==
  [path \in FieldPaths |-> [attribute \in Extracted[path] |-> locale]]

\* build-field-i18n: the file of the locale, or else the extracted texts.
FieldBundle(locale) ==
  IF locale \in fieldFiles THEN TranslatedBundle(locale) ELSE EnglishBundle

-----------------------------------------------------------------------------
\* normalizeLocale: the tag itself, or else its language, if the console speaks it.
NormalizeLocale(tag) == IF tag.language \in Locales THEN tag.language ELSE DefaultLocale

\* ui, tabMeta and sectionDescription: in the current language, or in English.
UiText(key) ==
  IF key \in DOMAIN Ui[currentLocale] THEN Ui[currentLocale][key] ELSE Ui["en"][key]
TabText(section) == TabMeta[section][currentLocale]
SectionText(section) == SectionDescriptions[section][currentLocale]

\* fieldText: the same, and what the table of the fields says, which is English, last.
FieldText(path, attribute) ==
  LET entry == FieldBundle(currentLocale)[path]
  IN  IF attribute \in DOMAIN entry THEN entry[attribute] ELSE "en"

\* Mutated: the language is stored before it changes.
SetLocaleEarly(tag) ==
  /\ currentLocale' = NormalizeLocale(tag)
  /\ storedLocale' = IF storageWorks THEN TagOf(currentLocale) ELSE storedLocale
  /\ UNCHANGED <<storageWorks, fieldFiles>>

\* setLocale, with any tag: a storage that does not work is ignored.
SetLocale(tag) ==
  /\ currentLocale' = NormalizeLocale(tag)
  /\ storedLocale' = IF storageWorks THEN TagOf(currentLocale') ELSE storedLocale
  /\ UNCHANGED <<storageWorks, fieldFiles>>

\* initLocale, when the page is loaded: the stored language, if there is one.
Restored(stored) ==
  IF stored = NoTag \/ ~storageWorks THEN DefaultLocale ELSE NormalizeLocale(stored)

InitLocale == currentLocale' = Restored(storedLocale)
              /\ UNCHANGED <<storedLocale, storageWorks, fieldFiles>>

\* An earlier console, or another program, may have stored any tag; a file may be missing.
TextInit ==
  /\ storedLocale \in Tag \cup {NoTag} /\ storageWorks \in BOOLEAN
  /\ \E missing \in SUBSET {"ko", "it"} : fieldFiles = Locales \ missing
  /\ currentLocale = Restored(storedLocale)

TextNext == InitLocale \/ \E tag \in Tag : SetLocale(tag)

TextSpec == TextInit /\ [][TextNext]_textVars

-----------------------------------------------------------------------------
\* The console speaks the chosen language in every text it has in it, tabs, sections, buttons and
\* fields alike, and English where a dictionary lacks a text: a key, a file, or the one example the
\* extraction misses.  It never shows a third language.
TextsSpeak ==
  /\ \A section \in TabIds : {TabText(section), SectionText(section)} = {currentLocale}
  /\ \A key \in DOMAIN EnglishUi :
       UiText(key) = IF key \in EnglishOnly THEN "en" ELSE currentLocale
  /\ \A path \in FieldPaths : \A attribute \in Attributes(path) :
       FieldText(path, attribute) =
         IF currentLocale \notin fieldFiles \/ (path = Groups /\ attribute = "example")
         THEN "en" ELSE currentLocale

\* The language survives a reload of the page, whatever tag was stored before or chosen since, as
\* long as the storage works.
LanguageSurvives == storageWorks => Restored(storedLocale) = currentLocale
=============================================================================
