---------------------------- MODULE ConsoleProofs ----------------------------
(* Proofs about the console: the language it keeps, the configuration the consoles share, what    *)
(* their form does to it, and the country multiselect.                                            *)
EXTENDS AdminConsole, PageProofs, NaturalsInduction

-----------------------------------------------------------------------------
\* The language.
LEMMA Normal == \A tag : NormalizeLocale(tag) \in Locales
  BY DEF NormalizeLocale, Locales, DefaultLocale

LEMMA TagRestored ==
  ASSUME NEW locale \in Locales, storageWorks
  PROVE  Restored(TagOf(locale)) = locale
<1>1. TagOf(locale).language = locale /\ locale # ""
  BY DEF TagOf, Locales
<1>2. NoTag.language = ""
  BY DEF NoTag
<1>3. TagOf(locale) # NoTag
  BY <1>1, <1>2
<1> QED  BY <1>1, <1>3 DEF Restored, NormalizeLocale

\* The stored language is the one that is restored (setLocale, initLocale), for any tags stored.
THEOREM LanguageRestored == TextSpec => []LanguageSurvives
<1>1. TextInit => LanguageSurvives
  BY DEF TextInit, LanguageSurvives
<1>2. LanguageSurvives /\ [TextNext]_textVars => LanguageSurvives'
  <2> SUFFICES ASSUME LanguageSurvives, [TextNext]_textVars, storageWorks'
               PROVE  Restored(storedLocale)' = currentLocale'
    BY DEF LanguageSurvives
  <2>1. CASE InitLocale
    BY <2>1 DEF InitLocale, Restored
  <2>2. ASSUME NEW tag \in Tag, SetLocale(tag)
        PROVE  Restored(storedLocale)' = currentLocale'
    <3>1. currentLocale' \in Locales /\ storageWorks /\ storedLocale' = TagOf(currentLocale')
      BY <2>2, Normal DEF SetLocale
    <3>2. Restored(TagOf(currentLocale')) = currentLocale'
      BY <3>1, TagRestored
    <3> QED  BY <3>1, <3>2 DEF Restored
  <2>3. CASE UNCHANGED textVars
    BY <2>3 DEF textVars, Restored, LanguageSurvives
  <2> QED  BY <2>1, <2>2, <2>3 DEF TextNext
<1> QED  BY <1>1, <1>2, PTL DEF TextSpec

\* In any language of the console, and with any files, each text is said in the language it should.
LEMMA SpeaksAny ==
  ASSUME currentLocale \in Locales
  PROVE  TextsSpeak
<1>1. ASSUME NEW section \in TabIds
      PROVE  {TabText(section), SectionText(section)} = {currentLocale}
  BY DEF TabText, SectionText, TabMeta, SectionDescriptions
<1>2. ASSUME NEW key \in DOMAIN EnglishUi
      PROVE  UiText(key) = IF key \in EnglishOnly THEN "en" ELSE currentLocale
  <2>1. Ui["en"] = EnglishUi /\ Ui[currentLocale] =
          IF currentLocale = "en" THEN EnglishUi ELSE TranslatedUi(currentLocale)
    BY DEF Ui, Locales
  <2>2. /\ key \in EnglishOnly \cup {"connect", "saveChanges"} /\ EnglishUi[key] = "en"
        /\ EnglishOnly \cap {"connect", "saveChanges"} = {}
    BY DEF EnglishUi, EnglishOnly
  <2>3. CASE currentLocale = "en"
    BY <2>1, <2>2, <2>3 DEF UiText
  <2>4. CASE currentLocale # "en"
    <3>1. Ui[currentLocale] = TranslatedUi(currentLocale)
      BY <2>1, <2>4
    <3>2. /\ DOMAIN Ui[currentLocale] = {"connect", "saveChanges"}
          /\ key \in {"connect", "saveChanges"} => Ui[currentLocale][key] = currentLocale
      BY <3>1 DEF TranslatedUi
    <3> QED BY <2>1, <2>2, <3>2 DEF UiText
  <2> QED BY <2>3, <2>4
<1>3. ASSUME NEW path \in FieldPaths, NEW attribute \in Attributes(path)
      PROVE  FieldText(path, attribute) =
               IF currentLocale \notin fieldFiles \/ (path = Groups /\ attribute = "example")
               THEN "en" ELSE currentLocale
  <2> DEFINE entry == FieldBundle(currentLocale)[path]
  <2>1. DOMAIN entry = Attributes(path) \ (IF path = Groups THEN {"example"} ELSE {})
    <3>1. Extracted[path] = Attributes(path) \ (IF path = Groups THEN {"example"} ELSE {})
      BY DEF Extracted
    <3>2. DOMAIN entry = Extracted[path]
      BY DEF FieldBundle, TranslatedBundle, EnglishBundle
    <3> QED BY <3>1, <3>2
  <2>2. \A said \in DOMAIN entry :
          entry[said] = IF currentLocale \in fieldFiles THEN currentLocale ELSE "en"
    BY DEF FieldBundle, TranslatedBundle, EnglishBundle
  <2>3. FieldText(path, attribute) =
          IF attribute \in DOMAIN entry THEN entry[attribute] ELSE "en"
    BY DEF FieldText
  <2> HIDE DEF entry
  <2>4. attribute \in DOMAIN entry <=> ~(path = Groups /\ attribute = "example")
    BY <2>1
  <2> QED BY <2>2, <2>3, <2>4
<1> QED BY <1>1, <1>2, <1>3 DEF TextsSpeak

\* Every text of the console is in the chosen language, or in English where its dictionary lacks it
\* (ui, tabMeta, sectionDescription, fieldText), whatever was stored and whichever files there are.
THEOREM SpeaksChosen == TextSpec => []TextsSpeak
<1>1. TextInit => currentLocale \in Locales
  BY Normal DEF TextInit, Restored, Locales, DefaultLocale
<1>2. currentLocale \in Locales /\ [TextNext]_textVars => (currentLocale \in Locales)'
  <2> SUFFICES ASSUME currentLocale \in Locales, [TextNext]_textVars
               PROVE  currentLocale' \in Locales
    OBVIOUS
  <2>1. CASE InitLocale
    BY <2>1, Normal DEF InitLocale, Restored, Locales, DefaultLocale
  <2>2. ASSUME NEW tag \in Tag, SetLocale(tag)  PROVE currentLocale' \in Locales
    BY <2>2, Normal DEF SetLocale
  <2>3. CASE UNCHANGED textVars
    BY <2>3 DEF textVars
  <2> QED BY <2>1, <2>2, <2>3 DEF TextNext
<1> QED BY <1>1, <1>2, SpeaksAny, PTL DEF TextSpec

-----------------------------------------------------------------------------
\* The configuration: what versions the copies, the answers and the forms have, ...
Versions ==
  /\ row.version \in Nat
  /\ DOMAIN live = Process /\ DOMAIN shown = Console /\ DOMAIN seen = Console
  /\ \A p \in Process : live[p].version \in Nat /\ live[p].version <= row.version
  /\ \A c \in Console :
       /\ DOMAIN shown[c] = {"doc", "version", "edited", "emptied"}
       /\ seen[c] \in Nat /\ seen[c] <= row.version

UnderWay(request) == request.at \in {"sent", "answered"}

\* ... of a request: it is settled, or some console's, ...
Asked(request) ==
  \/ request.at = "settled"
  \/ /\ UnderWay(request) /\ request.from \in Console
     /\ DOMAIN request = {"from", "kind", "body", "made", "at", "reply"}

\* ... whose answer has a version that was the row's, ...
Replied(request) ==
  request.at = "answered" /\ request.reply # NoDoc =>
    request.reply.version \in Nat /\ request.reply.version <= row.version

\* ... not older than what a console was told that always waited for its answers, ...
AnsweredAhead(request) ==
  request.at = "answered" /\ request.reply # NoDoc /\ request.from \notin crossed =>
    request.reply.version >= seen[request.from]

Wire ==
  /\ \E S : wire \in Seq(S)
  /\ \A i \in DOMAIN wire : Asked(wire[i]) /\ Replied(wire[i]) /\ AnsweredAhead(wire[i])

\* ... and that has one request under way.
OneAtATime ==
  \A i, j \in DOMAIN wire :
    /\ UnderWay(wire[i]) /\ UnderWay(wire[j])
    /\ wire[i].from = wire[j].from /\ wire[i].from \notin crossed
    => i = j

ConfigInv == Versions /\ Wire /\ OneAtATime /\ LiveIsRow /\ ReadYourWrites

LEMMA ConfigStarts == ConfigInit => ConfigInv
<1> SUFFICES ASSUME ConfigInit  PROVE ConfigInv
  OBVIOUS
<1>1. Versions
  BY DEF ConfigInit, Versions
<1>2. wire = <<>> /\ wire \in Seq({}) /\ DOMAIN wire = {}
  BY DEF ConfigInit
<1>3. Wire /\ OneAtATime
  BY <1>2 DEF Wire, OneAtATime
<1>4. LiveIsRow /\ ReadYourWrites
  BY DEF ConfigInit, LiveIsRow, ReadYourWrites
<1> QED  BY <1>1, <1>3, <1>4 DEF ConfigInv

\* A request put into the place of another one keeps the wire.
LEMMA WirePut ==
  ASSUME Wire, NEW i \in DOMAIN wire, NEW request, wire' = [wire EXCEPT ![i] = request]
  PROVE  /\ \E S : wire' \in Seq(S)
         /\ DOMAIN wire' = DOMAIN wire /\ wire'[i] = request
         /\ \A j \in DOMAIN wire : j # i => wire'[j] = wire[j]
<1>1. PICK S : wire \in Seq(S)
  BY DEF Wire
<1>2. wire \in Seq(S \cup {request})
  BY <1>1
<1>3. wire' \in Seq(S \cup {request})
  BY <1>2
<1> QED  BY <1>1, <1>3

\* The answer to a request that is under way.
LEMMA AnswerIs ==
  ASSUME Wire, NEW i \in DOMAIN wire, NEW reply, Answer(i, reply), UnderWay(wire[i])
  PROVE  /\ \E S : wire' \in Seq(S)
         /\ DOMAIN wire' = DOMAIN wire
         /\ DOMAIN wire'[i] = {"from", "kind", "body", "made", "at", "reply"}
         /\ wire'[i].from = wire[i].from /\ wire'[i].from \in Console
         /\ wire'[i].at = "answered" /\ wire'[i].reply = reply
         /\ \A j \in DOMAIN wire : j # i => wire'[j] = wire[j]
<1> DEFINE request == [wire[i] EXCEPT !.at = "answered", !.reply = reply]
<1>1. DOMAIN wire[i] = {"from", "kind", "body", "made", "at", "reply"} /\ wire[i].from \in Console
  BY DEF Wire, Asked, UnderWay
<1>2. /\ DOMAIN request = {"from", "kind", "body", "made", "at", "reply"}
      /\ request.from = wire[i].from /\ request.at = "answered" /\ request.reply = reply
  BY <1>1
<1>3. wire' = [wire EXCEPT ![i] = request]
  BY DEF Answer
<1> HIDE DEF request
<1> QED  BY <1>1, <1>2, <1>3, WirePut

\* An answer that has the version of the row, or is ahead of what its console was told, keeps the
\* wire.
LEMMA AnswerKeeps ==
  ASSUME ConfigInv, NEW i \in DOMAIN wire, NEW reply, Answer(i, reply), UnderWay(wire[i]),
         seen' = seen, crossed \subseteq crossed',
         row'.version \in Nat, row.version <= row'.version,
         reply # NoDoc => reply.version \in Nat /\ reply.version <= row'.version,
         reply # NoDoc /\ wire[i].from \notin crossed' => reply.version >= seen[wire[i].from]
  PROVE  Wire' /\ OneAtATime'
<1>1. Wire /\ OneAtATime /\ row.version \in Nat
  BY DEF ConfigInv, Versions
<1>2. /\ \E S : wire' \in Seq(S)
      /\ DOMAIN wire' = DOMAIN wire
      /\ DOMAIN wire'[i] = {"from", "kind", "body", "made", "at", "reply"}
      /\ wire'[i].from = wire[i].from /\ wire'[i].from \in Console
      /\ wire'[i].at = "answered" /\ wire'[i].reply = reply
      /\ \A j \in DOMAIN wire : j # i => wire'[j] = wire[j]
  BY <1>1, AnswerIs
<1>3. ASSUME NEW j \in DOMAIN wire'
      PROVE  (Asked(wire[j]) /\ Replied(wire[j]) /\ AnsweredAhead(wire[j]))'
  <2>1. CASE j = i
    BY <1>2, <2>1 DEF Asked, UnderWay, Replied, AnsweredAhead
  <2>2. CASE j # i
    <3>1. wire'[j] = wire[j] /\ Asked(wire[j]) /\ Replied(wire[j]) /\ AnsweredAhead(wire[j])
      BY <1>1, <1>2, <2>2 DEF Wire
    <3> QED  BY <1>1, <3>1 DEF Asked, UnderWay, Replied, AnsweredAhead
  <2> QED  BY <2>1, <2>2
<1>4. OneAtATime'
  <2> SUFFICES ASSUME NEW j \in DOMAIN wire, NEW k \in DOMAIN wire,
                      UnderWay(wire'[j]), UnderWay(wire'[k]),
                      wire'[j].from = wire'[k].from, wire'[j].from \notin crossed'
               PROVE  j = k
    BY <1>2 DEF OneAtATime, UnderWay
  <2>1. ASSUME NEW n \in DOMAIN wire, UnderWay(wire'[n])
        PROVE  UnderWay(wire[n]) /\ wire'[n].from = wire[n].from
    BY <1>2, <2>1
  <2> QED  BY <1>1, <2>1 DEF OneAtATime
<1> QED  BY <1>2, <1>3, <1>4 DEF Wire

LEMMA ServeLoadKeeps ==
  ASSUME ConfigInv, NEW i \in DOMAIN wire, NEW p \in Process, ServeLoad(i, p)
  PROVE  ConfigInv'
<1>1. /\ Versions /\ Wire /\ LiveIsRow /\ ReadYourWrites
      /\ Answer(i, live[p]) /\ UnderWay(wire[i])
      /\ UNCHANGED <<row, live, behind, shown, seen>>
      /\ crossed' = IF p \in behind THEN crossed \cup {wire[i].from} ELSE crossed
  BY DEF ConfigInv, ServeLoad, UnderWay
<1>2. /\ row.version \in Nat /\ live[p].version \in Nat /\ live[p].version <= row.version
      /\ wire[i].from \in Console /\ seen[wire[i].from] <= row.version
      /\ p \notin behind => live[p] = row
  BY <1>1 DEF Versions, Wire, Asked, UnderWay, LiveIsRow
<1>3. Wire' /\ OneAtATime'
  BY <1>1, <1>2, AnswerKeeps
<1>4. (Versions /\ LiveIsRow /\ ReadYourWrites)'
  BY <1>1 DEF Versions, LiveIsRow, ReadYourWrites
<1> QED  BY <1>3, <1>4 DEF ConfigInv

\* An update is ahead of everything, and reaches the process that makes it.
LEMMA UpdateKeeps ==
  ASSUME ConfigInv, NEW i \in DOMAIN wire, NEW p \in Process, NEW doc, UnderWay(wire[i]),
         Update(p, doc), Answer(i, row'), UNCHANGED <<shown, seen, crossed>>
  PROVE  ConfigInv'
<1>1. /\ Versions /\ Wire /\ LiveIsRow /\ ReadYourWrites
      /\ row'.version = row.version + 1 /\ row.version \in Nat
      /\ live' = [live EXCEPT ![p] = row'] /\ behind' = (behind \cup Process) \ {p}
  BY DEF ConfigInv, Update, Versions
<1>2. wire[i].from \in Console /\ seen[wire[i].from] \in Nat /\ seen[wire[i].from] <= row.version
  BY <1>1 DEF Versions, Wire, Asked, UnderWay
<1>3. Wire' /\ OneAtATime'
  BY <1>1, <1>2, AnswerKeeps
<1>4. Versions'
  <2>1. ASSUME NEW q \in Process
        PROVE  live'[q].version \in Nat /\ live'[q].version <= row'.version
    BY <1>1 DEF Versions
  <2> QED  BY <1>1, <2>1 DEF Versions
<1>5. LiveIsRow'
  BY <1>1 DEF LiveIsRow, Versions
<1>6. ReadYourWrites'
  BY <1>1 DEF ReadYourWrites
<1> QED  BY <1>3, <1>4, <1>5, <1>6 DEF ConfigInv

\* A request that gets no document back changes nothing else.
LEMMA RefusalKeeps ==
  ASSUME ConfigInv, NEW i \in DOMAIN wire, UnderWay(wire[i]), Answer(i, NoDoc),
         UNCHANGED <<row, live, behind, shown, seen, crossed>>
  PROVE  ConfigInv'
<1>1. row.version \in Nat
  BY DEF ConfigInv, Versions
<1>2. Wire' /\ OneAtATime'
  BY <1>1, AnswerKeeps
<1>3. (Versions /\ LiveIsRow /\ ReadYourWrites)'
  BY DEF ConfigInv, Versions, LiveIsRow, ReadYourWrites
<1> QED  BY <1>2, <1>3 DEF ConfigInv

\* What happens to neither the row nor the wire.
LEMMA WireKept ==
  ASSUME Wire, OneAtATime, UNCHANGED <<row, wire, seen, crossed>>
  PROVE  Wire' /\ OneAtATime'
BY DEF Wire, OneAtATime, Asked, UnderWay, Replied, AnsweredAhead

LEMMA StartProcessKeeps ==
  ASSUME ConfigInv, NEW p \in Process, StartProcess(p)
  PROVE  ConfigInv'
<1>1. /\ live' = [live EXCEPT ![p] = row] /\ behind' = behind \ {p}
      /\ UNCHANGED <<row, wire, shown, seen, crossed>>
  BY DEF StartProcess
<1>2. (Versions /\ LiveIsRow /\ ReadYourWrites)'
  BY <1>1 DEF ConfigInv, Versions, LiveIsRow, ReadYourWrites
<1> QED  BY <1>1, <1>2, WireKept DEF ConfigInv

\* Editing leaves the version that is shown.
LEMMA EditKeeps ==
  ASSUME ConfigInv, UNCHANGED <<row, live, wire, behind, seen, crossed>>,
         DOMAIN shown' = Console,
         \A c \in Console : DOMAIN shown'[c] = DOMAIN shown[c] /\
                            shown'[c].version = shown[c].version
  PROVE  ConfigInv'
<1>1. (Versions /\ LiveIsRow /\ ReadYourWrites)'
  BY DEF ConfigInv, Versions, LiveIsRow, ReadYourWrites
<1> QED  BY <1>1, WireKept DEF ConfigInv

LEMMA TypeKeeps ==
  ASSUME ConfigInv, NEW c \in Console, NEW path \in Inputs, Type(c, path)
  PROVE  ConfigInv'
<1>1. /\ shown' = [shown EXCEPT ![c].edited = @ \cup {path}]
      /\ UNCHANGED <<row, live, wire, behind, seen, crossed>>
  BY DEF Type
<1>2. /\ DOMAIN shown' = Console
      /\ \A d \in Console : DOMAIN shown'[d] = DOMAIN shown[d] /\
                            shown'[d].version = shown[d].version
  BY <1>1 DEF ConfigInv, Versions
<1> QED  BY <1>1, <1>2, EditKeeps

LEMMA ChangeLanguageKeeps ==
  ASSUME ConfigInv, NEW c \in Console, ChangeLanguage(c)
  PROVE  ConfigInv'
<1>1. /\ \/ UNCHANGED shown
         \/ shown' = [shown EXCEPT ![c].edited = {}, ![c].emptied = TRUE]
      /\ UNCHANGED <<row, live, wire, behind, seen, crossed>>
  BY DEF ChangeLanguage
<1>2. /\ DOMAIN shown' = Console
      /\ \A d \in Console : DOMAIN shown'[d] = DOMAIN shown[d] /\
                            shown'[d].version = shown[d].version
  BY <1>1 DEF ConfigInv, Versions
<1> QED  BY <1>1, <1>2, EditKeeps

LEMMA FailRequestKeeps ==
  ASSUME ConfigInv, NEW i \in DOMAIN wire, FailRequest(i)
  PROVE  ConfigInv'
<1>1. /\ UnderWay(wire[i]) /\ Answer(i, NoDoc)
      /\ UNCHANGED <<row, live, behind, shown, seen, crossed>>
  BY DEF FailRequest, UnderWay
<1> QED  BY <1>1, RefusalKeeps

LEMMA SendKeeps ==
  ASSUME ConfigInv, NEW c \in Console, NEW kind, NEW body, Send(c, kind, body)
  PROVE  ConfigInv'
<1> DEFINE request == [from |-> c, kind |-> kind, body |-> body, made |-> shown[c],
                       at |-> "sent", reply |-> NoDoc]
<1>1. /\ wire' = Append(wire, request)
      /\ crossed' = IF Unanswered(c) # {} THEN crossed \cup {c} ELSE crossed
      /\ UNCHANGED <<row, live, behind, shown, seen>>
  BY DEF Send
<1>2. Wire /\ OneAtATime
  BY DEF ConfigInv
<1>3. /\ request.from = c /\ request.at = "sent"
      /\ DOMAIN request = {"from", "kind", "body", "made", "at", "reply"}
  OBVIOUS
<1> HIDE DEF request
<1>4. PICK S : wire \in Seq(S)
  BY <1>2 DEF Wire
<1>5. wire \in Seq(S \cup {request})
  BY <1>4
<1>6. /\ wire' \in Seq(S \cup {request}) /\ Len(wire') = Len(wire) + 1 /\ Len(wire) \in Nat
      /\ wire'[Len(wire) + 1] = request
      /\ DOMAIN wire' = 1..(Len(wire) + 1) /\ DOMAIN wire = 1..Len(wire)
      /\ \A j \in DOMAIN wire : wire'[j] = wire[j]
  BY <1>1, <1>5
<1>7. ASSUME NEW j \in DOMAIN wire'
      PROVE  (Asked(wire[j]) /\ Replied(wire[j]) /\ AnsweredAhead(wire[j]))'
  <2>1. CASE j \in DOMAIN wire
    <3>1. wire'[j] = wire[j] /\ Asked(wire[j]) /\ Replied(wire[j]) /\ AnsweredAhead(wire[j])
      BY <1>2, <1>6, <2>1 DEF Wire
    <3> QED  BY <1>1, <3>1 DEF Asked, UnderWay, Replied, AnsweredAhead
  <2>2. CASE j = Len(wire) + 1
    BY <1>3, <1>6, <2>2 DEF Asked, UnderWay, Replied, AnsweredAhead
  <2> QED  BY <1>6, <2>1, <2>2
<1>8. ASSUME NEW j \in DOMAIN wire, UnderWay(wire[j]), wire[j].from = c  PROVE c \in crossed'
  BY <1>1, <1>8 DEF Unanswered
<1>9. OneAtATime'
  <2> SUFFICES ASSUME NEW j \in DOMAIN wire', NEW k \in DOMAIN wire',
                      UnderWay(wire'[j]), UnderWay(wire'[k]),
                      wire'[j].from = wire'[k].from, wire'[j].from \notin crossed'
               PROVE  j = k
    BY DEF OneAtATime, UnderWay
  <2>1. CASE j \in DOMAIN wire /\ k \in DOMAIN wire
    BY <1>1, <1>2, <1>6, <2>1 DEF OneAtATime
  <2>2. CASE j \in DOMAIN wire /\ k = Len(wire) + 1
    BY <1>3, <1>6, <1>8, <2>2
  <2>3. CASE j = Len(wire) + 1 /\ k \in DOMAIN wire
    BY <1>3, <1>6, <1>8, <2>3
  <2> QED  BY <1>6, <2>1, <2>2, <2>3
<1>10. (Versions /\ LiveIsRow /\ ReadYourWrites)'
  BY <1>1 DEF ConfigInv, Versions, LiveIsRow, ReadYourWrites
<1> QED  BY <1>6, <1>7, <1>9, <1>10 DEF ConfigInv, Wire

LEMMA ReceiveKeeps ==
  ASSUME ConfigInv, NEW i \in DOMAIN wire, Receive(i)
  PROVE  ConfigInv'
<1> DEFINE c == wire[i].from
           reply == wire[i].reply
           given == [doc |-> reply.doc, version |-> reply.version,
                     edited |-> {}, emptied |-> FALSE]
<1>1. /\ wire[i].at = "answered" /\ wire' = [wire EXCEPT ![i] = Settled]
      /\ UNCHANGED <<row, live, behind, crossed>>
      /\ reply = NoDoc => UNCHANGED <<shown, seen>>
      /\ reply # NoDoc => shown' = [shown EXCEPT ![c] = given]
      /\ reply # NoDoc => seen' = IF wire[i].kind = "load" \/ reply.version < seen[c] THEN seen
                                  ELSE [seen EXCEPT ![c] = reply.version]
  BY DEF Receive
<1>2. /\ Versions /\ Wire /\ OneAtATime /\ LiveIsRow /\ ReadYourWrites
      /\ c \in Console /\ Replied(wire[i]) /\ AnsweredAhead(wire[i])
  BY <1>1 DEF ConfigInv, Wire, Asked
<1>3. /\ DOMAIN given = {"doc", "version", "edited", "emptied"} /\ given.version = reply.version
      /\ Settled.at = "settled"
  BY DEF Settled
<1> HIDE DEF given
<1>4. /\ \E S : wire' \in Seq(S)
      /\ DOMAIN wire' = DOMAIN wire /\ wire'[i] = Settled
      /\ \A j \in DOMAIN wire : j # i => wire'[j] = wire[j]
  BY <1>1, <1>2, WirePut
<1>5. /\ reply # NoDoc => reply.version \in Nat /\ reply.version <= row.version
      /\ reply # NoDoc /\ c \notin crossed => reply.version >= seen[c]
  BY <1>1, <1>2 DEF Replied, AnsweredAhead
<1>6. Versions'
  BY <1>1, <1>2, <1>3, <1>5 DEF Versions
<1>7. \A d \in Console : d # c => seen'[d] = seen[d]
  BY <1>1, <1>2 DEF Versions
<1>8. ASSUME NEW j \in DOMAIN wire'
      PROVE  (Asked(wire[j]) /\ Replied(wire[j]) /\ AnsweredAhead(wire[j]))'
  <2>1. CASE j = i
    BY <1>3, <1>4, <2>1 DEF Asked, Replied, AnsweredAhead
  <2>2. CASE j # i
    <3>1. wire'[j] = wire[j] /\ Asked(wire[j]) /\ Replied(wire[j]) /\ AnsweredAhead(wire[j])
      BY <1>2, <1>4, <2>2 DEF Wire
    <3>2. wire[j].at = "answered" /\ wire[j].from \notin crossed =>
            wire[j].from # c /\ wire[j].from \in Console
      BY <1>1, <1>2, <1>4, <2>2, <3>1 DEF OneAtATime, UnderWay, Asked
    <3> QED  BY <1>1, <1>7, <3>1, <3>2 DEF Asked, UnderWay, Replied, AnsweredAhead
  <2> QED  BY <2>1, <2>2
<1>9. OneAtATime'
  <2> SUFFICES ASSUME NEW j \in DOMAIN wire, NEW k \in DOMAIN wire,
                      UnderWay(wire'[j]), UnderWay(wire'[k]),
                      wire'[j].from = wire'[k].from, wire'[j].from \notin crossed'
               PROVE  j = k
    BY <1>4 DEF OneAtATime, UnderWay
  <2>1. j # i /\ k # i
    BY <1>3, <1>4 DEF UnderWay
  <2> QED  BY <1>1, <1>2, <1>4, <2>1 DEF OneAtATime
<1>10. LiveIsRow'
  BY <1>1, <1>2 DEF LiveIsRow
<1>11. ReadYourWrites'
  <2> SUFFICES ASSUME NEW d \in Console, d \notin crossed  PROVE shown'[d].version >= seen'[d]
    BY <1>1 DEF ReadYourWrites
  <2>1. shown[d].version >= seen[d]
    BY <1>2 DEF ReadYourWrites
  <2>2. CASE reply = NoDoc
    BY <1>1, <2>1, <2>2
  <2>3. CASE reply # NoDoc /\ d # c
    <3>1. shown'[d] = shown[d]
      BY <1>1, <1>2, <2>3 DEF Versions
    <3> QED  BY <1>7, <2>1, <2>3, <3>1
  <2>4. CASE reply # NoDoc /\ d = c
    <3>1. shown'[d] = given
      BY <1>1, <1>2, <2>4 DEF Versions
    <3>2. seen'[d] \in {seen[d], reply.version}
      BY <1>1, <1>2, <2>4 DEF Versions
    <3> QED  BY <1>3, <1>5, <2>4, <3>1, <3>2
  <2> QED  BY <2>2, <2>3, <2>4
<1> QED  BY <1>4, <1>6, <1>8, <1>9, <1>10, <1>11 DEF ConfigInv, Wire

LEMMA ConfigStepKeeps == ConfigInv /\ [ConfigNext]_configVars => ConfigInv'
<1> SUFFICES ASSUME ConfigInv, [ConfigNext]_configVars  PROVE ConfigInv'
  OBVIOUS
<1>1. ASSUME NEW p \in Process, StartProcess(p)  PROVE ConfigInv'
  BY <1>1, StartProcessKeeps
<1>2. ASSUME NEW i \in DOMAIN wire, NEW p \in Process, ServeLoad(i, p)  PROVE ConfigInv'
  BY <1>2, ServeLoadKeeps
<1>3. ASSUME NEW i \in DOMAIN wire, NEW p \in Process, ServeSave(i, p)  PROVE ConfigInv'
  BY <1>3, UpdateKeeps DEF ServeSave, UnderWay
<1>4. ASSUME NEW i \in DOMAIN wire, NEW p \in Process, ServeReset(i, p)  PROVE ConfigInv'
  BY <1>4, UpdateKeeps DEF ServeReset, UnderWay
<1>5. ASSUME NEW i \in DOMAIN wire, RefuseSave(i)  PROVE ConfigInv'
  BY <1>5, RefusalKeeps DEF RefuseSave, UnderWay
<1>6. ASSUME NEW i \in DOMAIN wire, FailRequest(i)  PROVE ConfigInv'
  BY <1>6, FailRequestKeeps
<1>7. ASSUME NEW i \in DOMAIN wire, Receive(i)  PROVE ConfigInv'
  BY <1>7, ReceiveKeeps
<1>8. ASSUME NEW c \in Console, NEW path \in Inputs, Type(c, path)  PROVE ConfigInv'
  BY <1>8, TypeKeeps
<1>9. ASSUME NEW c \in Console, Reload(c) \/ Save(c) \/ Reset(c)  PROVE ConfigInv'
  BY <1>9, SendKeeps DEF Reload, Save, Reset
<1>10. ASSUME NEW c \in Console, ChangeLanguage(c)  PROVE ConfigInv'
  BY <1>10, ChangeLanguageKeeps
<1>11. CASE UNCHANGED configVars
  <2>1. UNCHANGED <<row, live, wire, behind, shown, seen, crossed>>
    BY <1>11 DEF configVars
  <2>2. (Versions /\ LiveIsRow /\ ReadYourWrites)'
    BY <2>1 DEF ConfigInv, Versions, LiveIsRow, ReadYourWrites
  <2> QED  BY <2>1, <2>2, WireKept DEF ConfigInv
<1> QED
  BY <1>1, <1>2, <1>3, <1>4, <1>5, <1>6, <1>7, <1>8, <1>9, <1>10, <1>11 DEF ConfigNext

LEMMA ConfigAlways == ConfigSpec => []ConfigInv
  BY ConfigStarts, ConfigStepKeeps, PTL DEF ConfigSpec

\* A process that no other one has updated past evaluates with the stored configuration (update,
\* load and reset of the store), and a console that waits for its answers never goes back behind an
\* update of its own (save, reload and reset of the console), unless a process that was updated past
\* answered it; for any number of processes, consoles, documents and faults.
THEOREM CopiesStayCurrent == ConfigSpec => []CopiesCurrent
<1>1. ConfigInv => CopiesCurrent
  BY DEF ConfigInv, CopiesCurrent
<1> QED  BY <1>1, ConfigAlways, PTL

-----------------------------------------------------------------------------
\* The elements of a finite set that are before one of them in an order: how many they are tells
\* the element, and every number below that of the elements is one of them.
BeforeIn(S, order, x) == {y \in S : <<y, x>> \in order}

IsOrder(S, order) ==
  /\ \A x \in S : <<x, x>> \notin order
  /\ \A x, y, z \in S : <<x, y>> \in order /\ <<y, z>> \in order => <<x, z>> \in order
  /\ \A x, y \in S : x = y \/ <<x, y>> \in order \/ <<y, x>> \in order

IsRanked(S, order) ==
  /\ Cardinality(S) \in Nat
  /\ \A x, y \in S :
       Cardinality(BeforeIn(S, order, x)) = Cardinality(BeforeIn(S, order, y)) => x = y
  /\ \A x \in S : Cardinality(BeforeIn(S, order, x)) \in 0..(Cardinality(S) - 1)
  /\ \A i \in 1..Cardinality(S) : \E x \in S : Cardinality(BeforeIn(S, order, x)) = i - 1

\* In such an order, how many elements are before one is its place among them.
LEMMA Ranked ==
  ASSUME NEW S, IsFiniteSet(S), NEW order, IsOrder(S, order)
  PROVE  IsRanked(S, order)
<1> DEFINE n == Cardinality(S)
           rank == [x \in S |-> Cardinality(BeforeIn(S, order, x)) + 1]
<1>1. n \in Nat
  BY FS_CardinalityType
<1>2. ASSUME NEW x \in S
      PROVE  /\ IsFiniteSet(BeforeIn(S, order, x)) /\ Cardinality(BeforeIn(S, order, x)) \in Nat
             /\ Cardinality(BeforeIn(S, order, x)) < n
  <2>1. BeforeIn(S, order, x) \in SUBSET S /\ x \notin BeforeIn(S, order, x)
    BY DEF BeforeIn, IsOrder
  <2>2. BeforeIn(S, order, x) # S
    BY <2>1
  <2>3. /\ IsFiniteSet(BeforeIn(S, order, x)) /\ Cardinality(BeforeIn(S, order, x)) <= n
        /\ n # Cardinality(BeforeIn(S, order, x))
    BY <2>1, <2>2, FS_Subset
  <2>4. Cardinality(BeforeIn(S, order, x)) \in Nat
    BY <2>3, FS_CardinalityType
  <2> QED BY <1>1, <2>3, <2>4
<1>3. ASSUME NEW x \in S, NEW y \in S, <<x, y>> \in order
      PROVE  Cardinality(BeforeIn(S, order, x)) < Cardinality(BeforeIn(S, order, y))
  <2>1. BeforeIn(S, order, x) \in SUBSET BeforeIn(S, order, y)
    BY <1>3 DEF BeforeIn, IsOrder
  <2>2. x \in BeforeIn(S, order, y) /\ x \notin BeforeIn(S, order, x)
    BY <1>3 DEF BeforeIn, IsOrder
  <2>3. /\ Cardinality(BeforeIn(S, order, x)) <= Cardinality(BeforeIn(S, order, y))
        /\ Cardinality(BeforeIn(S, order, x)) # Cardinality(BeforeIn(S, order, y))
    BY <1>2, <2>1, <2>2, FS_Subset
  <2> QED BY <1>2, <2>3
<1>4. ASSUME NEW x \in S, NEW y \in S,
             Cardinality(BeforeIn(S, order, x)) = Cardinality(BeforeIn(S, order, y))
      PROVE  x = y
  <2>1. \A a, b \in S : <<a, b>> \in order =>
          Cardinality(BeforeIn(S, order, a)) # Cardinality(BeforeIn(S, order, b))
    BY <1>2, <1>3
  <2> QED BY <1>4, <2>1 DEF IsOrder
<1>5. rank \in Injection(S, 1..n)
  <2>1. \A x \in S : rank[x] \in 1..n
    BY <1>1, <1>2
  <2>2. \A x, y \in S : rank[x] = rank[y] => x = y
    <3> SUFFICES ASSUME NEW x \in S, NEW y \in S, rank[x] = rank[y]  PROVE x = y
      OBVIOUS
    <3>1. Cardinality(BeforeIn(S, order, x)) + 1 = Cardinality(BeforeIn(S, order, y)) + 1
      OBVIOUS
    <3> QED BY <1>2, <1>4, <3>1
  <2>3. rank \in [S -> 1..n]
    BY <2>1
  <2> QED BY <2>2, <2>3 DEF Injection, IsInjective
<1>6. IsFiniteSet(1..n) /\ Cardinality(1..n) = n
  BY <1>1, FS_Interval
<1>7. rank \in Surjection(S, 1..n)
  <2> HIDE DEF rank
  <2> QED BY <1>5, <1>6, FS_Injection
<1>8. ASSUME NEW i \in 1..n
      PROVE  \E x \in S : Cardinality(BeforeIn(S, order, x)) = i - 1
  <2>1. PICK x \in S : rank[x] = i
    BY <1>7 DEF Surjection
  <2>2. Cardinality(BeforeIn(S, order, x)) + 1 = i
    BY <2>1
  <2> QED BY <1>1, <1>2, <2>2
<1> QED BY <1>1, <1>2, <1>4, <1>8 DEF IsRanked

\* The codes of a set, in order, are those of the set.
LEMMA CodesKept ==
  ASSUME NEW codes, codes \subseteq Nat, IsFiniteSet(codes)
  PROVE  /\ ParseCountries(FormatCountries(codes)) = codes
         /\ IsSequence(FormatCountries(codes))
         /\ \A i \in DOMAIN FormatCountries(codes) : FormatCountries(codes)[i].place \in codes
<1> DEFINE order == {at \in codes \X codes : at[1] < at[2]}
           n == Cardinality(codes)
           Nth(i) == CHOOSE x \in codes : Cardinality({y \in codes : y < x}) = i - 1
           list == [i \in 1..n |-> [place |-> Nth(i), upper |-> TRUE]]
<1>1. \A x, y \in codes : <<x, y>> \in order <=> x < y
  OBVIOUS
<1>2. \A x \in codes : BeforeIn(codes, order, x) = {y \in codes : y < x}
  BY <1>1 DEF BeforeIn
<1>3. /\ n \in Nat
      /\ \A x, y \in codes :
           Cardinality(BeforeIn(codes, order, x)) = Cardinality(BeforeIn(codes, order, y)) => x = y
      /\ \A x \in codes : Cardinality(BeforeIn(codes, order, x)) \in 0..(n - 1)
      /\ \A i \in 1..n : \E x \in codes : Cardinality(BeforeIn(codes, order, x)) = i - 1
  <2> HIDE DEF order
  <2>1. \A x \in codes : <<x, x>> \notin order
    BY <1>1
  <2>2. \A x, y, z \in codes : <<x, y>> \in order /\ <<y, z>> \in order => <<x, z>> \in order
    BY <1>1
  <2>3. ASSUME NEW x \in codes, NEW y \in codes
        PROVE  x = y \/ <<x, y>> \in order \/ <<y, x>> \in order
    <3>1. x \in Nat /\ y \in Nat
      OBVIOUS
    <3>2. x = y \/ x < y \/ y < x
      BY <3>1
    <3> QED BY <1>1, <3>2
  <2>4. IsOrder(codes, order)
    BY <2>1, <2>2, <2>3 DEF IsOrder
  <2>5. IsRanked(codes, order)
    BY <2>4, Ranked
  <2> QED BY <2>5 DEF IsRanked
<1> HIDE DEF order
<1>4. \A i \in 1..n : Nth(i) \in codes
  BY <1>2, <1>3
<1>5. ASSUME NEW x \in codes  PROVE \E i \in 1..n : Nth(i) = x
  <2> DEFINE i == Cardinality({y \in codes : y < x}) + 1
  <2>1. Cardinality({y \in codes : y < x}) \in 0..(n - 1)
    BY <1>2, <1>3
  <2>2. i \in 1..n /\ i - 1 = Cardinality({y \in codes : y < x})
    BY <1>3, <2>1
  <2>3. \A z \in codes : Cardinality({y \in codes : y < z}) = i - 1 => z = x
    BY <1>2, <1>3, <2>2
  <2>4. Nth(i) = x
    BY <2>2, <2>3
  <2> QED BY <2>2, <2>4
<1>6. FormatCountries(codes) = list
  BY Zenon DEF FormatCountries, InOrder
<1> HIDE DEF Nth
<1>7. /\ DOMAIN list = 1..n /\ Len(list) = n
      /\ \A i \in 1..n : list[i].place = Nth(i)
  BY <1>3
<1>8. ParseCountries(list) = codes
  BY <1>4, <1>5, <1>7 DEF ParseCountries
<1>9. IsSequence(list)
  BY <1>3, <1>7 DEF IsSequence
<1> QED BY <1>4, <1>6, <1>7, <1>8, <1>9

-----------------------------------------------------------------------------
\* The words of a text.
LEMMA Words ==
  ASSUME NEW text, IsText(text)
  PROVE  /\ Len(text) \in Nat /\ DOMAIN text = 1..Len(text)
         /\ \A i \in 1..Len(text) : Len(text[i]) \in Nat /\ DOMAIN text[i] = 1..Len(text[i])
         /\ IsFiniteSet(WordsOf(text))
         /\ \A at \in WordsOf(text) :
              /\ at[1] \in 1..Len(text) /\ at[2] \in 1..Len(text[at[1]]) /\ at = <<at[1], at[2]>>
              /\ text[at[1]][at[2]] # <<>>
<1> DEFINE line(i) == {i} \X DOMAIN text[i]
           lines == {line(i) : i \in DOMAIN text}
           f == [i \in DOMAIN text |-> line(i)]
<1>1. /\ Len(text) \in Nat /\ DOMAIN text = 1..Len(text)
      /\ \A i \in 1..Len(text) : Len(text[i]) \in Nat /\ DOMAIN text[i] = 1..Len(text[i])
  BY DEF IsText, IsSequence
<1>2. IsFiniteSet(lines)
  <2>1. f \in Surjection(DOMAIN text, lines)
    BY DEF Surjection
  <2>2. IsFiniteSet(DOMAIN text)
    BY <1>1, FS_Interval
  <2> HIDE DEF f, lines
  <2> QED BY <2>1, <2>2, FS_Surjection
<1>3. ASSUME NEW T \in lines  PROVE IsFiniteSet(T)
  <2>1. PICK i \in DOMAIN text : T = line(i)
    OBVIOUS
  <2>2. IsFiniteSet({i}) /\ IsFiniteSet(DOMAIN text[i])
    <3>1. 1 \in Int /\ Len(text[i]) \in Int /\ DOMAIN text[i] = 1..Len(text[i])
      BY <1>1, <2>1
    <3>2. IsFiniteSet(1..Len(text[i]))
      BY <3>1, FS_Interval
    <3>3. IsFiniteSet({i})
      BY FS_Singleton
    <3> QED BY <3>1, <3>2, <3>3
  <2> QED BY <2>1, <2>2, FS_Product
<1>4. IsFiniteSet(UNION lines)
  <2> HIDE DEF lines
  <2> QED BY <1>2, <1>3, FS_UNION
<1>5. WordsOf(text) \in SUBSET (UNION lines)
  BY DEF WordsOf
<1>6. IsFiniteSet(WordsOf(text))
  <2> HIDE DEF lines
  <2> QED BY <1>4, <1>5, FS_Subset
<1>7. ASSUME NEW at \in WordsOf(text)
      PROVE  /\ at[1] \in 1..Len(text) /\ at[2] \in 1..Len(text[at[1]]) /\ at = <<at[1], at[2]>>
             /\ text[at[1]][at[2]] # <<>>
  <2>1. text[at[1]][at[2]] # <<>> /\ \E i \in DOMAIN text : at \in {i} \X DOMAIN text[i]
    BY DEF WordsOf
  <2> QED BY <1>1, <2>1
<1> QED BY <1>1, <1>6, <1>7

NthWord(text, i) ==
  CHOOSE at \in WordsOf(text) : Cardinality({y \in WordsOf(text) : FurtherUp(y, at)}) = i - 1

\* The list collected from a text has an item for each word of it.
LEMMA TextToListIs ==
  ASSUME NEW text
  PROVE  TextToList(text) = [i \in 1..Cardinality(WordsOf(text)) |->
                              <<text[NthWord(text, i)[1]][NthWord(text, i)[2]]>>]
<1> DEFINE n == Cardinality(WordsOf(text))
           words == [i \in 1..n |-> NthWord(text, i)]
<1>1. InOrder(WordsOf(text), FurtherUp) = words
  BY Zenon DEF InOrder, NthWord
<1>2. TextToList(text) = [i \in DOMAIN words |-> <<text[words[i][1]][words[i][2]]>>]
  BY <1>1, Zenon DEF TextToList
<1>3. DOMAIN words = 1..n /\ \A i \in 1..n : words[i] = NthWord(text, i)
  OBVIOUS
<1> HIDE DEF words, n
<1>4. TextToList(text) = [i \in 1..n |-> <<text[NthWord(text, i)[1]][NthWord(text, i)[2]]>>]
  BY <1>2, <1>3
<1> QED BY <1>4 DEF n

\* A sequence of one element.
LEMMA One ==
  ASSUME NEW x
  PROVE  IsSequence(<<x>>) /\ Len(<<x>>) = 1 /\ <<x>> # <<>> /\ <<x>>[1] = x
<1>1. <<x>> \in Seq({x}) /\ Len(<<x>>) = 1 /\ <<x>>[1] = x
  OBVIOUS
<1>2. <<x>> = [i \in 1..Len(<<x>>) |-> <<x>>[i]]
  BY <1>1, IsASeq
<1> QED BY <1>1, <1>2 DEF IsSequence

\* What is collected from a text is a list of words, none of them empty.
LEMMA WordsListed ==
  ASSUME NEW text, IsText(text)
  PROVE  /\ IsText(TextToList(text))
         /\ \A i \in DOMAIN TextToList(text) :
              Len(TextToList(text)[i]) = 1 /\ TextToList(text)[i][1] # <<>>
<1> DEFINE W == WordsOf(text)
           order == {at \in W \X W : FurtherUp(at[1], at[2])}
           list == TextToList(text)
<1>1. /\ IsFiniteSet(W)
      /\ \A at \in W : /\ at[1] \in Nat /\ at[2] \in Nat /\ at = <<at[1], at[2]>>
                       /\ text[at[1]][at[2]] # <<>>
  <2>1. \A at \in W : at[1] \in 1..Len(text) /\ at[2] \in 1..Len(text[at[1]])
    BY Words
  <2>2. Len(text) \in Nat /\ \A i \in 1..Len(text) : Len(text[i]) \in Nat
    BY Words
  <2>3. \A at \in W : at[1] \in Nat /\ at[2] \in Nat
    BY <2>1, <2>2
  <2> QED BY <2>3, Words
<1>2. \A x, y \in W : <<x, y>> \in order <=> FurtherUp(x, y)
  OBVIOUS
<1>3. \A x \in W : BeforeIn(W, order, x) = {y \in W : FurtherUp(y, x)}
  BY <1>2 DEF BeforeIn
<1> HIDE DEF W, order
<1>4. IsOrder(W, order)
  <2>1. ASSUME NEW x \in W  PROVE ~FurtherUp(x, x)
    BY <1>1 DEF FurtherUp
  <2>2. ASSUME NEW x \in W, NEW y \in W, NEW z \in W, FurtherUp(x, y), FurtherUp(y, z)
        PROVE  FurtherUp(x, z)
    <3>1. /\ x[1] \in Nat /\ x[2] \in Nat /\ y[1] \in Nat /\ y[2] \in Nat
          /\ z[1] \in Nat /\ z[2] \in Nat
      BY <1>1
    <3> QED BY <2>2, <3>1 DEF FurtherUp
  <2>3. ASSUME NEW x \in W, NEW y \in W  PROVE x = y \/ FurtherUp(x, y) \/ FurtherUp(y, x)
    <3>1. /\ x[1] \in Nat /\ x[2] \in Nat /\ x = <<x[1], x[2]>>
          /\ y[1] \in Nat /\ y[2] \in Nat /\ y = <<y[1], y[2]>>
      BY <1>1
    <3>2. CASE x[1] = y[1] /\ x[2] = y[2]
      BY <3>1, <3>2, Zenon
    <3>3. CASE x[1] # y[1] \/ x[2] # y[2]
      <4> HIDE DEF W
      <4>1. x[1] < y[1] \/ y[1] < x[1] \/ (x[1] = y[1] /\ (x[2] < y[2] \/ y[2] < x[2]))
        BY <3>1, <3>3
      <4> QED BY <4>1 DEF FurtherUp
    <3> QED BY <3>2, <3>3
  <2> QED BY <1>2, <2>1, <2>2, <2>3 DEF IsOrder
<1>5. IsRanked(W, order)
  BY <1>1, <1>4, Ranked
<1>6. ASSUME NEW i \in 1..Cardinality(W)  PROVE NthWord(text, i) \in W
  BY <1>3, <1>5 DEF IsRanked, NthWord, W
<1>7. list = [i \in 1..Cardinality(W) |-> <<text[NthWord(text, i)[1]][NthWord(text, i)[2]]>>]
  BY TextToListIs DEF W
<1> HIDE DEF list
<1>8. /\ Cardinality(W) \in Nat /\ DOMAIN list = 1..Cardinality(W) /\ Len(list) = Cardinality(W)
      /\ \A i \in 1..Cardinality(W) :
           list[i] = <<text[NthWord(text, i)[1]][NthWord(text, i)[2]]>>
  BY <1>5, <1>7 DEF IsRanked
<1>9. IsSequence(list)
  BY <1>7, <1>8 DEF IsSequence
<1>10. ASSUME NEW i \in DOMAIN list
       PROVE  /\ IsSequence(list[i]) /\ list[i] # <<>>
              /\ Len(list[i]) = 1 /\ list[i][1] # <<>>
  <2> DEFINE word == text[NthWord(text, i)[1]][NthWord(text, i)[2]]
  <2>1. word # <<>>
    BY <1>1, <1>6, <1>8
  <2>2. list[i] = <<word>>
    BY <1>8
  <2> HIDE DEF word
  <2> QED BY <2>1, <2>2, One
<1> QED BY <1>9, <1>10 DEF IsText, list

\* A list of words, none of them empty, is collected as it was shown.
Column(k) == {<<j, 1>> : j \in 1..k}

\* The first words of a number of lines are as many.
LEMMA ColumnCount ==
  ASSUME NEW k \in Nat
  PROVE  Cardinality(Column(k)) = k
<1> DEFINE f == [j \in 1..k |-> <<j, 1>>]
<1>1. f \in Bijection(1..k, Column(k))
  BY DEF Bijection, Injection, Surjection, IsInjective, Column
<1>2. ExistsBijection(1..k, Column(k))
  BY <1>1 DEF ExistsBijection
<1> QED BY <1>2, FS_CountingElements

\* A list of single words, each on its line, is collected as it was.
LEMMA ListKept ==
  ASSUME NEW text, IsText(text), \A i \in DOMAIN text : Len(text[i]) = 1 /\ text[i][1] # <<>>
  PROVE  TextToList(text) = text
<1> DEFINE n == Len(text)
           W == WordsOf(text)
<1>1. /\ n \in Nat /\ DOMAIN text = 1..n /\ text = [i \in 1..n |-> text[i]]
      /\ \A i \in 1..n : DOMAIN text[i] = {1} /\ text[i] = <<text[i][1]>>
  <2>1. \A i \in 1..n : text[i] = [k \in 1..1 |-> text[i][k]]
    BY DEF IsText, IsSequence
  <2>2. ASSUME NEW i \in 1..n  PROVE text[i] = <<text[i][1]>> /\ DOMAIN text[i] = {1}
    <3>1. IsSequence(<<text[i][1]>>) /\ Len(<<text[i][1]>>) = 1 /\ <<text[i][1]>>[1] = text[i][1]
      BY One
    <3>2. <<text[i][1]>> = [k \in 1..1 |-> text[i][1]]
      BY <3>1 DEF IsSequence
    <3>3. text[i] = [k \in 1..1 |-> text[i][1]]
      BY <2>1
    <3> QED BY <3>2, <3>3
  <2> QED BY <2>2 DEF IsText, IsSequence
<1>2. W = Column(n)
  <2>1. ASSUME NEW at \in W  PROVE at \in Column(n)
    BY <1>1, Words DEF Column
  <2>2. ASSUME NEW at \in Column(n)  PROVE at \in W
    <3>1. PICK j \in 1..n : at = <<j, 1>>
      BY DEF Column
    <3>2. at \in {j} \X DOMAIN text[j] /\ at[1] = j /\ at[2] = 1
      BY <1>1, <3>1
    <3>3. text[at[1]][at[2]] # <<>>
      BY <1>1, <3>2
    <3> QED BY <1>1, <3>2, <3>3 DEF WordsOf
  <2> QED BY <2>1, <2>2
<1> HIDE DEF W
<1>3. Cardinality(W) = n
  BY <1>1, <1>2, ColumnCount
<1>4. ASSUME NEW i \in 1..n  PROVE NthWord(text, i) = <<i, 1>>
  <2>1. ASSUME NEW j \in 1..n
        PROVE  Cardinality({y \in W : FurtherUp(y, <<j, 1>>)}) = j - 1
    <3>1. {y \in W : FurtherUp(y, <<j, 1>>)} = Column(j - 1)
      BY <1>1, <1>2 DEF Column, FurtherUp
    <3>2. j - 1 \in Nat
      BY <1>1
    <3> QED BY <3>1, <3>2, ColumnCount
  <2>2. \A at \in W : \E j \in 1..n : at = <<j, 1>>
    BY <1>2 DEF Column
  <2>3. <<i, 1>> \in W
    BY <1>2 DEF Column
  <2>4. \A at \in W : Cardinality({y \in W : FurtherUp(y, at)}) = i - 1 => at = <<i, 1>>
    <3> SUFFICES ASSUME NEW at \in W, Cardinality({y \in W : FurtherUp(y, at)}) = i - 1
                 PROVE  at = <<i, 1>>
      OBVIOUS
    <3>1. PICK j \in 1..n : at = <<j, 1>>
      BY <2>2
    <3>2. j - 1 = i - 1
      BY <2>1, <3>1
    <3> QED BY <1>1, <3>1, <3>2
  <2> QED BY <2>1, <2>3, <2>4 DEF NthWord, W
<1>5. \A i \in 1..n : NthWord(text, i)[1] = i /\ NthWord(text, i)[2] = 1
  BY <1>4
<1>6. TextToList(text) = [i \in 1..n |-> <<text[NthWord(text, i)[1]][NthWord(text, i)[2]]>>]
  BY <1>3, TextToListIs DEF W
<1>7. \A i \in 1..n : <<text[NthWord(text, i)[1]][NthWord(text, i)[2]]>> = text[i]
  BY <1>1, <1>5
<1>8. TextToList(text) = [i \in 1..n |-> text[i]]
  <2> HIDE DEF n
  <2> QED BY <1>6, <1>7
<1> QED BY <1>1, <1>8

\* What is a sequence.
LEMMA SequenceIs ==
  ASSUME NEW s
  PROVE  /\ IsSequence(s) => s \in Seq({s[i] : i \in 1..Len(s)})
         /\ \A S : s \in Seq(S) => IsSequence(s)
<1>1. ASSUME IsSequence(s)  PROVE s \in Seq({s[i] : i \in 1..Len(s)})
  <2>1. Len(s) \in Nat /\ s \in [1..Len(s) -> {s[i] : i \in 1..Len(s)}]
    BY <1>1 DEF IsSequence
  <2> QED BY <2>1, SeqDef
<1>2. ASSUME NEW S, s \in Seq(S)  PROVE IsSequence(s)
  <2>1. Len(s) \in Nat /\ s \in [1..Len(s) -> S]
    BY <1>2, LenProperties
  <2> QED BY <2>1 DEF IsSequence
<1> QED BY <1>1, <1>2

IsLine(line) == IsSequence(line) /\ line # <<>>

\* The lines of a text run together are a line, ...
LEMMA RunKeepsLine ==
  ASSUME NEW before, IsLine(before), NEW line, IsLine(line)
  PROVE  IsLine(RunTogether(before, line))
<1> DEFINE word == Last(before) \o Head(line)
           S == {before[i] : i \in 1..Len(before)} \cup {line[i] : i \in 1..Len(line)} \cup {word}
<1>1. before \in Seq(S) /\ line \in Seq(S) /\ word \in S
  <2>1. /\ before \in Seq({before[i] : i \in 1..Len(before)})
        /\ line \in Seq({line[i] : i \in 1..Len(line)})
    BY SequenceIs DEF IsLine
  <2> QED BY <2>1, SeqMonotonic
<1> HIDE DEF S, word
<1>2. Front(before) \in Seq(S)
  <2>1. /\ Len(before) \in Nat /\ DOMAIN before = 1..Len(before)
        /\ \A i \in 1..Len(before) : before[i] \in S
    BY <1>1
  <2>2. \A i \in 1..(Len(before) - 1) : before[i] \in S
    BY <2>1
  <2> QED BY <2>1, <2>2, SubSeqProperties DEF Front
<1>3. Tail(line) \in Seq(S)
  BY <1>1, HeadTailProperties DEF IsLine
<1>4. <<word>> \in Seq(S) /\ Len(<<word>>) = 1
  BY <1>1
<1> DEFINE run == (Front(before) \o <<word>>) \o Tail(line)
<1>5. run \in Seq(S) /\ Len(run) >= 1
  <2>1. /\ Front(before) \o <<word>> \in Seq(S)
        /\ Len(Front(before) \o <<word>>) = Len(Front(before)) + 1
        /\ Len(Front(before)) \in Nat /\ Len(Tail(line)) \in Nat
    BY <1>2, <1>3, <1>4, ConcatProperties
  <2>2. run \in Seq(S) /\ Len(run) = Len(Front(before)) + 1 + Len(Tail(line))
    BY <1>3, <2>1, ConcatProperties
  <2> HIDE DEF run
  <2>3. \A a, b \in Nat : a + 1 + b >= 1
    OBVIOUS
  <2>4. Len(Front(before)) + 1 + Len(Tail(line)) >= 1
    BY <2>1, <2>3, Zenon
  <2> QED BY <2>2, <2>4, Zenon
<1>6. RunTogether(before, line) = run
  BY DEF RunTogether, word
<1> HIDE DEF run
<1>7. IsSequence(run)
  BY <1>5, SequenceIs
<1>8. run # <<>>
  BY <1>5, EmptySeq
<1> QED BY <1>6, <1>7, <1>8 DEF IsLine

\* ... by a recursion that has a value, ...
IsJoined(f, text, n) ==
  f = [i \in 1..n |-> IF i = 1 THEN text[1] ELSE RunTogether(f[i - 1], text[i])]

\* The lines of a text can be run together one after the other, ...
LEMMA JoinedExists ==
  ASSUME NEW text, NEW k \in Nat
  PROVE  \E f : IsJoined(f, text, k)
<1> DEFINE Without == {n \in Nat : ~\E f : IsJoined(f, text, n)}
<1>1. Without = {}
  <2> SUFFICES ASSUME Without # {}  PROVE FALSE
    OBVIOUS
  <2>1. PICK n \in Without : \A m \in Without : n <= m
    <3>1. Without \in SUBSET Nat
      OBVIOUS
    <3> HIDE DEF Without
    <3> QED BY <3>1, LeastOf
  <2>2. n \in Nat /\ ~\E f : IsJoined(f, text, n)
    OBVIOUS
  <2>3. CASE n = 0
    <3> DEFINE none == [i \in 1..0 |-> text[1]]
    <3>1. IsJoined(none, text, 0)
      BY DEF IsJoined
    <3> QED BY <2>2, <2>3, <3>1
  <2>4. CASE n # 0
    <3>1. n - 1 \in Nat /\ n - 1 \notin Without
      <4> HIDE DEF Without
      <4> QED BY <2>1, <2>2, <2>4
    <3>2. PICK g : IsJoined(g, text, n - 1)
      BY <3>1
    <3> DEFINE h == [i \in 1..n |-> IF i = n THEN IF n = 1 THEN text[1]
                                                 ELSE RunTogether(g[n - 1], text[n])
                                    ELSE g[i]]
    <3>3. ASSUME NEW i \in 1..n
          PROVE  h[i] = IF i = 1 THEN text[1] ELSE RunTogether(h[i - 1], text[i])
      <4>1. i # 1 => i - 1 \in 1..n /\ i - 1 # n /\ i - 1 \in 1..(n - 1)
        BY <2>2
      <4>2. i # 1 => h[i - 1] = g[i - 1]
        BY <4>1
      <4>3. CASE i = n
        BY <4>2, <4>3
      <4>4. CASE i # n
        <5>1. i \in 1..(n - 1) /\ h[i] = g[i]
          BY <2>2, <4>4
        <5>2. g[i] = IF i = 1 THEN text[1] ELSE RunTogether(g[i - 1], text[i])
          <6> HIDE DEF h
          <6> QED BY <3>2, <5>1 DEF IsJoined
        <5> HIDE DEF h
        <5> QED BY <4>2, <5>1, <5>2
      <4> QED BY <4>3, <4>4
    <3>4. IsJoined(h, text, n)
      <4>1. h = [i \in 1..n |-> h[i]]
        OBVIOUS
      <4> HIDE DEF h
      <4> QED BY <3>3, <4>1 DEF IsJoined
    <3> QED BY <2>2, <3>4
  <2> QED BY <2>3, <2>4
<1> QED BY <1>1

\* ... which makes a line of them, ...
LEMMA JoinedIsLine ==
  ASSUME NEW text, IsText(text), text # <<>>
  PROVE  IsLine(Joined(text)) /\ (Len(text) = 1 => Joined(text) = text[1])
<1> DEFINE k == Len(text)
           f == CHOOSE g : IsJoined(g, text, k)
<1>1. k \in Nat /\ k >= 1 /\ DOMAIN text = 1..k /\ \A i \in 1..k : IsLine(text[i])
  <2>1. k \in Nat /\ text = [i \in 1..k |-> text[i]] /\ \A i \in DOMAIN text : IsLine(text[i])
    BY DEF IsText, IsSequence, IsLine
  <2>2. text \in Seq({text[i] : i \in 1..k})
    BY SequenceIs DEF IsText
  <2>3. k # 0
    BY <2>2
  <2> QED BY <2>1, <2>3
<1>2. IsJoined(f, text, k)
  <2>1. \E g : IsJoined(g, text, k)
    BY <1>1, JoinedExists
  <2> QED BY <2>1
<1>3. Joined(text) = f[k]
  BY Zenon DEF Joined, IsJoined
<1> HIDE DEF f, k
<1>4. \A i \in 1..k : f[i] = IF i = 1 THEN text[1] ELSE RunTogether(f[i - 1], text[i])
  BY <1>2 DEF IsJoined
<1> DEFINE Bad == {i \in 1..k : ~IsLine(f[i])}
<1>5. Bad = {}
  <2> SUFFICES ASSUME Bad # {}  PROVE FALSE
    OBVIOUS
  <2>1. PICK i \in Bad : \A j \in Bad : i <= j
    <3>1. Bad \in SUBSET Nat
      BY <1>1
    <3> HIDE DEF Bad
    <3> QED BY <3>1, LeastOf
  <2>2. i \in 1..k /\ ~IsLine(f[i])
    OBVIOUS
  <2>3. i # 1
    BY <1>1, <1>4, <2>2
  <2>4. i - 1 \in 1..k /\ i - 1 \notin Bad
    <3> HIDE DEF Bad
    <3> QED BY <1>1, <2>1, <2>2, <2>3
  <2>5. IsLine(f[i - 1]) /\ IsLine(text[i])
    BY <1>1, <2>2, <2>4
  <2>6. IsLine(RunTogether(f[i - 1], text[i]))
    BY <2>5, RunKeepsLine
  <2> QED BY <1>4, <2>2, <2>3, <2>6
<1>6. IsLine(f[k])
  BY <1>1, <1>5
<1>7. k = 1 => f[k] = text[1]
  BY <1>1, <1>4
<1> QED BY <1>3, <1>6, <1>7 DEF k

\* ... and leaves a text that has one line only.
LEMMA SingleLineIs ==
  ASSUME NEW text, IsText(text)
  PROVE  IsText(SingleLine(text)) /\ (Len(text) <= 1 => SingleLine(text) = text)
<1>1. CASE text = <<>>
  BY <1>1 DEF SingleLine
<1>2. CASE text # <<>>
  <2>1. SingleLine(text) = <<Joined(text)>>
    BY <1>2 DEF SingleLine
  <2>2. IsLine(Joined(text)) /\ (Len(text) = 1 => Joined(text) = text[1])
    BY <1>2, JoinedIsLine
  <2>3. /\ IsSequence(<<Joined(text)>>) /\ Len(<<Joined(text)>>) = 1
        /\ <<Joined(text)>>[1] = Joined(text) /\ DOMAIN <<Joined(text)>> = {1}
    BY One
  <2>4. IsText(SingleLine(text))
    BY <2>1, <2>2, <2>3 DEF IsText, IsLine
  <2>5. ASSUME Len(text) <= 1  PROVE SingleLine(text) = text
    <3>1. text \in Seq({text[i] : i \in 1..Len(text)})
      BY SequenceIs DEF IsText
    <3>2. Len(text) = 1
      <4>1. Len(text) \in Nat /\ Len(text) # 0
        BY <1>2, <3>1, EmptySeq
      <4> QED BY <2>5, <4>1
    <3>3. text = <<text[1]>>
      BY <3>1, <3>2
    <3> QED BY <2>1, <2>2, <3>2, <3>3
  <2> QED BY <2>4, <2>5
<1> QED BY <1>1, <1>2

-----------------------------------------------------------------------------
\* The kinds whose values a form shows and collects as they are.
Direct(kind) == kind \notin {"line", "lines", "countries", "csv"}

\* No entries are a text of no lines.
LEMMA NothingIsText == IsText(NoEntries) /\ IsSequence(NoEntries)
<1>1. <<>> \in Seq({}) /\ DOMAIN <<>> = {}
  BY EmptySeq
<1> QED BY <1>1, SequenceIs DEF IsText, NoEntries

\* The codes of a list are finitely many numbers.
LEMMA CodesParsed ==
  ASSUME NEW value, IsSequence(value), \A i \in DOMAIN value : value[i].place \in Nat
  PROVE  ParseCountries(value) \subseteq Nat /\ IsFiniteSet(ParseCountries(value))
<1> DEFINE f == [i \in DOMAIN value |-> value[i].place]
<1>1. Len(value) \in Nat /\ DOMAIN value = 1..Len(value)
  BY DEF IsSequence
<1>2. IsFiniteSet(DOMAIN value)
  <2>1. 1 \in Int /\ Len(value) \in Int
    BY <1>1
  <2>2. IsFiniteSet(1..Len(value))
    BY <2>1, FS_Interval
  <2> QED BY <1>1, <2>2
<1>3. f \in Surjection(DOMAIN value, ParseCountries(value))
  BY DEF Surjection, ParseCountries
<1> HIDE DEF f
<1> QED BY <1>2, <1>3, FS_Surjection DEF ParseCountries

\* An input shows what it can hold, and what is collected from it is a value of its kind.
LEMMA ShownIs ==
  ASSUME NEW kind, NEW value, IsValue(kind, value)
  PROVE  IsContent(kind, Populate(kind, value))
<1>1. CASE kind = "line"
  BY <1>1, SingleLineIs DEF IsValue, IsContent, Populate, ListToText
<1>2. CASE kind = "lines"
  BY <1>2 DEF IsValue, IsContent, Populate, ListToText
<1>3. CASE kind \in {"countries", "csv"}
  <2>1. Populate(kind, value) = ParseCountries(value)
    BY <1>3 DEF Populate
  <2>2. ParseCountries(value) \subseteq Nat /\ IsFiniteSet(ParseCountries(value))
    BY <1>3, CodesParsed DEF IsValue
  <2> QED BY <1>3, <2>1, <2>2 DEF IsContent
<1>4. CASE Direct(kind)
  BY <1>4 DEF Direct, IsValue, IsContent, Populate
<1> QED BY <1>1, <1>2, <1>3, <1>4 DEF Direct

\* What is collected from an input is a value of its kind, ...
LEMMA Collected ==
  ASSUME NEW kind, NEW content, IsContent(kind, content), Collectable(kind, content)
  PROVE  IsValue(kind, Collect(kind, content))
<1>1. CASE kind \in {"line", "lines"}
  BY <1>1, WordsListed DEF IsValue, IsContent, Collect
<1>2. CASE kind \in {"countries", "csv"}
  <2>1. Collect(kind, content) = FormatCountries(content)
    BY <1>2 DEF Collect
  <2>2. content \subseteq Nat /\ IsFiniteSet(content)
    BY <1>2 DEF IsContent
  <2>3. /\ IsSequence(FormatCountries(content))
        /\ \A i \in DOMAIN FormatCountries(content) : FormatCountries(content)[i].place \in Nat
    BY <2>2, CodesKept
  <2> QED BY <1>2, <2>1, <2>3 DEF IsValue
<1>3. CASE kind = "number"
  BY <1>3, FormAssumption DEF IsValue, IsContent, Collect
<1>4. CASE kind = "json"
  BY <1>4, FormAssumption DEF IsValue, IsContent, Collect, Collectable
<1>5. CASE Direct(kind) /\ kind \notin {"number", "json"}
  BY <1>5 DEF Direct, IsValue
<1> QED BY <1>1, <1>2, <1>3, <1>4, <1>5 DEF Direct

\* ... an empty one included.
LEMMA FreshIs ==
  ASSUME NEW kind
  PROVE  /\ IsContent(kind, Fresh(kind)) /\ Collectable(kind, Fresh(kind))
         /\ kind = "number" => Collect(kind, Fresh(kind)) = 0
<1>1. IsFiniteSet({})
  BY FS_EmptySet
<1>2. IsContent(kind, Fresh(kind))
  BY <1>1, NothingIsText DEF IsContent, Fresh
<1>3. Collectable(kind, Fresh(kind))
  BY FormAssumption DEF Collectable, Fresh
<1>4. kind = "number" => Collect(kind, Fresh(kind)) = 0
  BY DEF Collect, Fresh
<1> QED BY <1>2, <1>3, <1>4

\* A value of a kind that is direct is given back as it was.
LEMMA DirectKept ==
  ASSUME NEW kind, Direct(kind), NEW value, IsValue(kind, value)
  PROVE  Collect(kind, Populate(kind, value)) = value
<1>1. Populate(kind, value) = value
  BY DEF Direct, Populate
<1>2. kind = "number" \/ kind = "json" => value # Blank
  BY FormAssumption DEF IsValue
<1> QED BY <1>1, <1>2 DEF Direct, Collect

\* Showing a value in the form and saving it means what it meant, but for a list in a single line,
\* and entries with a comma or none; and the value stays one that is given back.
LEMMA GivesBack ==
  ASSUME NEW kind, NEW value, IsValue(kind, value), Plain(kind, value)
  PROVE  /\ Plain(kind, Collect(kind, Populate(kind, value)))
         /\ Meaning(kind, Collect(kind, Populate(kind, value))) = Meaning(kind, value)
<1> DEFINE back == Collect(kind, Populate(kind, value))
<1>1. CASE kind \in {"line", "lines"}
  <2>1. IsText(value) /\ \A i \in DOMAIN value : Len(value[i]) = 1 /\ value[i][1] # <<>>
    BY <1>1 DEF IsValue, Plain
  <2>2. Populate(kind, value) = value
    BY <1>1, <2>1, SingleLineIs DEF Plain, Populate, ListToText
  <2>3. back = TextToList(value)
    BY <1>1, <2>2 DEF Collect
  <2>4. back = value
    BY <2>1, <2>3, ListKept
  <2> QED BY <2>4
<1>2. CASE kind \in {"countries", "csv"}
  <2>1. back = FormatCountries(ParseCountries(value))
    BY <1>2 DEF Collect, Populate
  <2>2. ParseCountries(value) \subseteq Nat /\ IsFiniteSet(ParseCountries(value))
    BY <1>2, CodesParsed DEF IsValue
  <2>3. ParseCountries(back) = ParseCountries(value)
    BY <2>1, <2>2, CodesKept
  <2> HIDE DEF back
  <2>4. Plain(kind, back) /\ Meaning(kind, back) = Meaning(kind, value)
    BY <1>2, <2>3 DEF Plain, Meaning
  <2> QED BY <2>4 DEF back
<1>3. CASE Direct(kind)
  BY <1>3, DirectKept
<1> QED BY <1>1, <1>2, <1>3 DEF Direct

\* What an empty form saves is what it saves when it was shown.
LEMMA FreshStays ==
  ASSUME NEW kind
  PROVE  LET first == Collect(kind, Fresh(kind))
         IN  Collect(kind, Populate(kind, first)) = first
<1> DEFINE first == Collect(kind, Fresh(kind))
<1>1. CASE kind \in {"line", "lines"}
  <2>1. IsText(NoEntries) /\ DOMAIN NoEntries = {} /\ Len(NoEntries) = 0
    BY NothingIsText, EmptySeq DEF NoEntries
  <2>2. TextToList(NoEntries) = NoEntries
    BY <2>1, ListKept
  <2>3. first = NoEntries
    BY <1>1, <2>2 DEF Fresh, Collect
  <2>4. Populate(kind, NoEntries) = NoEntries
    BY <1>1, <2>1, SingleLineIs DEF Populate, ListToText
  <2> QED BY <1>1, <2>2, <2>3, <2>4 DEF Collect
<1>2. CASE kind \in {"countries", "csv"}
  <2>1. first = FormatCountries({})
    BY <1>2 DEF Fresh, Collect
  <2>2. ParseCountries(FormatCountries({})) = {}
    BY FS_EmptySet, CodesKept
  <2>3. Populate(kind, first) = {}
    BY <1>2, <2>1, <2>2 DEF Populate
  <2> HIDE DEF first
  <2>4. Collect(kind, Populate(kind, first)) = FormatCountries({})
    BY <1>2, <2>3 DEF Collect
  <2> QED BY <2>1, <2>4 DEF first
<1>3. CASE Direct(kind)
  <2>1. IsValue(kind, first)
    BY FreshIs, Collected
  <2> HIDE DEF first
  <2>2. Collect(kind, Populate(kind, first)) = first
    BY <1>3, <2>1, DirectKept
  <2> QED BY <2>2 DEF first
<1> QED BY <1>1, <1>2, <1>3 DEF Direct

-----------------------------------------------------------------------------
\* The tables of the tabs: the first key of a path tells the tab.
FirstKeys(section) ==
  CASE section = "dashboard" -> {"dashboard"}
    [] section = "decision" -> {"decision_thresholds", "critical_signals"}
    [] section = "operator" -> {"operator"}
    [] section = "ip_intel" -> {"ip_intel"}
    [] section = "aml" -> {"aml"}
    [] section = "withdrawal_method" -> {"withdrawal_method"}
    [] section = "betting_patterns" -> {"betting_patterns"}
    [] section = "hedge_betting" -> {"hedge_betting"}
    [] section = "step_up" -> {"step_up_verification"}
    [] section = "fingerprint" -> {"fingerprint"}
    [] section = "lists" -> {"lists"}
    [] section = "velocity" -> {"velocity_thresholds"}
    [] section = "features" -> {"features"}
    [] section = "logs" -> {"logging"}

\* The paths under a key start with it, ...
LEMMA UnderStarts ==
  /\ \A key, keys : \A path \in Under(<<key>>, keys) : path[1] = key
  /\ \A key, next, keys : \A path \in Under(<<key, next>>, keys) : path[1] = key
<1>1. ASSUME NEW key, NEW keys, NEW path \in Under(<<key>>, keys)  PROVE path[1] = key
  <2>1. PICK last \in keys : path = <<key>> \o <<last>>
    BY DEF Under
  <2>2. <<key>> \in Seq({key, last}) /\ <<last>> \in Seq({key, last})
        /\ Len(<<key>>) = 1 /\ Len(<<last>>) = 1 /\ <<key>>[1] = key
    OBVIOUS
  <2>3. (<<key>> \o <<last>>)[1] = <<key>>[1]
    BY <2>2, ConcatProperties
  <2> QED BY <2>1, <2>2, <2>3
<1>2. ASSUME NEW key, NEW next, NEW keys, NEW path \in Under(<<key, next>>, keys)
      PROVE  path[1] = key
  <2>1. PICK last \in keys : path = <<key, next>> \o <<last>>
    BY DEF Under
  <2>2. <<key, next>> \in Seq({key, next, last}) /\ <<last>> \in Seq({key, next, last})
        /\ Len(<<key, next>>) = 2 /\ Len(<<last>>) = 1 /\ <<key, next>>[1] = key
    OBVIOUS
  <2>3. (<<key, next>> \o <<last>>)[1] = <<key, next>>[1]
    BY <2>2, ConcatProperties
  <2> QED BY <2>1, <2>2, <2>3
<1> QED BY <1>1, <1>2

Starts(table, keys) == \A path \in DOMAIN table : path[1] \in keys

\* ... and so do those of the tables made of them: of one, two, ...
LEMMA TableStarts ==
  /\ \A kind, key, keys, first : key \in first => Starts(All(kind, Under(<<key>>, keys)), first)
  /\ \A kind, key, next, keys, first :
       key \in first => Starts(All(kind, Under(<<key, next>>, keys)), first)
  /\ \A kind, key, first : key \in first => Starts(All(kind, {<<key>>}), first)
  /\ \A kind, key, last, first : key \in first => Starts(All(kind, {<<key, last>>}), first)
  /\ \A kind, key, next, last, first :
       key \in first => Starts(All(kind, {<<key, next, last>>}), first)
  /\ \A f, g, first : Starts(f, first) /\ Starts(g, first) => Starts(f ++ g, first)
<1>1. \A kind, paths : DOMAIN All(kind, paths) = paths
  BY DEF All
<1>2. \A f, g, first : Starts(f, first) /\ Starts(g, first) => Starts(f ++ g, first)
  BY DEF ++, Starts
<1>3. ASSUME NEW kind, NEW key, NEW keys, NEW first, key \in first
      PROVE  Starts(All(kind, Under(<<key>>, keys)), first)
  <2> DEFINE paths == Under(<<key>>, keys)
  <2>1. \A path \in paths : path[1] \in first
    BY <1>3, UnderStarts, Zenon
  <2> HIDE DEF paths
  <2>2. Starts(All(kind, paths), first)
    BY <1>1, <2>1 DEF Starts
  <2> QED BY <2>2 DEF paths
<1>4. ASSUME NEW kind, NEW key, NEW next, NEW keys, NEW first, key \in first
      PROVE  Starts(All(kind, Under(<<key, next>>, keys)), first)
  <2> DEFINE paths == Under(<<key, next>>, keys)
  <2>1. \A path \in paths : path[1] \in first
    BY <1>4, UnderStarts
  <2> HIDE DEF paths
  <2>2. Starts(All(kind, paths), first)
    BY <1>1, <2>1 DEF Starts
  <2> QED BY <2>2 DEF paths
<1>5. \A kind, key, first : key \in first => Starts(All(kind, {<<key>>}), first)
  BY <1>1 DEF Starts
<1>6. \A kind, key, last, first : key \in first => Starts(All(kind, {<<key, last>>}), first)
  BY <1>1 DEF Starts
<1>7. \A kind, key, next, last, first :
        key \in first => Starts(All(kind, {<<key, next, last>>}), first)
  BY <1>1 DEF Starts
<1> QED BY <1>2, <1>3, <1>4, <1>5, <1>6, <1>7

\* Tables of three parts, and that of the blocklist.
LEMMA LongTableStarts ==
  ASSUME NEW a, NEW b, NEW c, NEW key, NEW last, NEW A, NEW B, NEW C
  PROVE  /\ Starts(All(a, Under(<<key>>, A)) ++ All(b, Under(<<key>>, B))
                   ++ All(c, Under(<<key>>, C)), {key})
         /\ Starts(All(a, Under(<<key>>, A)) ++ All(b, Under(<<key>>, B))
                   ++ All(c, {<<key, last>>}), {key})
<1>1. key \in {key}
  OBVIOUS
<1>2. /\ Starts(All(a, Under(<<key>>, A)), {key}) /\ Starts(All(b, Under(<<key>>, B)), {key})
      /\ Starts(All(c, Under(<<key>>, C)), {key}) /\ Starts(All(c, {<<key, last>>}), {key})
  BY <1>1, TableStarts
<1>3. \A f, g, h : Starts(f, {key}) /\ Starts(g, {key}) /\ Starts(h, {key}) =>
                  Starts(f ++ g ++ h, {key})
  BY TableStarts
<1> QED BY <1>2, <1>3

\* ... and more parts.
LEMMA FingerprintStarts ==
  ASSUME NEW a, NEW b, NEW c, NEW key, NEW first, NEW last, NEW B
  PROVE  Starts(All(a, {<<key, first>>}) ++ All(b, Under(<<key>>, B)) ++ All(c, {<<key, last>>}),
                {key})
<1>1. key \in {key}
  OBVIOUS
<1>2. /\ Starts(All(a, {<<key, first>>}), {key}) /\ Starts(All(c, {<<key, last>>}), {key})
      /\ Starts(All(b, Under(<<key>>, B)), {key})
  BY <1>1, TableStarts
<1> QED BY <1>2, TableStarts

LEMMA BlocklistStarts ==
  ASSUME NEW a, NEW b, NEW c, NEW d, NEW key, NEW next, NEW last, NEW A, NEW B, NEW C
  PROVE  Starts(All(a, Under(<<key, next>>, A)) ++ All(b, Under(<<key, next>>, B))
                ++ All(c, Under(<<key, next>>, C)) ++ All(d, {<<key, next, last>>}), {key})
<1>1. key \in {key}
  OBVIOUS
<1>2. /\ Starts(All(a, Under(<<key, next>>, A)), {key})
      /\ Starts(All(b, Under(<<key, next>>, B)), {key})
      /\ Starts(All(c, Under(<<key, next>>, C)), {key})
      /\ Starts(All(d, {<<key, next, last>>}), {key})
  BY <1>1, TableStarts
<1> QED BY <1>2, TableStarts

\* The fields of a tab start with its keys.
LEMMA FirstKey ==
  ASSUME NEW section \in TabIds
  PROVE  Starts(FieldsOf(section), FirstKeys(section))
<1>1. section \in {"dashboard", "decision", "operator", "ip_intel", "aml", "withdrawal_method",
              "betting_patterns", "hedge_betting", "step_up", "fingerprint", "lists", "velocity",
              "features", "logs"}
  BY DEF TabIds, Sections
<1>2. \A key : key \in {key}
  OBVIOUS
<1>3. CASE section = "dashboard"
  <2>1. Starts(DashboardFields, {"dashboard"})
    BY <1>2, TableStarts, Zenon DEF DashboardFields
  <2> QED BY <1>3, <2>1 DEF FieldsOf, FirstKeys
<1>4. CASE section = "operator"
  <2>1. Starts(OperatorFields, {"operator"})
    BY <1>2, TableStarts, Zenon DEF OperatorFields
  <2> QED BY <1>4, <2>1 DEF FieldsOf, FirstKeys
<1>5. CASE section = "ip_intel"
  <2>1. Starts(IpIntelFields, {"ip_intel"})
    BY <1>2, TableStarts, Zenon DEF IpIntelFields
  <2> QED BY <1>5, <2>1 DEF FieldsOf, FirstKeys
<1>6. CASE section = "withdrawal_method"
  <2>1. Starts(WithdrawalMethodFields, {"withdrawal_method"})
    BY <1>2, TableStarts, Zenon DEF WithdrawalMethodFields
  <2> QED BY <1>6, <2>1 DEF FieldsOf, FirstKeys
<1>7. CASE section = "betting_patterns"
  <2>1. Starts(BettingPatternFields, {"betting_patterns"})
    BY <1>2, TableStarts, Zenon DEF BettingPatternFields
  <2> QED BY <1>7, <2>1 DEF FieldsOf, FirstKeys
<1>8. CASE section = "hedge_betting"
  <2>1. Starts(HedgeBettingFields, {"hedge_betting"})
    BY LongTableStarts, Zenon DEF HedgeBettingFields
  <2> QED BY <1>8, <2>1 DEF FieldsOf, FirstKeys
<1>9. CASE section = "step_up"
  <2>1. Starts(StepUpFields, {"step_up_verification"})
    BY LongTableStarts, Zenon DEF StepUpFields
  <2> QED BY <1>9, <2>1 DEF FieldsOf, FirstKeys
<1>10. CASE section = "fingerprint"
  <2>1. Starts(FingerprintFields, {"fingerprint"})
    BY FingerprintStarts, Zenon DEF FingerprintFields
  <2> QED BY <1>10, <2>1 DEF FieldsOf, FirstKeys
<1>11. CASE section = "lists"
  <2>1. Starts(ListFields, {"lists"})
    BY <1>2, TableStarts, Zenon DEF ListFields
  <2> QED BY <1>11, <2>1 DEF FieldsOf, FirstKeys
<1>12. CASE section = "velocity"
  <2>1. Starts(VelocityFields, {"velocity_thresholds"})
    BY <1>2, TableStarts, Zenon DEF VelocityFields
  <2> QED BY <1>12, <2>1 DEF FieldsOf, FirstKeys
<1>13. CASE section = "features"
  <2>1. Starts(FeatureFields, {"features"})
    BY LongTableStarts, Zenon DEF FeatureFields
  <2> QED BY <1>13, <2>1 DEF FieldsOf, FirstKeys
<1>14. CASE section = "logs"
  <2>1. Starts(LoggingFields, {"logging"})
    BY <1>2, TableStarts, Zenon DEF LoggingFields
  <2> QED BY <1>14, <2>1 DEF FieldsOf, FirstKeys
<1>15. CASE section = "decision"
  <2> DEFINE keys == {"decision_thresholds", "critical_signals"}
  <2>1. "decision_thresholds" \in keys /\ "critical_signals" \in keys
    OBVIOUS
  <2>2. Starts(DecisionFields, keys)
    BY <2>1, TableStarts, Zenon DEF DecisionFields
  <2> QED BY <1>15, <2>2 DEF FieldsOf, FirstKeys
<1>16. CASE section = "aml"
  <2>1. Starts(AmlFields, {"aml"})
    BY <1>2, TableStarts, Zenon DEF AmlFields
  <2>2. Starts(BlocklistFields, {"aml"})
    BY BlocklistStarts, Zenon DEF BlocklistFields
  <2>3. Starts(AmlFields ++ BlocklistFields, {"aml"})
    BY <2>1, <2>2, TableStarts, Zenon
  <2> QED BY <1>16, <2>3 DEF FieldsOf, FirstKeys
<1> QED
  BY <1>1, <1>3, <1>4, <1>5, <1>6, <1>7, <1>8, <1>9, <1>10, <1>11, <1>12, <1>13, <1>14, <1>15,
     <1>16

-----------------------------------------------------------------------------
Velocity == <<"velocity_thresholds">>

\* A path whose first key is of one tab only has the kind it has in the table of that tab.
LEMMA KindIn ==
  ASSUME NEW section \in TabIds, NEW path \in DOMAIN FieldsOf(section),
         \A other \in TabIds : path[1] \in FirstKeys(other) => other = section
  PROVE  path \in FormPaths /\ FieldKind[path] = FieldsOf(section)[path]
<1>1. \A other \in TabIds : path \in DOMAIN FieldsOf(other) => other = section
  BY FirstKey DEF Starts
<1>2. (CHOOSE other \in TabIds : path \in DOMAIN FieldsOf(other)) = section
  BY <1>1
<1>3. path \in FormPaths
  BY DEF FormPaths
<1> QED BY <1>2, <1>3 DEF FieldKind

\* The kinds of the velocity thresholds and of the decision thresholds.
LEMMA Kinded ==
  /\ Velocity \in FormPaths /\ FieldKind[Velocity] = "json"
  /\ \A i \in 1..3 : Thresholds[i] \in FormPaths /\ FieldKind[Thresholds[i]] = "number"
<1>1. TabIds = {"dashboard", "decision", "operator", "ip_intel", "aml", "withdrawal_method",
                "betting_patterns", "hedge_betting", "step_up", "fingerprint", "lists", "velocity",
                "features", "logs"}
  BY DEF TabIds, Sections
<1>2. \A other \in TabIds : "velocity_thresholds" \in FirstKeys(other) => other = "velocity"
  BY <1>1 DEF FirstKeys
<1>3. \A other \in TabIds : "decision_thresholds" \in FirstKeys(other) => other = "decision"
  BY <1>1 DEF FirstKeys
<1>4. Velocity \in FormPaths /\ FieldKind[Velocity] = "json"
  <2>1. Velocity[1] = "velocity_thresholds"
    BY DEF Velocity
  <2>2. FieldsOf("velocity") = All("json", {Velocity})
    BY DEF FieldsOf, VelocityFields, Velocity
  <2> HIDE DEF Velocity
  <2>3. Velocity \in DOMAIN FieldsOf("velocity") /\ FieldsOf("velocity")[Velocity] = "json"
    BY <2>2 DEF All
  <2>4. FieldKind[Velocity] = FieldsOf("velocity")[Velocity] /\ Velocity \in FormPaths
    BY <1>1, <1>2, <2>1, <2>3, KindIn
  <2> QED BY <2>3, <2>4
<1>5. ASSUME NEW key \in {"challenge", "high", "block"}
      PROVE  /\ <<"decision_thresholds", key>> \in FormPaths
             /\ FieldKind[<<"decision_thresholds", key>>] = "number"
  <2> DEFINE path == <<"decision_thresholds", key>>
             numbers == Under(<<"decision_thresholds">>, {"challenge", "high", "block"})
             lists == All("lines", {<<"critical_signals">>})
  <2>1. path \in numbers
    <3>1. path = <<"decision_thresholds">> \o <<key>>
      OBVIOUS
    <3> QED BY <3>1 DEF Under
  <2>2. path[1] = "decision_thresholds"
    OBVIOUS
  <2>3. FieldsOf("decision") = All("number", numbers) ++ lists
    BY DEF FieldsOf, DecisionFields
  <2> HIDE DEF path, numbers, lists
  <2>4. path \in DOMAIN FieldsOf("decision") /\ FieldsOf("decision")[path] = "number"
    BY <2>1, <2>3 DEF All, ++
  <2>5. FieldKind[path] = FieldsOf("decision")[path] /\ path \in FormPaths
    BY <1>1, <1>3, <2>2, <2>4, KindIn
  <2> QED BY <2>4, <2>5 DEF path
<1>6. \A i \in 1..3 : \E key \in {"challenge", "high", "block"} :
        Thresholds[i] = <<"decision_thresholds", key>>
  BY DEF Thresholds
<1> QED BY <1>4, <1>5, <1>6

\* Completing a partial object twice is completing it once; other fields are stored as they are.
LEMMA StoredTwice ==
  ASSUME NEW path, NEW value
  PROVE  /\ Stored(path, Stored(path, value)) = Stored(path, value)
         /\ path # Velocity => Stored(path, value) = value
<1>1. CASE path = Velocity
  <2> DEFINE all == value ++ VelocityDefaults
  <2>1. DOMAIN all = DOMAIN value \cup DOMAIN VelocityDefaults
    BY DEF ++
  <2>2. all ++ VelocityDefaults =
          [x \in DOMAIN all \cup DOMAIN VelocityDefaults |->
             IF x \in DOMAIN all THEN all[x] ELSE VelocityDefaults[x]]
    BY DEF ++
  <2>3. all = [x \in DOMAIN all |-> all[x]]
    BY DEF ++
  <2> HIDE DEF all
  <2>4. all ++ VelocityDefaults = all
    <3>1. DOMAIN all \cup DOMAIN VelocityDefaults = DOMAIN all
      BY <2>1
    <3> QED BY <2>2, <2>3, <3>1
  <2>5. Stored(path, value) = all /\ Stored(path, all) = all ++ VelocityDefaults
    BY <1>1 DEF Stored, Velocity, all
  <2> QED BY <1>1, <2>4, <2>5
<1>2. CASE path # Velocity
  BY <1>2 DEF Stored, Velocity
<1> QED BY <1>1, <1>2

-----------------------------------------------------------------------------
\* What an operator edited and nothing else.  A document as the server stores it: complete, and of
\* values of the kinds of its inputs, ...
Documented(doc) ==
  /\ \A path \in Path : Stored(path, doc[path]) = doc[path]
  /\ \A path \in Inputs : IsValue(FieldKind[path], doc[path])

\* ... what is collected from an input that was not edited: the value of an empty one, or what gives
\* back the document that was sent, ...
Unedited(path, value, made) ==
  LET kind == FieldKind[path]
  IN  IF made.emptied THEN value = Collect(kind, Fresh(kind))
      ELSE Plain(kind, made.doc[path]) =>
             Plain(kind, value) /\ Meaning(kind, value) = Meaning(kind, made.doc[path])

\* ... a document that was collected from a form, ...
DrawnFrom(body, made) ==
  /\ \A path \in Path \ Inputs : body[path] = made.doc[path]
  /\ \A path \in Inputs : IsValue(FieldKind[path], body[path])
  /\ \A path \in Inputs \ made.edited : Unedited(path, body[path], made)

\* ... a form one can be collected from, ...
Formed(t, made) ==
  /\ \A path \in Path \ Inputs : t.doc[path] = made.doc[path]
  /\ \A path \in Inputs : IsContent(FieldKind[path], t.form[path])
  /\ \A path \in Inputs \ made.edited :
       Unedited(path, Collect(FieldKind[path], t.form[path]), made)

\* ... and a request that carries one, or a document that was stored.
Carried(request) ==
  /\ request.at = "sent" /\ request.kind = "save" =>
       /\ DOMAIN request.body = Path
       /\ Documented(request.made.doc) /\ DrawnFrom(request.body, request.made)
  /\ request.at = "answered" /\ request.reply # NoDoc => Documented(request.reply.doc)

StoredRows == Documented(row.doc) /\ \A p \in Process : Documented(live[p].doc)

Forms ==
  /\ DOMAIN tab = Console
  /\ \A c \in Console :
       /\ DOMAIN tab[c] = {"doc", "form"} /\ DOMAIN tab[c].form = Inputs
       /\ Documented(shown[c].doc) /\ Formed(tab[c], shown[c])

Carries == \A i \in DOMAIN wire : Carried(wire[i])

FormInv == ConfigInv /\ StoredRows /\ Forms /\ Carries /\ UneditedKept

\* The inputs of a form have the kinds that are given back or not, each by itself.
LEMMA UneditedStays ==
  ASSUME NEW path, NEW value, NEW made, IsValue(FieldKind[path], value), Unedited(path, value, made)
  PROVE  Unedited(path, Collect(FieldKind[path], Populate(FieldKind[path], value)), made)
<1> DEFINE kind == FieldKind[path]
           back == Collect(kind, Populate(kind, value))
<1>1. CASE made.emptied
  <2>1. value = Collect(kind, Fresh(kind))
    BY <1>1 DEF Unedited
  <2>2. back = value
    BY <2>1, FreshStays
  <2> QED BY <2>2
<1>2. CASE ~made.emptied
  <2>1. Plain(kind, made.doc[path]) =>
          Plain(kind, value) /\ Meaning(kind, value) = Meaning(kind, made.doc[path])
    BY <1>2 DEF Unedited
  <2>2. Plain(kind, value) => Plain(kind, back) /\ Meaning(kind, back) = Meaning(kind, value)
    BY GivesBack
  <2> HIDE DEF back, kind
  <2>3. Plain(kind, made.doc[path]) =>
          Plain(kind, back) /\ Meaning(kind, back) = Meaning(kind, made.doc[path])
    BY <2>1, <2>2
  <2> QED BY <1>2, <2>3 DEF Unedited, back, kind
<1> QED BY <1>1, <1>2

\* A document that was collected is shown again in a form of its own, ...
LEMMA ShownAgain ==
  ASSUME NEW body, NEW made, DrawnFrom(body, made)
  PROVE  Formed([doc |-> body, form |-> FillForm(body)], made)
<1> DEFINE t == [doc |-> body, form |-> FillForm(body)]
<1>1. t.doc = body /\ \A path \in Inputs : t.form[path] = Populate(FieldKind[path], body[path])
  BY DEF FillForm
<1> HIDE DEF t
<1>2. ASSUME NEW path \in Inputs  PROVE IsContent(FieldKind[path], t.form[path])
  BY <1>1, ShownIs DEF DrawnFrom
<1>3. ASSUME NEW path \in Inputs \ made.edited
      PROVE  Unedited(path, Collect(FieldKind[path], t.form[path]), made)
  <2>1. IsValue(FieldKind[path], body[path]) /\ Unedited(path, body[path], made)
    BY DEF DrawnFrom
  <2>2. Unedited(path, Collect(FieldKind[path], Populate(FieldKind[path], body[path])), made)
    BY <2>1, UneditedStays
  <2> QED BY <1>1, <2>2
<1>4. Formed(t, made)
  BY <1>1, <1>2, <1>3 DEF Formed, DrawnFrom
<1> QED BY <1>4 DEF t

\* ... so is one that was stored, ...
LEMMA StoredIsShown ==
  ASSUME NEW doc, Documented(doc), NEW version
  PROVE  Formed([doc |-> doc, form |-> FillForm(doc)],
                [doc |-> doc, version |-> version, edited |-> {}, emptied |-> FALSE])
<1> DEFINE made == [doc |-> doc, version |-> version, edited |-> {}, emptied |-> FALSE]
<1>1. made.doc = doc /\ ~made.emptied
  OBVIOUS
<1> HIDE DEF made
<1>2. DrawnFrom(doc, made)
  BY <1>1 DEF DrawnFrom, Documented, Unedited
<1>3. Formed([doc |-> doc, form |-> FillForm(doc)], made)
  BY <1>2, ShownAgain
<1> QED BY <1>3 DEF made

\* ... and a form is collected into a document, if it can be.
LEMMA CollectedFrom ==
  ASSUME NEW t, NEW made, Formed(t, made), CanCollect(t)
  PROVE  DOMAIN CollectForm(t) = Path /\ DrawnFrom(CollectForm(t), made)
<1> DEFINE body == CollectForm(t)
<1>1. /\ DOMAIN body = Path
      /\ \A path \in Inputs : body[path] = Collect(FieldKind[path], t.form[path])
      /\ \A path \in Path \ Inputs : body[path] = t.doc[path]
  BY DEF CollectForm, Inputs
<1> HIDE DEF body
<1>2. ASSUME NEW path \in Inputs  PROVE IsValue(FieldKind[path], body[path])
  BY <1>1, Collected DEF Formed, CanCollect
<1>3. DrawnFrom(body, made)
  BY <1>1, <1>2 DEF DrawnFrom, Formed
<1> QED BY <1>1, <1>3 DEF body

\* What the server stores is stored.
LEMMA Normalizes ==
  ASSUME NEW doc, \A path \in Inputs : IsValue(FieldKind[path], doc[path])
  PROVE  /\ Documented(Normalized(doc))
         /\ \A path \in Path : Normalized(doc)[path] = Stored(path, doc[path])
<1>1. \A path \in Path : Normalized(doc)[path] = Stored(path, doc[path])
  BY DEF Normalized
<1>2. \A path \in Path : Stored(path, Normalized(doc)[path]) = Normalized(doc)[path]
  BY <1>1, StoredTwice
<1>3. ASSUME NEW path \in Inputs  PROVE IsValue(FieldKind[path], Normalized(doc)[path])
  <2>1. path \in Path
    BY DEF Inputs
  <2>2. CASE path = Velocity
    <3>1. doc[path] \in Json
      BY <2>2, Kinded DEF IsValue
    <3>2. Stored(path, doc[path]) \in Json
      BY <2>2, <3>1, FormAssumption DEF Velocity
    <3> QED BY <1>1, <2>1, <2>2, <3>2, Kinded DEF IsValue
  <2>3. CASE path # Velocity
    BY <1>1, <2>1, <2>3, StoredTwice
  <2> QED BY <2>2, <2>3
<1> QED BY <1>1, <1>2, <1>3 DEF Documented

\* A save that is accepted: nothing changed but what was edited, or the form was emptied and every
\* mandatory input has been filled in again.
LEMMA AcceptedKeeps ==
  ASSUME NEW body, NEW made, DOMAIN body = Path, Documented(made.doc), DrawnFrom(body, made),
         AcceptsDocument(body)
  PROVE  \/ \A path \in Path \ made.edited :
              IF path \in Inputs /\ ~made.emptied
              THEN Plain(FieldKind[path], made.doc[path]) =>
                     Meaning(FieldKind[path], Normalized(body)[path]) =
                       Meaning(FieldKind[path], made.doc[path])
              ELSE Normalized(body)[path] = made.doc[path]
         \/ made.emptied /\ Mandatory \subseteq made.edited
<1>1. \A path \in Path : Normalized(body)[path] = Stored(path, body[path])
  BY Normalizes DEF DrawnFrom
<1>2. CASE made.emptied
  <2> SUFFICES ASSUME NEW path \in Mandatory, path \notin made.edited  PROVE FALSE
    BY <1>2
  <2>1. path \in Inputs /\ path \in Path
    BY DEF Mandatory, Inputs
  <2>2. body[path] = Collect(FieldKind[path], Fresh(FieldKind[path]))
    BY <1>2, <2>1 DEF DrawnFrom, Unedited
  <2>3. CASE ~Accepts(path, Collect(FieldKind[path], Fresh(FieldKind[path])))
    BY <2>1, <2>2, <2>3 DEF AcceptsDocument
  <2>4. CASE path \in {Thresholds[2], Thresholds[3]}
    <3>1. PICK j \in {2, 3} : path = Thresholds[j]
      BY <2>4
    <3>2. FieldKind[path] = "number"
      BY <3>1, Kinded
    <3>3. body[path] = 0
      BY <2>2, <3>2, FreshIs
    <3>4. /\ Thresholds[j - 1] \in Path /\ Thresholds[j - 1] \in FormPaths
          /\ FieldKind[Thresholds[j - 1]] = "number"
      <4>1. j - 1 \in 1..3 /\ DOMAIN Thresholds = 1..3
        BY DEF Thresholds
      <4> QED BY <4>1, Kinded, ConfigAssumption DEF ToSet
    <3>5. body[Thresholds[j - 1]] \in Nat
      BY <3>4 DEF DrawnFrom, IsValue, Inputs
    <3>6. body[Thresholds[j - 1]] < body[Thresholds[j]]
      <4>1. j - 1 \in 1..3 /\ j \in 1..3 /\ j - 1 < j
        OBVIOUS
      <4>2. {Thresholds[j - 1], Thresholds[j]} \subseteq DOMAIN body
        BY <2>1, <3>1, <3>4
      <4> QED BY <4>1, <4>2 DEF AcceptsDocument
    <3> QED BY <3>1, <3>3, <3>5, <3>6
  <2> QED BY <2>3, <2>4 DEF Mandatory
<1>3. CASE ~made.emptied
  <2>1. ASSUME NEW path \in Path \ made.edited, path \in Inputs,
               Plain(FieldKind[path], made.doc[path])
        PROVE  Meaning(FieldKind[path], Normalized(body)[path]) =
                 Meaning(FieldKind[path], made.doc[path])
    <3>1. Meaning(FieldKind[path], body[path]) = Meaning(FieldKind[path], made.doc[path])
      BY <1>3, <2>1 DEF DrawnFrom, Unedited
    <3>2. CASE path = Velocity
      <4>1. body[path] = made.doc[path]
        BY <3>1, <3>2, Kinded DEF Meaning
      <4>2. Stored(path, made.doc[path]) = made.doc[path]
        BY DEF Documented
      <4> QED BY <1>1, <4>1, <4>2
    <3>3. CASE path # Velocity
      BY <1>1, <3>1, <3>3, StoredTwice
    <3> QED BY <3>2, <3>3
  <2>2. ASSUME NEW path \in Path, path \notin Inputs
        PROVE  Normalized(body)[path] = made.doc[path]
    BY <1>1, <2>2 DEF DrawnFrom, Documented
  <2> QED BY <1>3, <2>1, <2>2
<1> QED BY <1>2, <1>3

-----------------------------------------------------------------------------
\* At the start, every form shows the stored document.
LEMMA FormStarts == ConfigInit => FormInv
<1> SUFFICES ASSUME ConfigInit  PROVE FormInv
  OBVIOUS
<1>1. ConfigInv
  BY ConfigStarts
<1>2. Documented(InitialDoc)
  BY ConfigAssumption DEF Documented, Inputs
<1>3. StoredRows
  BY <1>2 DEF ConfigInit, StoredRows
<1>4. Forms
  <2>1. Formed([doc |-> InitialDoc, form |-> FillForm(InitialDoc)],
               [doc |-> InitialDoc, version |-> 0, edited |-> {}, emptied |-> FALSE])
    BY <1>2, StoredIsShown
  <2>2. DOMAIN FillForm(InitialDoc) = Inputs
    BY DEF FillForm
  <2>3. ASSUME NEW c \in Console
        PROVE  /\ DOMAIN tab[c] = {"doc", "form"} /\ DOMAIN tab[c].form = Inputs
               /\ Documented(shown[c].doc) /\ Formed(tab[c], shown[c])
    <3>1. /\ tab[c] = [doc |-> InitialDoc, form |-> FillForm(InitialDoc)]
          /\ shown[c] = [doc |-> InitialDoc, version |-> 0, edited |-> {}, emptied |-> FALSE]
      BY DEF ConfigInit
    <3>2. /\ DOMAIN tab[c] = {"doc", "form"} /\ tab[c].form = FillForm(InitialDoc)
          /\ shown[c].doc = InitialDoc
      BY <3>1
    <3> QED BY <1>2, <2>1, <2>2, <3>1, <3>2, Zenon
  <2>4. DOMAIN tab = Console
    BY DEF ConfigInit
  <2> QED BY <2>3, <2>4 DEF Forms
<1>5. Carries
  BY DEF ConfigInit, Carries
<1>6. UneditedKept
  BY DEF ConfigInit, UneditedKept
<1> QED BY <1>1, <1>3, <1>4, <1>5, <1>6 DEF FormInv

\* An answer that carries a stored document, or none.
LEMMA AnswerCarries ==
  ASSUME Wire, Carries, NEW i \in DOMAIN wire, NEW reply, Answer(i, reply), UnderWay(wire[i]),
         reply # NoDoc => Documented(reply.doc)
  PROVE  Carries'
<1>1. /\ DOMAIN wire' = DOMAIN wire
      /\ wire'[i].at = "answered" /\ wire'[i].reply = reply
      /\ \A j \in DOMAIN wire : j # i => wire'[j] = wire[j]
  BY AnswerIs
<1>2. ASSUME NEW j \in DOMAIN wire  PROVE Carried(wire'[j])
  <2>1. CASE j = i
    BY <1>1, <2>1 DEF Carried
  <2>2. CASE j # i
    BY <1>1, <2>2 DEF Carries
  <2> QED BY <2>1, <2>2
<1> QED BY <1>1, <1>2 DEF Carries

\* An update stores a complete document and hands it to its process.
LEMMA UpdateKeepsRows ==
  ASSUME StoredRows, DOMAIN live = Process, NEW p \in Process, NEW doc, Update(p, doc),
         \A path \in Inputs : IsValue(FieldKind[path], doc[path])
  PROVE  StoredRows' /\ Documented(row'.doc) /\ row'.doc = Normalized(doc)
<1>1. row'.doc = Normalized(doc) /\ live' = [live EXCEPT ![p] = row']
  BY DEF Update
<1>2. Documented(row'.doc)
  BY <1>1, Normalizes
<1>3. \A q \in Process : live'[q] = row' \/ live'[q] = live[q]
  BY <1>1
<1>4. StoredRows'
  BY <1>2, <1>3 DEF StoredRows
<1> QED BY <1>1, <1>2, <1>4

\* The parts that an action leaves alone.
LEMMA FormsKept == Forms /\ UNCHANGED <<tab, shown>> => Forms'
  BY DEF Forms
LEMMA RowsKept == StoredRows /\ UNCHANGED <<row, live>> => StoredRows'
  BY DEF StoredRows
LEMMA CarriesKept == Carries /\ UNCHANGED wire => Carries'
  BY DEF Carries
LEMMA SavedKept == UneditedKept /\ UNCHANGED saved => UneditedKept'
  BY DEF UneditedKept

FormParts == StoredRows /\ Forms /\ Carries /\ UneditedKept

\* What a process answers was stored; what it stores was collected from a form.
LEMMA ServerKeepsForms ==
  ASSUME ConfigInv, FormParts, NEW i \in DOMAIN wire, NEW p \in Process,
         ServeLoad(i, p) \/ ServeSave(i, p) \/ ServeReset(i, p)
  PROVE  FormParts'
<1>1. Wire /\ DOMAIN live = Process /\ StoredRows /\ Forms /\ Carries /\ UneditedKept
  BY DEF ConfigInv, Versions, FormParts
<1>2. CASE ServeLoad(i, p)
  <2>1. UnderWay(wire[i]) /\ Answer(i, live[p]) /\ UNCHANGED <<row, live, tab, shown, saved>>
    BY <1>2 DEF ServeLoad, UnderWay
  <2>2. Documented(live[p].doc)
    BY <1>1 DEF StoredRows
  <2>3. Carries'
    BY <1>1, <2>1, <2>2, AnswerCarries
  <2> QED BY <1>1, <2>1, <2>3, RowsKept, FormsKept, SavedKept DEF FormParts
<1>3. CASE ServeSave(i, p)
  <2> DEFINE body == wire[i].body
             made == wire[i].made
  <2>1. /\ wire[i].at = "sent" /\ wire[i].kind = "save" /\ UnderWay(wire[i])
        /\ AcceptsDocument(body) /\ Update(p, body) /\ Answer(i, row')
        /\ saved' = [doc |-> row'.doc, from |-> made] /\ UNCHANGED <<tab, shown>>
    BY <1>3 DEF ServeSave, UnderWay
  <2>2. DOMAIN body = Path /\ Documented(made.doc) /\ DrawnFrom(body, made)
    BY <1>1, <2>1 DEF Carries, Carried
  <2>3. \A path \in Inputs : IsValue(FieldKind[path], body[path])
    BY <2>2 DEF DrawnFrom
  <2> HIDE DEF body, made
  <2>4. StoredRows' /\ Documented(row'.doc) /\ row'.doc = Normalized(body)
    BY <1>1, <2>1, <2>3, UpdateKeepsRows
  <2>5. Carries'
    BY <1>1, <2>1, <2>4, AnswerCarries
  <2>6. saved'.doc = Normalized(body) /\ saved'.from = made
    BY <2>1, <2>4
  <2>7. \/ \A path \in Path \ made.edited :
             IF path \in Inputs /\ ~made.emptied
             THEN Plain(FieldKind[path], made.doc[path]) =>
                    Meaning(FieldKind[path], Normalized(body)[path]) =
                      Meaning(FieldKind[path], made.doc[path])
             ELSE Normalized(body)[path] = made.doc[path]
        \/ made.emptied /\ Mandatory \subseteq made.edited
    BY <2>1, <2>2, AcceptedKeeps
  <2>8. UneditedKept'
    BY <2>6, <2>7 DEF UneditedKept
  <2> QED BY <1>1, <2>1, <2>4, <2>5, <2>8, FormsKept DEF FormParts
<1>4. CASE ServeReset(i, p)
  <2>1. /\ UnderWay(wire[i]) /\ Update(p, FactoryDoc) /\ Answer(i, row')
        /\ UNCHANGED <<tab, shown, saved>>
    BY <1>4 DEF ServeReset, UnderWay
  <2>2. \A path \in Inputs : IsValue(FieldKind[path], FactoryDoc[path])
    BY ConfigAssumption DEF Inputs
  <2>3. StoredRows' /\ Documented(row'.doc)
    BY <1>1, <2>1, <2>2, UpdateKeepsRows
  <2>4. Carries'
    BY <1>1, <2>1, <2>3, AnswerCarries
  <2> QED BY <1>1, <2>1, <2>3, <2>4, FormsKept, SavedKept DEF FormParts
<1> QED BY <1>2, <1>3, <1>4

\* A refusal and a failure carry nothing.
LEMMA RefusalKeepsForms ==
  ASSUME ConfigInv, FormParts, NEW i \in DOMAIN wire, RefuseSave(i) \/ FailRequest(i)
  PROVE  FormParts'
<1>1. UnderWay(wire[i]) /\ Answer(i, NoDoc) /\ UNCHANGED <<row, live, tab, shown, saved>>
  BY DEF RefuseSave, FailRequest, UnderWay
<1>2. Carries'
  BY <1>1, AnswerCarries DEF ConfigInv, FormParts
<1> QED BY <1>1, <1>2, RowsKept, FormsKept, SavedKept DEF FormParts

\* A process that starts reads the row.
LEMMA StartKeepsForms ==
  ASSUME ConfigInv, FormParts, NEW p \in Process, StartProcess(p)
  PROVE  FormParts'
<1>1. live' = [live EXCEPT ![p] = row] /\ UNCHANGED <<row, tab, wire, shown, saved>>
  BY DEF StartProcess
<1>2. \A q \in Process : live'[q] = row \/ live'[q] = live[q]
  BY <1>1 DEF ConfigInv, Versions
<1>3. StoredRows'
  BY <1>1, <1>2 DEF FormParts, StoredRows
<1> QED BY <1>1, <1>3, FormsKept, CarriesKept, SavedKept DEF FormParts

\* The operator types into an input, which is an edit.
LEMMA TypeKeepsForms ==
  ASSUME ConfigInv, FormParts, NEW c \in Console, NEW path \in Inputs, Type(c, path)
  PROVE  FormParts'
<1>1. PICK content \in Typable[path] : tab' = [tab EXCEPT ![c].form[path] = content]
  BY DEF Type
<1>2. /\ shown' = [shown EXCEPT ![c].edited = @ \cup {path}]
      /\ UNCHANGED <<row, live, wire, saved>>
  BY DEF Type
<1>3. /\ DOMAIN shown = Console /\ DOMAIN tab = Console
      /\ DOMAIN shown[c] = {"doc", "version", "edited", "emptied"}
      /\ DOMAIN tab[c] = {"doc", "form"} /\ DOMAIN tab[c].form = Inputs
      /\ Documented(shown[c].doc) /\ Formed(tab[c], shown[c])
  BY DEF ConfigInv, Versions, FormParts, Forms
<1>4. IsContent(FieldKind[path], content)
  BY ConfigAssumption DEF Inputs
<1>5. /\ DOMAIN tab' = Console
      /\ \A d \in Console : d # c => tab'[d] = tab[d] /\ shown'[d] = shown[d]
      /\ DOMAIN tab'[c] = {"doc", "form"} /\ DOMAIN tab'[c].form = Inputs
      /\ tab'[c].doc = tab[c].doc /\ tab'[c].form[path] = content
      /\ \A other \in Inputs : other # path => tab'[c].form[other] = tab[c].form[other]
      /\ shown'[c].doc = shown[c].doc /\ shown'[c].emptied = shown[c].emptied
      /\ shown'[c].edited = shown[c].edited \cup {path}
  BY <1>1, <1>2, <1>3
<1>6. Formed(tab'[c], shown'[c])
  BY <1>3, <1>4, <1>5 DEF Formed, Unedited
<1>7. Forms'
  BY <1>3, <1>5, <1>6 DEF FormParts, Forms
<1> QED BY <1>2, <1>7, RowsKept, CarriesKept, SavedKept DEF FormParts

\* A request that is sent carries what was collected from the form of its console.
LEMMA SentKeepsForms ==
  ASSUME ConfigInv, FormParts, NEW c \in Console, NEW kind, NEW body, Send(c, kind, body),
         kind = "save" => DrawnFrom(body, shown[c]) /\ DOMAIN body = Path
  PROVE  FormParts'
<1> DEFINE request == [from |-> c, kind |-> kind, body |-> body, made |-> shown[c],
                       at |-> "sent", reply |-> NoDoc]
<1>1. wire' = Append(wire, request) /\ UNCHANGED <<row, live, tab, shown, saved>>
  BY DEF Send
<1>2. Documented(shown[c].doc)
  BY DEF FormParts, Forms
<1>3. /\ request.at = "sent" /\ request.kind = kind /\ request.body = body
      /\ request.made = shown[c]
  OBVIOUS
<1> HIDE DEF request
<1>4. Carried(request)
  BY <1>2, <1>3 DEF Carried
<1>5. /\ DOMAIN wire' = 1..(Len(wire) + 1) /\ DOMAIN wire = 1..Len(wire) /\ Len(wire) \in Nat
      /\ wire'[Len(wire) + 1] = request /\ \A j \in DOMAIN wire : wire'[j] = wire[j]
  <2>1. PICK S : wire \in Seq(S)
    BY DEF ConfigInv, Wire
  <2>2. wire \in Seq(S \cup {request})
    BY <2>1
  <2> QED BY <1>1, <2>2
<1>6. Carries'
  BY <1>4, <1>5 DEF FormParts, Carries
<1> QED BY <1>1, <1>6, RowsKept, FormsKept, SavedKept DEF FormParts

\* The three buttons: only a save carries a document, the one it collects.
LEMMA SendKeepsForms ==
  ASSUME ConfigInv, FormParts, NEW c \in Console, Reload(c) \/ Save(c) \/ Reset(c)
  PROVE  FormParts'
<1>1. CASE Reload(c)
  <2>1. Send(c, "load", NoDoc) /\ "load" # "save"
    BY <1>1 DEF Reload
  <2> QED BY <2>1, SentKeepsForms
<1>2. CASE Save(c)
  <2>1. CanCollect(tab[c]) /\ Send(c, "save", CollectForm(tab[c]))
    BY <1>2 DEF Save
  <2>2. Documented(shown[c].doc) /\ Formed(tab[c], shown[c])
    BY DEF FormParts, Forms
  <2>3. DOMAIN CollectForm(tab[c]) = Path /\ DrawnFrom(CollectForm(tab[c]), shown[c])
    BY <2>1, <2>2, CollectedFrom
  <2> QED BY <2>1, <2>3, SentKeepsForms
<1>3. CASE Reset(c)
  <2>1. Send(c, "reset", NoDoc) /\ "reset" # "save"
    BY <1>3 DEF Reset
  <2> QED BY <2>1, SentKeepsForms
<1> QED BY <1>1, <1>2, <1>3

\* An answer is shown as it is.
LEMMA ReceiveKeepsForms ==
  ASSUME ConfigInv, FormParts, NEW i \in DOMAIN wire, Receive(i)
  PROVE  FormParts'
<1> DEFINE c == wire[i].from
           doc == wire[i].reply.doc
           given == [doc |-> doc, version |-> wire[i].reply.version,
                    edited |-> {}, emptied |-> FALSE]
           t == [doc |-> doc, form |-> FillForm(doc)]
<1>1. /\ wire[i].at = "answered" /\ wire' = [wire EXCEPT ![i] = Settled]
      /\ UNCHANGED <<row, live, saved>>
      /\ wire[i].reply = NoDoc => UNCHANGED <<tab, shown>>
      /\ wire[i].reply # NoDoc => tab' = [tab EXCEPT ![c] = t]
      /\ wire[i].reply # NoDoc => shown' = [shown EXCEPT ![c] = given]
  BY DEF Receive
<1>2. /\ Wire /\ Asked(wire[i]) /\ Carried(wire[i]) /\ DOMAIN shown = Console
      /\ DOMAIN tab = Console
  BY DEF ConfigInv, Wire, Versions, FormParts, Carries, Forms
<1>3. c \in Console
  BY <1>1, <1>2 DEF Asked
<1>4. /\ DOMAIN wire' = DOMAIN wire /\ wire'[i] = Settled
      /\ \A j \in DOMAIN wire : j # i => wire'[j] = wire[j]
  BY <1>1, <1>2, WirePut
<1>5. Carries'
  <2>1. Settled.at = "settled"
    BY DEF Settled
  <2>2. Carried(Settled)
    BY <2>1 DEF Carried
  <2> QED BY <1>4, <2>2 DEF FormParts, Carries
<1>6. CASE wire[i].reply = NoDoc
  BY <1>1, <1>5, <1>6, RowsKept, FormsKept, SavedKept DEF FormParts
<1>7. CASE wire[i].reply # NoDoc
  <2>1. Documented(doc)
    BY <1>1, <1>2, <1>7 DEF Carried
  <2>2. Formed(t, given)
    BY <2>1, StoredIsShown
  <2>3. DOMAIN t = {"doc", "form"} /\ DOMAIN t.form = Inputs /\ given.doc = doc
    BY DEF FillForm
  <2> HIDE DEF t, given
  <2>4. /\ DOMAIN tab' = Console /\ tab'[c] = t /\ shown'[c] = given
        /\ \A d \in Console : d # c => tab'[d] = tab[d] /\ shown'[d] = shown[d]
    BY <1>1, <1>2, <1>3, <1>7
  <2>5. Forms'
    BY <2>1, <2>2, <2>3, <2>4 DEF FormParts, Forms
  <2> QED BY <1>1, <1>5, <2>5, RowsKept, SavedKept DEF FormParts
<1> QED BY <1>6, <1>7

\* A change of language shows what could be collected, or empties the form.
LEMMA LanguageKeepsForms ==
  ASSUME ConfigInv, FormParts, NEW c \in Console, ChangeLanguage(c)
  PROVE  FormParts'
<1>1. UNCHANGED <<row, live, wire, saved>>
  BY DEF ChangeLanguage
<1>2. /\ DOMAIN shown = Console /\ DOMAIN tab = Console
      /\ DOMAIN shown[c] = {"doc", "version", "edited", "emptied"}
      /\ DOMAIN tab[c] = {"doc", "form"} /\ DOMAIN tab[c].form = Inputs
      /\ Documented(shown[c].doc) /\ Formed(tab[c], shown[c])
  BY DEF ConfigInv, Versions, FormParts, Forms
<1>3. CASE CanCollect(tab[c])
  <2> DEFINE body == CollectForm(tab[c])
             t == [doc |-> body, form |-> FillForm(body)]
  <2>1. tab' = [tab EXCEPT ![c] = t] /\ UNCHANGED shown
    BY <1>3 DEF ChangeLanguage
  <2>2. DrawnFrom(body, shown[c])
    BY <1>2, <1>3, CollectedFrom
  <2>3. Formed(t, shown[c])
    BY <2>2, ShownAgain
  <2>4. DOMAIN t = {"doc", "form"} /\ DOMAIN t.form = Inputs
    BY DEF FillForm
  <2> HIDE DEF t
  <2>5. DOMAIN tab' = Console /\ tab'[c] = t /\ \A d \in Console : d # c => tab'[d] = tab[d]
    BY <1>2, <2>1
  <2>6. Forms'
    BY <1>2, <2>1, <2>3, <2>4, <2>5 DEF FormParts, Forms
  <2> QED BY <1>1, <2>6, RowsKept, CarriesKept, SavedKept DEF FormParts
<1>4. CASE ~CanCollect(tab[c])
  <2>1. /\ tab' = [tab EXCEPT ![c].form = EmptyForm]
        /\ shown' = [shown EXCEPT ![c].edited = {}, ![c].emptied = TRUE]
    BY <1>4 DEF ChangeLanguage
  <2>2. /\ DOMAIN tab' = Console
        /\ \A d \in Console : d # c => tab'[d] = tab[d] /\ shown'[d] = shown[d]
        /\ DOMAIN tab'[c] = {"doc", "form"} /\ tab'[c].form = EmptyForm
        /\ tab'[c].doc = tab[c].doc /\ shown'[c].doc = shown[c].doc
        /\ shown'[c].edited = {} /\ shown'[c].emptied
    BY <1>2, <2>1
  <2>3. /\ DOMAIN EmptyForm = Inputs
        /\ \A path \in Inputs : EmptyForm[path] = Fresh(FieldKind[path])
    BY DEF EmptyForm
  <2>4. Formed(tab'[c], shown'[c])
    BY <1>2, <2>2, <2>3, FreshIs DEF Formed, Unedited
  <2>5. Forms'
    BY <1>2, <2>2, <2>3, <2>4 DEF FormParts, Forms
  <2> QED BY <1>1, <2>5, RowsKept, CarriesKept, SavedKept DEF FormParts
<1> QED BY <1>3, <1>4

LEMMA FormStepKeeps == FormInv /\ [ConfigNext]_configVars => FormInv'
<1> SUFFICES ASSUME FormInv, [ConfigNext]_configVars  PROVE FormInv'
  OBVIOUS
<1>1. ConfigInv /\ FormParts
  BY DEF FormInv, FormParts
<1>2. ConfigInv'
  BY <1>1, ConfigStepKeeps
<1>3. FormParts'
  <2>1. ASSUME NEW p \in Process, StartProcess(p)  PROVE FormParts'
    BY <1>1, <2>1, StartKeepsForms
  <2>2. ASSUME NEW i \in DOMAIN wire, NEW p \in Process,
               ServeLoad(i, p) \/ ServeSave(i, p) \/ ServeReset(i, p)
        PROVE  FormParts'
    BY <1>1, <2>2, ServerKeepsForms
  <2>3. ASSUME NEW i \in DOMAIN wire, RefuseSave(i) \/ FailRequest(i)  PROVE FormParts'
    BY <1>1, <2>3, RefusalKeepsForms
  <2>4. ASSUME NEW i \in DOMAIN wire, Receive(i)  PROVE FormParts'
    BY <1>1, <2>4, ReceiveKeepsForms
  <2>5. ASSUME NEW c \in Console, NEW path \in Inputs, Type(c, path)  PROVE FormParts'
    BY <1>1, <2>5, TypeKeepsForms
  <2>6. ASSUME NEW c \in Console, Reload(c) \/ Save(c) \/ Reset(c)  PROVE FormParts'
    BY <1>1, <2>6, SendKeepsForms
  <2>7. ASSUME NEW c \in Console, ChangeLanguage(c)  PROVE FormParts'
    BY <1>1, <2>7, LanguageKeepsForms
  <2>8. CASE UNCHANGED configVars
    <3>1. UNCHANGED <<row, live, tab, wire, shown, saved>>
      BY <2>8 DEF configVars
    <3> QED BY <1>1, <3>1, RowsKept, FormsKept, CarriesKept, SavedKept DEF FormParts
  <2> QED BY <2>1, <2>2, <2>3, <2>4, <2>5, <2>6, <2>7, <2>8 DEF ConfigNext
<1> QED BY <1>2, <1>3 DEF FormInv, FormParts

\* A save changes what its operator edited and nothing else (collectForm, and the update of the
\* store), whatever was typed, stored, answered and shown in another language in between; for any
\* number of consoles and processes, any documents, and any contents of the kinds of the inputs.
THEOREM OnlyEditsSaved == ConfigSpec => []UneditedKept
<1>1. FormInv => UneditedKept
  BY DEF FormInv
<1> QED BY <1>1, FormStarts, FormStepKeeps, PTL DEF ConfigSpec

-----------------------------------------------------------------------------
\* Showing a value of the stored configuration in its input and saving it means what it meant to the
\* engines (populateForm, collectForm), for every field of the form and every value of its kind; but
\* for a list in a single line, and entries with a comma or none.
THEOREM LoadedIsSaved ==
  ASSUME NEW path \in FormPaths, NEW value, IsValue(FieldKind[path], value),
         Plain(FieldKind[path], value)
  PROVE  Meaning(FieldKind[path], Passed(path, value)) = Meaning(FieldKind[path], value)
BY GivesBack DEF Passed

\* Whatever is typed, saving once more what was saved and stored saves the same (collectForm,
\* populateForm, the validators of the store), but for a list in a single line.
THEOREM SavedTwiceIsSavedOnce ==
  ASSUME NEW path \in FormPaths, NEW content, IsContent(FieldKind[path], content),
         Collectable(FieldKind[path], content)
  PROVE  LET once == Stored(path, Collect(FieldKind[path], content))
         IN  (FieldKind[path] = "line" => Len(once) < 2) => Stored(path, Passed(path, once)) = once
<1> DEFINE kind == FieldKind[path]
           taken == Collect(kind, content)
           once == Stored(path, taken)
<1> SUFFICES ASSUME kind = "line" => Len(once) < 2  PROVE Stored(path, Passed(path, once)) = once
  OBVIOUS
<1>1. IsValue(kind, taken)
  BY Collected
<1>2. Stored(path, once) = once /\ (path # Velocity => once = taken)
  BY StoredTwice
<1>3. kind # "json" => path # Velocity
  BY Kinded
<1> SUFFICES Collect(kind, Populate(kind, once)) = once
  BY <1>2 DEF Passed
<1>4. CASE kind \in {"line", "lines"}
  <2>1. once = TextToList(content) /\ IsText(content)
    BY <1>2, <1>3, <1>4 DEF Collect, IsContent
  <2>2. IsText(once) /\ \A i \in DOMAIN once : Len(once[i]) = 1 /\ once[i][1] # <<>>
    BY <2>1, WordsListed
  <2> HIDE DEF once
  <2>3. kind = "line" => Len(once) <= 1
    BY <2>2 DEF IsText, IsSequence
  <2>4. Populate(kind, once) = once
    BY <1>4, <2>2, <2>3, SingleLineIs DEF Populate, ListToText
  <2>5. Collect(kind, once) = TextToList(once)
    BY <1>4 DEF Collect
  <2> QED BY <2>2, <2>4, <2>5, ListKept
<1>5. CASE kind \in {"countries", "csv"}
  <2>1. once = FormatCountries(content) /\ content \subseteq Nat /\ IsFiniteSet(content)
    BY <1>2, <1>3, <1>5 DEF Collect, IsContent
  <2>2. ParseCountries(once) = content
    BY <2>1, CodesKept
  <2> HIDE DEF once
  <2>3. Collect(kind, Populate(kind, once)) = FormatCountries(content)
    BY <1>5, <2>2 DEF Collect, Populate
  <2> QED BY <2>1, <2>3 DEF once
<1>6. CASE Direct(kind)
  <2>1. IsValue(kind, once)
    <3>1. CASE path = Velocity
      <4>1. taken \in Json
        BY <1>1, <3>1, Kinded DEF IsValue
      <4>2. once \in Json
        BY <3>1, <4>1, FormAssumption DEF Velocity
      <4> HIDE DEF once
      <4> QED BY <3>1, <4>2, Kinded DEF IsValue
    <3>2. CASE path # Velocity
      BY <1>1, <1>2, <3>2
    <3> QED BY <3>1, <3>2
  <2> HIDE DEF once
  <2> QED BY <1>6, <2>1, DirectKept
<1> QED BY <1>4, <1>5, <1>6 DEF Direct

-----------------------------------------------------------------------------
\* The one field that is edited in a single line.
RequiredChannels == <<"fingerprint", "required_channels">>

NoLine(table) == \A path \in DOMAIN table : table[path] # "line"

LEMMA TablesNoLine ==
  /\ \A kind, paths : kind # "line" => NoLine(All(kind, paths))
  /\ \A f, g : NoLine(f) /\ NoLine(g) => NoLine(f ++ g)
  BY DEF NoLine, All, ++

LEMMA OtherTabs ==
  ASSUME NEW section \in TabIds, section # "fingerprint"
  PROVE  NoLine(FieldsOf(section))
<1>1. section \in {"dashboard", "decision", "operator", "ip_intel", "aml", "withdrawal_method",
              "betting_patterns", "hedge_betting", "step_up", "lists", "velocity",
              "features", "logs"}
  BY DEF TabIds, Sections
<1>2. \A paths : /\ NoLine(All("number", paths)) /\ NoLine(All("checkbox", paths))
                 /\ NoLine(All("word", paths)) /\ NoLine(All("lines", paths))
                 /\ NoLine(All("json", paths)) /\ NoLine(All("countries", paths))
                 /\ NoLine(All("csv", paths))
  BY TablesNoLine
<1>3. \A f, g : NoLine(f) /\ NoLine(g) => NoLine(f ++ g)
  BY TablesNoLine
<1>4. /\ NoLine(DashboardFields) /\ NoLine(DecisionFields) /\ NoLine(OperatorFields)
      /\ NoLine(IpIntelFields) /\ NoLine(AmlFields) /\ NoLine(WithdrawalMethodFields)
      /\ NoLine(BettingPatternFields) /\ NoLine(ListFields) /\ NoLine(VelocityFields)
      /\ NoLine(LoggingFields)
  BY <1>2, <1>3, Zenon DEF DashboardFields, DecisionFields, OperatorFields, IpIntelFields, AmlFields,
     WithdrawalMethodFields, BettingPatternFields, ListFields, VelocityFields, LoggingFields
<1>5. NoLine(HedgeBettingFields)
  BY <1>2, <1>3, Zenon DEF HedgeBettingFields
<1>6. NoLine(StepUpFields)
  BY <1>2, <1>3, Zenon DEF StepUpFields
<1>7. NoLine(FeatureFields)
  BY <1>2, <1>3, Zenon DEF FeatureFields
<1>8. NoLine(BlocklistFields)
  BY <1>2, <1>3, Zenon DEF BlocklistFields
<1>9. NoLine(AmlFields ++ BlocklistFields)
  BY <1>3, <1>4, <1>8, Zenon
<1> QED BY <1>1, <1>4, <1>5, <1>6, <1>7, <1>9 DEF FieldsOf

LEMMA OneLine ==
  ASSUME NEW path \in FormPaths, FieldKind[path] = "line"
  PROVE  path = RequiredChannels
<1> DEFINE section == CHOOSE other \in TabIds : path \in DOMAIN FieldsOf(other)
<1>1. section \in TabIds /\ path \in DOMAIN FieldsOf(section)
  BY DEF FormPaths
<1>2. FieldKind[path] = FieldsOf(section)[path]
  BY DEF FieldKind
<1> HIDE DEF section
<1>3. section = "fingerprint"
  BY <1>1, <1>2, OtherTabs DEF NoLine
<1>4. FieldsOf("fingerprint") = FingerprintFields
  BY DEF FieldsOf
<1>5. \A f, g : /\ path \in DOMAIN (f ++ g) /\ (f ++ g)[path] = "line" /\ NoLine(g)
                => path \in DOMAIN f /\ f[path] = "line"
  BY DEF NoLine, ++
<1>6. \A one : path \in DOMAIN All("line", {one}) => path = one
  BY DEF All
<1>7. FingerprintFields[path] = "line" /\ path \in DOMAIN FingerprintFields
  BY <1>1, <1>2, <1>3, <1>4
<1>8. path \in DOMAIN All("line", {<<"fingerprint", "required_channels">>})
  <2> DEFINE a == All("line", {<<"fingerprint", "required_channels">>})
             b == All("number", Under(<<"fingerprint">>, {"min_length", "max_length"}))
             c == All("lines", {<<"fingerprint", "suspicious_values">>})
  <2>1. FingerprintFields = a ++ b ++ c
    BY DEF FingerprintFields
  <2>2. NoLine(b) /\ NoLine(c)
    BY TablesNoLine
  <2> HIDE DEF a, b, c
  <2>3. path \in DOMAIN (a ++ b) /\ (a ++ b)[path] = "line"
    BY <1>5, <1>7, <2>1, <2>2
  <2> QED BY <1>5, <2>2, <2>3 DEF a
<1> QED BY <1>6, <1>8 DEF RequiredChannels

\* The schema wants no number of it, and takes any list.
LEMMA AnyLineAccepted ==
  ASSUME NEW path \in FormPaths, FieldKind[path] = "line", NEW value
  PROVE  Accepts(path, value)
<1>1. path = RequiredChannels
  BY OneLine
<1>2. RequiredChannels[1] = "fingerprint" /\ RequiredChannels[2] = "required_channels"
  BY DEF RequiredChannels
<1>3. RequiredChannels # <<"hedge_betting", "opposite_selection_groups">>
  BY <1>2
<1>4. \A key, keys : RequiredChannels \in Under(<<key>>, keys) => key = "fingerprint"
  BY <1>2, UnderStarts
<1>5. RequiredChannels \notin Under(<<"fingerprint">>, {"min_length", "max_length"})
  <2> SUFFICES ASSUME NEW last \in {"min_length", "max_length"}
               PROVE  RequiredChannels # <<"fingerprint">> \o <<last>>
    BY DEF Under
  <2>1. /\ <<"fingerprint">> \in Seq({"fingerprint", last}) /\ <<last>> \in Seq({"fingerprint", last})
        /\ Len(<<"fingerprint">>) = 1 /\ Len(<<last>>) = 1 /\ <<last>>[1] = last
    OBVIOUS
  <2>2. (<<"fingerprint">> \o <<last>>)[2] = last
    BY <2>1, ConcatProperties
  <2> QED BY <1>2, <2>2
<1>6. RequiredChannels \notin DOMAIN BettingPatternFields
  <2>1. "betting_patterns" \in TabIds
    BY DEF TabIds, Sections
  <2>2. Starts(BettingPatternFields, {"betting_patterns"})
    BY <2>1, FirstKey DEF FieldsOf, FirstKeys
  <2> QED BY <1>2, <2>2 DEF Starts
<1>7. RequiredChannels # <<"aml", "blocklist", "sync_interval_hours">>
      /\ RequiredChannels # <<"dashboard", "poll_interval_seconds">>
  BY <1>2
<1>8. RequiredChannels \notin Positive
  BY <1>4, <1>5, <1>6, <1>7 DEF Positive
<1> QED BY <1>1, <1>3, <1>8 DEF Accepts

-----------------------------------------------------------------------------
\* The country multiselect: what is selected are codes, what is checked is selected.
SelectInv ==
  /\ picked \subseteq Codes /\ chips = picked
  /\ \A code \in DOMAIN options : (options[code] <=> code \in picked)

\* The options as they are drawn: the selected ones are checked.
LEMMA OptionsAre ==
  ASSUME NEW codes, NEW q
  PROVE  \A code \in DOMAIN OptionsOf(codes, q) : (OptionsOf(codes, q)[code] <=> code \in codes)
BY DEF OptionsOf

\* At the start nothing is selected, nor checked.
LEMMA SelectStarts == SelectInit => SelectInv
BY OptionsAre DEF SelectInit, SelectInv

\* A box that is checked selects its code, one that is unchecked removes it.
LEMMA ToggleKeeps ==
  ASSUME SelectInv, NEW code \in Codes, ToggleOption(code)
  PROVE  SelectInv'
<1>1. /\ code \in DOMAIN options /\ options' = [options EXCEPT ![code] = ~@]
      /\ picked' = IF options'[code] THEN picked \cup {code} ELSE picked \ {code}
      /\ chips' = picked'
  BY DEF ToggleOption, Toggle
<1>2. /\ DOMAIN options' = DOMAIN options
      /\ options'[code] = ~options[code] /\ (options[code] <=> code \in picked)
      /\ \A other \in DOMAIN options : other # code => options'[other] = options[other]
  BY <1>1 DEF SelectInv
<1>3. (options'[code] <=> code \in picked') /\ picked' \subseteq Codes
  <2>1. CASE code \in picked
    <3>1. ~options'[code]
      BY <1>2, <2>1, Zenon
    <3>2. picked' = picked \ {code}
      BY <1>1, <3>1
    <3> QED BY <3>1, <3>2 DEF SelectInv
  <2>2. CASE code \notin picked
    <3>1. options'[code]
      BY <1>2, <2>2, Zenon
    <3>2. picked' = picked \cup {code}
      BY <1>1, <3>1
    <3> QED BY <3>1, <3>2 DEF SelectInv
  <2> QED BY <2>1, <2>2
<1>4. \A other \in DOMAIN options : other # code => (other \in picked' <=> other \in picked)
  BY <1>1
<1>5. ASSUME NEW other \in DOMAIN options'  PROVE options'[other] <=> other \in picked'
  <2>1. CASE other = code
    BY <1>3, <2>1
  <2>2. CASE other # code
    <3>1. (options[other] <=> other \in picked) /\ options'[other] = options[other]
      BY <1>2, <2>2 DEF SelectInv
    <3>2. other \in picked' <=> other \in picked
      BY <1>2, <1>4, <2>2
    <3> QED BY <3>1, <3>2
  <2> QED BY <2>1, <2>2
<1> QED BY <1>1, <1>3, <1>5 DEF SelectInv

LEMMA SelectStepKeeps == SelectInv /\ [SelectNext]_selectVars => SelectInv'
<1> SUFFICES ASSUME SelectInv, [SelectNext]_selectVars  PROVE SelectInv'
  OBVIOUS
<1>1. ASSUME NEW codes, codes \subseteq Codes, NEW q, picked' = codes, chips' = codes,
             options' = OptionsOf(codes, q)
      PROVE  SelectInv'
  BY <1>1, OptionsAre DEF SelectInv
<1>2. ASSUME NEW codes \in SUBSET Codes, SetValues(codes)  PROVE SelectInv'
  BY <1>1, <1>2 DEF SetValues
<1>3. ASSUME NEW code \in Codes, ClickChip(code)  PROVE SelectInv'
  <2>1. picked \ {code} \subseteq Codes
    BY DEF SelectInv
  <2> QED BY <1>1, <1>3, <2>1 DEF ClickChip
<1>4. ASSUME NEW code \in Codes, ToggleOption(code)  PROVE SelectInv'
  BY <1>4, ToggleKeeps
<1>5. CASE OpenOptions
  BY <1>1, <1>5 DEF OpenOptions, SelectInv
<1>6. CASE CloseOptions
  BY <1>6 DEF CloseOptions, SelectInv
<1>7. ASSUME NEW q \in Query \cup {NoQuery}, Search(q)  PROVE SelectInv'
  BY <1>1, <1>7 DEF Search, SelectInv
<1>8. CASE UNCHANGED selectVars
  BY <1>8 DEF selectVars, SelectInv
<1> QED BY <1>2, <1>3, <1>4, <1>5, <1>6, <1>7, <1>8 DEF SelectNext

\* The chips, the checked options and the codes that a save collects are one set (the handlers of
\* the multiselect, formatCountryFieldValue), for any codes, searches and answers.
THEOREM ViewsStayAgreed == SelectSpec => []ViewsAgree
<1>1. SelectInv => ViewsAgree
  <2> SUFFICES ASSUME SelectInv  PROVE ViewsAgree
    OBVIOUS
  <2>1. picked \subseteq Nat /\ IsFiniteSet(picked)
    BY SelectAssumption, FS_Subset DEF SelectInv, Codes
  <2>2. ParseCountries(FormatCountries(picked)) = picked
    BY <2>1, CodesKept
  <2>3. {code.place : code \in ToSet(FormatCountries(picked))} = picked
    BY <2>2 DEF ToSet, ParseCountries
  <2> QED BY <2>3 DEF SelectInv, ViewsAgree
<1> QED BY <1>1, SelectStarts, SelectStepKeeps, PTL DEF SelectSpec

-----------------------------------------------------------------------------
\* The parts of the console put together.  A step of one is a step of it and of no other.
LEMMA PartsMove ==
  [ConsoleNext]_consoleVars =>
    /\ [ConfigNext]_configVars /\ [SelectNext]_selectVars /\ [TextNext]_textVars
    /\ [LogNext]_logVars /\ [PageNext]_pageVars /\ UNCHANGED <<part, probe>>
<1> SUFFICES ASSUME [ConsoleNext]_consoleVars
             PROVE  /\ [ConfigNext]_configVars /\ [SelectNext]_selectVars /\ [TextNext]_textVars
                    /\ [LogNext]_logVars /\ [PageNext]_pageVars /\ UNCHANGED <<part, probe>>
  OBVIOUS
<1>1. CASE UNCHANGED consoleVars
  BY <1>1 DEF consoleVars
<1>2. CASE ConsoleNext
  BY <1>2 DEF ConsoleNext
<1> QED BY <1>1, <1>2

\* The console behaves as each of its parts: what is proved of a part is true of the whole.
THEOREM ConsoleImplementsParts ==
  ConsoleSpec => ConfigSpec /\ SelectSpec /\ TextSpec /\ LogSpec /\ PageSpec
<1>1. ConsoleInit => ConfigInit /\ SelectInit /\ TextInit /\ LogInit /\ PageInit
  BY DEF ConsoleInit
<1> QED BY <1>1, PartsMove, PTL
        DEF ConsoleSpec, ConfigSpec, SelectSpec, TextSpec, LogSpec, PageSpec

\* Everything the page and the log viewer keep stays of its kind, the log viewer on a page boundary.
THEOREM ConsoleTypesHold == ConsoleSpec => []ConsoleTypeOK
  BY ConsoleImplementsParts, PageTypesHold, LogTypesHold, PTL DEF ConsoleTypeOK

\* Every text is in the chosen language, which is found again when the page is reloaded.
THEOREM ConsoleKeepsSpeaking == ConsoleSpec => []ConsoleSpeaks
<1>1. TextsSpeak /\ LanguageSurvives => ConsoleSpeaks
  BY DEF ConsoleSpeaks
<1> QED BY <1>1, ConsoleImplementsParts, SpeaksChosen, LanguageRestored, PTL

\* The form gives back what it was given, and saving twice is saving once, for every path, value and
\* content (populateForm, collectForm, the validators of the store).
THEOREM FormGivesBack == ConsoleSpec => []FormKeeps
<1> DEFINE Probed == part = "form" => probe \in Probe
<1>1. ConsoleInit => Probed
  BY DEF ConsoleInit
<1>2. Probed /\ [ConsoleNext]_consoleVars => Probed'
  BY PartsMove
<1>3. Probed => FormKeeps
  <2> SUFFICES ASSUME part = "form", probe \in Probe  PROVE FormKeeps
    BY DEF FormKeeps, LoadSaveKeeps, SecondSaveHarmless
  <2> DEFINE path == probe.path
             kind == FieldKind[path]
             once == Stored(path, Collect(kind, probe.typed))
             twice == Stored(path, Passed(path, once))
  <2>1. path \in FormPaths /\ IsValue(kind, probe.value) /\ IsContent(kind, probe.typed)
    BY ProbeAssumption
  <2>2. LoadSaveKeeps
    BY <2>1, LoadedIsSaved DEF LoadSaveKeeps
  <2>3. ASSUME Collectable(kind, probe.typed)
        PROVE  /\ (kind = "line" => Len(once) < 2) => Meaning(kind, twice) = Meaning(kind, once)
               /\ Accepts(path, once) => Accepts(path, twice)
    <3>1. (kind = "line" => Len(once) < 2) => twice = once
      BY <2>1, <2>3, SavedTwiceIsSavedOnce
    <3>2. kind = "line" => Accepts(path, twice)
      BY <2>1, AnyLineAccepted
    <3> HIDE DEF once, twice
    <3> QED BY <3>1, <3>2
  <2>4. SecondSaveHarmless
    BY <2>3 DEF SecondSaveHarmless
  <2> QED BY <2>2, <2>4 DEF FormKeeps
<1> QED BY <1>1, <1>2, <1>3, PTL DEF ConsoleSpec
=============================================================================
