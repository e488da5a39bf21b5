----------------------------- MODULE ConsoleForm -----------------------------
(* What the console's form does to a configuration: what each kind of input shows of a value,     *)
(* what it makes of it when the form is collected, and what the server makes of that.             *)
(*                                                                                                *)
(* Values.  Numbers are natural numbers.  A word is a sequence of letters (atoms); an item of a   *)
(* list is the sequence of the words its commas separate; a country code is a place in the        *)
(* alphabet and whether it is upper case; a string of codes is the sequence its commas separate.  *)
(* A JSON value is a function (an object), or a sequence (an array).                              *)
(* Input contents.  A number or Blank; text is a sequence of lines, a line the sequence of words  *)
(* its commas separate; JSON text is what it parses to, Blank, or Broken; a country multiselect   *)
(* holds a set of places.                                                                         *)
EXTENDS ConsoleFields, Integers, SequencesExt

CONSTANTS Blank, Broken,
          VelocityDefaults,  \* factory thresholds: what a partial object is completed with
          Json               \* the JSON values of documents

Least == 1
NoEntries == <<>>

\* What the server stores of a field: a partial object of thresholds is completed.
Stored(path, value) ==
  IF path = <<"velocity_thresholds">> THEN value ++ VelocityDefaults ELSE value

ASSUME FormAssumption ==
  /\ Blank # Broken /\ Blank \notin Nat \cup Json
  /\ NoEntries \in Json
  /\ \A value \in Json : Stored(<<"velocity_thresholds">>, value) \in Json

\* The elements of a finite set in order: in the place of each, how many are not after it.
InOrder(S, Before(_, _)) ==
  [i \in 1..Cardinality(S) |->
    CHOOSE x \in S : Cardinality({y \in S : Before(y, x)}) = i - 1]

-----------------------------------------------------------------------------
\* The browser: what an <input type="text"> keeps of a text, which is the text without its line
\* breaks: the last word of a line runs into the first one of the next.
RunTogether(before, line) ==
  Front(before) \o <<Last(before) \o Head(line)>> \o Tail(line)

Joined(text) ==
  LET joined[i \in 1..Len(text)] ==
        IF i = 1 THEN text[1] ELSE RunTogether(joined[i - 1], text[i])
  IN  joined[Len(text)]

SingleLine(text) == IF text = <<>> THEN text ELSE <<Joined(text)>>

-----------------------------------------------------------------------------
\* listToText puts each item on a line of its own; textToList takes a line break and a comma alike.
ListToText(items) == items

\* Where the words of a text are that are not empty: in which line, and where in the line.
WordsOf(text) ==
  {at \in UNION {{i} \X DOMAIN text[i] : i \in DOMAIN text} : text[at[1]][at[2]] # <<>>}

FurtherUp(a, b) == a[1] < b[1] \/ (a[1] = b[1] /\ a[2] < b[2])

TextToList(text) ==
  LET words == InOrder(WordsOf(text), FurtherUp)
  IN  [i \in DOMAIN words |-> <<text[words[i][1]][words[i][2]]>>]

\* parseCountryFieldValue of an array or of a string, into the set of selected codes;
\* formatCountryFieldValue back, upper case, each code once, in order.
ParseCountries(codes) == {codes[i].place : i \in DOMAIN codes}
FormatCountries(selected) ==
  LET sorted == InOrder(selected, <)
  IN  [i \in DOMAIN sorted |-> [place |-> sorted[i], upper |-> TRUE]]

\* Mutated: every list is put into a single line.
PopulateLine(kind, value) ==
  IF kind = "lines" THEN SingleLine(ListToText(value))
  ELSE IF kind \in {"countries", "csv"} THEN ParseCountries(value) ELSE value

\* What populateForm puts into an input of a kind.
Populate(kind, value) ==
  CASE kind = "line" -> SingleLine(ListToText(value))
    [] kind = "lines" -> ListToText(value)
    [] kind \in {"countries", "csv"} -> ParseCountries(value)
    [] OTHER -> value

\* What an input holds when buildTabs has just made it.
Fresh(kind) ==
  CASE kind \in {"number", "json"} -> Blank
    [] kind = "checkbox" -> FALSE
    [] kind \in {"countries", "csv"} -> {}
    [] OTHER -> NoEntries

\* What collectForm takes from an input, which it can take from any but broken JSON.
Collectable(kind, content) == kind = "json" => content # Broken

Collect(kind, content) ==
  CASE kind = "number" -> IF content = Blank THEN 0 ELSE content
    [] kind = "json" -> IF content = Blank THEN NoEntries ELSE content
    [] kind \in {"line", "lines"} -> TextToList(content)
    [] kind \in {"countries", "csv"} -> FormatCountries(content)
    [] OTHER -> content

-----------------------------------------------------------------------------
\* The numbers the schema wants to be Least or more (some want more than one: Least stands for it).
Positive ==
  Under(<<"ip_intel">>, {"cache_ttl_seconds", "timeout_seconds"})
  \cup {<<"aml", "blocklist", "sync_interval_hours">>}
  \cup Under(<<"withdrawal_method">>,
         {"distinct_users_medium", "distinct_users_high", "distinct_users_critical"})
  \cup {path \in DOMAIN BettingPatternFields :
           /\ BettingPatternFields[path] = "number"
           /\ path[2] \notin {"win_rate_high_ratio", "win_rate_critical_ratio"}}
  \cup Under(<<"hedge_betting">>,
         {"window_seconds", "round_leg_ttl_seconds", "time_pair_window_seconds",
          "hedged_round_medium", "hedged_round_high", "hedged_round_critical"})
  \cup Under(<<"step_up_verification">>, {"grant_ttl_days", "max_verified_age_minutes"})
  \cup Under(<<"fingerprint">>, {"min_length", "max_length"})
  \cup Under(<<"features">>,
         {"redis_velocity_ip_ttl", "redis_velocity_domain_ttl", "rabbitmq_prefetch"})
  \cup {<<"dashboard", "poll_interval_seconds">>}

\* What the schema accepts of one field.  Its upper bounds (le=100 and the like) are left out: a
\* number above them is refused as one below Least is, with the same answer to the console ...
Accepts(path, value) ==
  /\ path \in Positive => value >= Least
  /\ path = <<"hedge_betting", "opposite_selection_groups">> => value # NoEntries

\* ... of a document, some numbers of which must also be in order: the decision thresholds strictly,
\* the thresholds of each kind of burst, of shared methods and of hedged rounds, and the win rates.
Ascending ==
  {<<<<"withdrawal_method", "distinct_users_medium">>,
     <<"withdrawal_method", "distinct_users_high">>,
     <<"withdrawal_method", "distinct_users_critical">>>>,
   <<<<"betting_patterns", "game_bet_burst_medium">>, <<"betting_patterns", "game_bet_burst_high">>,
     <<"betting_patterns", "game_bet_burst_critical">>>>,
   <<<<"betting_patterns", "wallet_bet_burst_medium">>,
     <<"betting_patterns", "wallet_bet_burst_high">>,
     <<"betting_patterns", "wallet_bet_burst_critical">>>>,
   <<<<"betting_patterns", "wallet_win_burst_medium">>,
     <<"betting_patterns", "wallet_win_burst_high">>,
     <<"betting_patterns", "wallet_win_burst_critical">>>>,
   <<<<"betting_patterns", "win_rate_high_ratio">>,
     <<"betting_patterns", "win_rate_critical_ratio">>>>,
   <<<<"hedge_betting", "hedged_round_medium">>, <<"hedge_betting", "hedged_round_high">>,
     <<"hedge_betting", "hedged_round_critical">>>>}

Thresholds ==
  <<<<"decision_thresholds", "challenge">>, <<"decision_thresholds", "high">>,
    <<"decision_thresholds", "block">>>>

AcceptsDocument(doc) ==
  /\ \A path \in DOMAIN doc : Accepts(path, doc[path])
  /\ \A i, j \in 1..3 :
       i < j /\ {Thresholds[i], Thresholds[j]} \subseteq DOMAIN doc =>
         doc[Thresholds[i]] < doc[Thresholds[j]]
  /\ \A order \in Ascending : \A i, j \in DOMAIN order :
       i < j /\ {order[i], order[j]} \subseteq DOMAIN doc => doc[order[i]] <= doc[order[j]]

-----------------------------------------------------------------------------
\* The values of documents and the contents of inputs, by the kind of the input.
IsSequence(s) == Len(s) \in Nat /\ s = [i \in 1..Len(s) |-> s[i]]

IsText(text) ==
  IsSequence(text) /\ \A i \in DOMAIN text : IsSequence(text[i]) /\ text[i] # <<>>

IsValue(kind, value) ==
  /\ kind = "number" => value \in Nat
  /\ kind \in {"line", "lines"} => IsText(value)
  /\ kind = "json" => value \in Json
  /\ kind \in {"countries", "csv"} =>
       IsSequence(value) /\ \A i \in DOMAIN value : value[i].place \in Nat

IsContent(kind, content) ==
  /\ kind = "number" => content \in Nat \cup {Blank}
  /\ kind \in {"line", "lines"} => IsText(content)
  /\ kind = "json" => content \in Json \cup {Blank, Broken}
  /\ kind \in {"countries", "csv"} => content \subseteq Nat /\ IsFiniteSet(content)

-----------------------------------------------------------------------------
\* What the engines read of a value: codes in upper case, whatever their order and number.
Meaning(kind, value) == IF kind \in {"countries", "csv"} THEN ParseCountries(value) ELSE value

\* Showing a value and collecting it again.
Passed(path, value) == Collect(FieldKind[path], Populate(FieldKind[path], value))

\* The values a form gives back as they were: not a list in a single line, where two entries run
\* together, nor entries with a comma or none, which are taken apart or dropped.
Plain(kind, value) ==
  /\ kind = "line" => Len(value) <= 1
  /\ kind \in {"line", "lines"} =>
       \A i \in DOMAIN value : Len(value[i]) = 1 /\ value[i][1] # <<>>
=============================================================================
