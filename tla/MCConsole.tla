------------------------------ MODULE MCConsole ------------------------------
(* An instance of AdminConsole for TLC: a document with a path of each kind, and the values and   *)
(* contents that are taken through each input.                                                    *)
EXTENDS AdminConsole

-----------------------------------------------------------------------------
\* The document: the three ordered thresholds among its paths, and a path without an input.
Web == <<"web">>
Mobile == <<"mobile">>
Challenge == Thresholds[1]
High == Thresholds[2]
Block == Thresholds[3]
Channels == <<"fingerprint", "required_channels">>
Licensed == <<"operator", "licensed_markets">>
Weights == <<"score_weights">>
MCPath == {Challenge, High, Block, Channels, Groups, Licensed, Weights}

Code(place, upper) == [place |-> place, upper |-> upper]

MCInitialDoc ==
  (Challenge :> 0) @@ (High :> 1) @@ (Block :> 2) @@ (Channels :> <<<<Web>>, <<Mobile>>>>) @@ (Groups :> <<1>>)
  @@ (Licensed :> <<Code(2, FALSE), Code(1, TRUE)>>) @@ (Weights :> 7)
MCFactoryDoc ==
  (Challenge :> 0) @@ (High :> 1) @@ (Block :> 2) @@ (Channels :> <<<<Web>>>>) @@ (Groups :> <<1>>)
  @@ (Licensed :> <<Code(2, TRUE), Code(1, TRUE)>>) @@ (Weights :> 1)

\* Typed: an accepted number, one that is out of order, JSON that does not parse.
MCTypable ==
  [path \in MCPath |-> CASE path = High -> {Blank} [] path = Block -> {1, 4}
                         [] path = Groups -> {Broken} [] OTHER -> {}]
MCVelocityDefaults == (1 :> 5) @@ (2 :> 6)

\* Objects with a key or none, and what the server makes of them.
MCJson ==
  LET given == {NoEntries} \cup {(1 :> n) : n \in {0, 1, 3}}
  IN  given \cup {value ++ MCVelocityDefaults : value \in given}

\* Codes 1 and 2 are listed, 3 is not; a search may find one or two of them.
MCQuery == {{1}, {2, 3}}

-----------------------------------------------------------------------------
\* The values and contents that are taken through an input: lists of up to two items, an item being
\* a word, none, or two words with a comma between them; numbers, and objects with one key or none.
Lists(items) == UNION {[1..n -> items] : n \in 0..2}
Items == {<<Web>>, <<Mobile>>, <<Web, Mobile>>, <<<<>>>>}

Values(kind) ==
  CASE kind = "number" -> 0..2
    [] kind = "checkbox" -> BOOLEAN
    [] kind = "word" -> {Web, <<>>}
    [] kind \in {"line", "lines"} -> Lists(Items)
    [] kind = "json" -> {NoEntries} \cup {(1 :> n) : n \in 0..1}
    [] kind \in {"countries", "csv"} -> Lists({Code(n, u) : n \in 1..2, u \in BOOLEAN})

Typed(kind) ==
  CASE kind = "number" -> {Blank, 0, 3}
    [] kind = "checkbox" -> BOOLEAN
    [] kind = "word" -> {Web, Mobile}
    [] kind = "line" -> {<<>>} \cup [1..1 -> Items]
    [] kind = "lines" -> Lists(Items)
    [] kind = "json" -> {Blank, Broken, NoEntries, (1 :> 3)}
    [] kind \in {"countries", "csv"} -> SUBSET {1, 2}

Probes ==
  UNION {[path : {path}, value : Values(FieldKind[path]), typed : Typed(FieldKind[path])] :
         path \in FormPaths}

-----------------------------------------------------------------------------
\* The list of required channels keeps its channels when the form is saved.
ChannelsSurvive ==
  /\ part = "form"
  /\ probe.path = Channels
  /\ \A i \in DOMAIN probe.value : Len(probe.value[i]) = 1 /\ probe.value[i][1] # <<>>
  => Passed(Channels, probe.value) = probe.value
=============================================================================
