---------------------------- MODULE ConfigConsole ----------------------------
(* The runtime configuration: one row in the database, a live copy in each process, and consoles  *)
(* that load, edit and save whole documents.  A console's request is sent, served and answered in *)
(* three steps; whatever happens in between, the answer overwrites the form.  The form itself is  *)
(* that of ConsoleForm, over the paths of an instance.                                            *)
EXTENDS ConsoleForm

CONSTANTS
  Console, Process,
  Path,          \* the paths of a document; those outside FormPaths have no input
  InitialDoc, FactoryDoc,
  Typable,       \* what an operator may type into the input of a path
  NoDoc,
  MaxRequests, MaxEdits, MaxConfigFaults   \* bounds of a run

ASSUME ConfigAssumption ==
  /\ MaxRequests \in Nat /\ MaxEdits \in Nat /\ MaxConfigFaults \in Nat
  /\ DOMAIN InitialDoc = Path /\ DOMAIN FactoryDoc = Path
  /\ ToSet(Thresholds) \subseteq Path
  /\ \A path \in Path : Stored(path, InitialDoc[path]) = InitialDoc[path]
  /\ \A path \in Path \cap FormPaths :
       /\ IsValue(FieldKind[path], InitialDoc[path]) /\ IsValue(FieldKind[path], FactoryDoc[path])
       /\ \A content \in Typable[path] : IsContent(FieldKind[path], content)

VARIABLES
  row,        \* the stored document and how many updates made it
  live,       \* of each process: the document it evaluates with, and which update that is
  tab,        \* of each console: the document behind the form, the contents of its inputs
  wire,       \* the requests, in the order they were sent
  behind,     \* history: processes another one has updated past
  shown,      \* history, of each console: what the server last sent it, which update that was, the
              \*   paths edited since, whether the inputs were emptied since
  seen,       \* history, of each console: the latest update of its own it was told of
  crossed,    \* history: consoles that had two requests under way, or an answer from behind
  saved,      \* history: the last accepted save, with what it was made from
  edits, configFaults

configVars == <<row, live, tab, wire, behind, shown, seen, crossed, saved, edits, configFaults>>

Inputs == Path \cap FormPaths
FillForm(doc) == [path \in Inputs |-> Populate(FieldKind[path], doc[path])]
EmptyForm == [path \in Inputs |-> Fresh(FieldKind[path])]

\* Mutated: collectForm starts from the first document instead of the last one.
CollectFormFirst(t) ==
  [path \in Path |-> IF path \in Inputs THEN Collect(FieldKind[path], t.form[path])
                                        ELSE InitialDoc[path]]

\* collectForm: a copy of the document behind the form, each input's path set from the input.
CanCollect(t) ==
  t.doc # NoDoc /\ \A path \in Inputs : Collectable(FieldKind[path], t.form[path])
CollectForm(t) ==
  [path \in Path |-> IF path \in Inputs THEN Collect(FieldKind[path], t.form[path])
                                        ELSE t.doc[path]]

Normalized(doc) == [path \in Path |-> Stored(path, doc[path])]

\* What is left of a request whose answer the console has.
Settled == [from |-> NoDoc, kind |-> NoDoc, body |-> NoDoc, made |-> NoDoc,
            at |-> "settled", reply |-> NoDoc]

Unanswered(c) == {i \in DOMAIN wire : wire[i].from = c}

-----------------------------------------------------------------------------
\* The server.  load, in a process that starts.
StartProcess(p) ==
  /\ configFaults < MaxConfigFaults
  /\ live' = [live EXCEPT ![p] = row]
  /\ behind' = behind \ {p}
  /\ configFaults' = configFaults + 1
  /\ UNCHANGED <<row, tab, wire, shown, seen, crossed, saved, edits>>

\* Mutated: the live document is left as it was.
UpdateRow(p, doc) ==
  /\ row' = [doc |-> Normalized(doc), version |-> row.version + 1]
  /\ behind' = (behind \cup Process) \ {p}
  /\ UNCHANGED live

\* update, under the lock of the process: the row, the audit entry, then the live document.
Update(p, doc) ==
  /\ row' = [doc |-> Normalized(doc), version |-> row.version + 1]
  /\ live' = [live EXCEPT ![p] = row']
  /\ behind' = (behind \cup Process) \ {p}

Answer(i, reply) ==
  wire' = [wire EXCEPT ![i].at = "answered", ![i].reply = reply]

\* GET /config, which only reads the live document of the process it reaches.
ServeLoad(i, p) ==
  /\ wire[i].at = "sent" /\ wire[i].kind = "load"
  /\ Answer(i, live[p])
  /\ crossed' = IF p \in behind THEN crossed \cup {wire[i].from} ELSE crossed
  /\ UNCHANGED <<row, live, tab, behind, shown, seen, saved, edits, configFaults>>

\* PUT /config: the document is validated whole, and stored whatever was stored in between.
ServeSave(i, p) ==
  /\ wire[i].at = "sent" /\ wire[i].kind = "save"
  /\ AcceptsDocument(wire[i].body)
  /\ Update(p, wire[i].body)
  /\ Answer(i, row')
  /\ saved' = [doc |-> row'.doc, from |-> wire[i].made]
  /\ UNCHANGED <<tab, shown, seen, crossed, edits, configFaults>>

RefuseSave(i) ==
  /\ wire[i].at = "sent" /\ wire[i].kind = "save"
  /\ ~AcceptsDocument(wire[i].body)
  /\ Answer(i, NoDoc)
  /\ UNCHANGED <<row, live, tab, behind, shown, seen, crossed, saved, edits, configFaults>>

\* POST /config/reset
ServeReset(i, p) ==
  /\ wire[i].at = "sent" /\ wire[i].kind = "reset"
  /\ Update(p, FactoryDoc)
  /\ Answer(i, row')
  /\ UNCHANGED <<tab, shown, seen, crossed, saved, edits, configFaults>>

\* A request fails before it changed anything, or its answer is lost.
FailRequest(i) ==
  /\ \/ wire[i].at = "sent"
     \/ wire[i].at = "answered" /\ wire[i].reply # NoDoc
  /\ configFaults < MaxConfigFaults
  /\ Answer(i, NoDoc)
  /\ configFaults' = configFaults + 1
  /\ UNCHANGED <<row, live, tab, behind, shown, seen, crossed, saved, edits>>

-----------------------------------------------------------------------------
\* The console.  The operator types into an input.
Type(c, path) ==
  /\ edits < MaxEdits
  /\ \E content \in Typable[path] :
       /\ content # tab[c].form[path]
       /\ tab' = [tab EXCEPT ![c].form[path] = content]
  /\ shown' = [shown EXCEPT ![c].edited = @ \cup {path}]
  /\ edits' = edits + 1
  /\ UNCHANGED <<row, live, wire, behind, seen, crossed, saved, configFaults>>

Send(c, kind, body) ==
  /\ Len(wire) < MaxRequests
  /\ wire' = Append(wire, [from |-> c, kind |-> kind, body |-> body, made |-> shown[c],
                           at |-> "sent", reply |-> NoDoc])
  /\ crossed' = IF Unanswered(c) # {} THEN crossed \cup {c} ELSE crossed
  /\ UNCHANGED <<row, live, tab, behind, shown, seen, saved, edits, configFaults>>

\* The reload, save and reset buttons.  A form that cannot be collected is not sent.
Reload(c) == Send(c, "load", NoDoc)
Save(c) == CanCollect(tab[c]) /\ Send(c, "save", CollectForm(tab[c]))
Reset(c) == Send(c, "reset", NoDoc)

\* An answer becomes the document behind the form, and the form shows it; an error only a banner.
Receive(i) ==
  LET c == wire[i].from
      reply == wire[i].reply
  IN  /\ wire[i].at = "answered"
      /\ wire' = [wire EXCEPT ![i] = Settled]
      /\ IF reply = NoDoc
         THEN UNCHANGED <<tab, shown, seen>>
         ELSE /\ tab' = [tab EXCEPT ![c] = [doc |-> reply.doc, form |-> FillForm(reply.doc)]]
              /\ shown' = [shown EXCEPT ![c] = [doc |-> reply.doc, version |-> reply.version,
                                                edited |-> {}, emptied |-> FALSE]]
              /\ seen' = IF wire[i].kind = "load" \/ reply.version < seen[c] THEN seen
                         ELSE [seen EXCEPT ![c] = reply.version]
      /\ UNCHANGED <<row, live, behind, crossed, saved, edits, configFaults>>

\* changeLocale: every input is made anew.  What could be collected becomes the document behind the
\* form and is shown again; a form with broken JSON is left empty.
ChangeLanguage(c) ==
  LET t == tab[c]
      collected == CollectForm(t)
  IN  /\ IF CanCollect(t)
         THEN /\ tab' = [tab EXCEPT ![c] = [doc |-> collected, form |-> FillForm(collected)]]
              /\ UNCHANGED shown
         ELSE /\ tab' = [tab EXCEPT ![c].form = EmptyForm]
              /\ shown' = [shown EXCEPT ![c].edited = {}, ![c].emptied = TRUE]
      /\ tab' # tab
      /\ UNCHANGED <<row, live, wire, behind, seen, crossed, saved, edits, configFaults>>

-----------------------------------------------------------------------------
ConfigInit ==
  /\ row = [doc |-> InitialDoc, version |-> 0]
  /\ live = [p \in Process |-> row]
  /\ tab = [c \in Console |-> [doc |-> InitialDoc, form |-> FillForm(InitialDoc)]]
  /\ wire = <<>>
  /\ behind = {}
  /\ shown = [c \in Console |-> [doc |-> InitialDoc, version |-> 0,
                                 edited |-> {}, emptied |-> FALSE]]
  /\ seen = [c \in Console |-> 0]
  /\ crossed = {}
  /\ saved = NoDoc
  /\ edits = 0 /\ configFaults = 0

ConfigNext ==
  \/ \E p \in Process : StartProcess(p)
  \/ \E i \in DOMAIN wire :
       \/ \E p \in Process : ServeLoad(i, p) \/ ServeSave(i, p) \/ ServeReset(i, p)
       \/ RefuseSave(i) \/ FailRequest(i) \/ Receive(i)
  \/ \E c \in Console :
       \/ \E path \in Inputs : Type(c, path)
       \/ Reload(c) \/ Save(c) \/ Reset(c) \/ ChangeLanguage(c)

ConfigSpec == ConfigInit /\ [][ConfigNext]_configVars

-----------------------------------------------------------------------------
\* A process evaluates with the stored configuration unless another process updated it since: an
\* update, a reset and a start leave the live document and the row the same.
LiveIsRow == \A p \in Process \ behind : live[p] = row

\* An operator's save changes what the operator edited and nothing else of the document the console
\* was sent, hidden paths included.  Except: what a form does not give back as it was, and a form
\* emptied by a change of language in which every mandatory input has been filled in again.
Mandatory ==
  {path \in Inputs : ~Accepts(path, Collect(FieldKind[path], Fresh(FieldKind[path])))}
  \cup (Inputs \cap {Thresholds[2], Thresholds[3]})

UneditedKept ==
  saved # NoDoc =>
    LET from == saved.from
    IN  \/ \A path \in Path \ from.edited :
             LET was == from.doc[path]
             IN  IF path \in Inputs /\ ~from.emptied
                 THEN Plain(FieldKind[path], was) =>
                        Meaning(FieldKind[path], saved.doc[path]) = Meaning(FieldKind[path], was)
                 ELSE saved.doc[path] = was
        \/ from.emptied /\ Mandatory \subseteq from.edited

\* A console that was told its update is stored does not go back to an older document, unless it
\* had two requests under way, or was answered by a process that another one had updated past.
ReadYourWrites == \A c \in Console \ crossed : shown[c].version >= seen[c]

\* No copy of the configuration falls behind unnoticed, in a process or in a console: both of these.
CopiesCurrent == LiveIsRow /\ ReadYourWrites
=============================================================================
