------------------------------ MODULE LogViewer ------------------------------
(* The log viewer of the admin console: a table of request logs that grows on the server, and one *)
(* page of it in a browser, with filters, a page size, a pager and a window for one entry.  What  *)
(* the table shows is an answer; what the pager and the next request are computed from is the     *)
(* state of the page when the answer arrives or the button is pressed.                            *)
EXTENDS Integers, SequencesExt, FiniteSetsExt

CONSTANTS
  LogKind,     \* what the filters tell apart
  NoFilter, NoEntry, Loading, Failed,
  PageSize, FirstPageSize,
  MaxLogs, MaxReads, MaxClicks   \* bounds: rows of the table, requests under way, clicks in a run

ASSUME LogAssumption ==
  /\ PageSize \subseteq Nat \ {0} /\ FirstPageSize \in PageSize
  /\ {MaxLogs, MaxClicks} \subseteq Nat /\ MaxReads \in Nat \ {0}
  /\ NoFilter \notin LogKind /\ Cardinality({NoEntry, Loading, Failed}) = 3

VARIABLES
  logTable,    \* the kinds of the stored rows, in the order of their ids
  logsOpen,    \* the tab is the active one
  logsState,   \* offset, limit and total, from which requests and the pager are made
  logFilter,
  listing,     \* what the page shows: the entries, the line under the filters, the pager; and,
               \*   as history, the request they answer
  reads,       \* the requests for a page under way, in the order they were sent
  modal,       \* the window: open, what it shows; and, as history, the entry clicked last
  details,     \* the requests for an entry under way
  counted,     \* history: the filter the total was counted with
  astray,      \* history: an answer came after a later request's, or the last request failed
  hasty,       \* history: a page was asked for with the total of another filter
  mixed,       \* history: an entry was asked for while another was under way
  clicks

logVars == <<logTable, logsOpen, logsState, logFilter, listing, reads, modal, details, counted,
             astray, hasty, mixed, clicks>>

LogFilters == LogKind \cup {NoFilter}
Click == clicks < MaxClicks /\ clicks' = clicks + 1

ClosedModal == [open |-> FALSE, shows |-> NoEntry, clicked |-> NoEntry]

\* list_evaluate_logs: the rows that match, newest first, from offset on.
Matching(filter) == {id \in DOMAIN logTable : filter = NoFilter \/ logTable[id] = filter}
Place(id, filter) == Cardinality({newer \in Matching(filter) : newer > id})
PageOf(filter, offset, limit) ==
  {id \in Matching(filter) : offset <= Place(id, filter) /\ Place(id, filter) < offset + limit}

\* The pager: getLogsTotalPages, getLogsCurrentPage.
Pages(state) == Max({1, (state.total + state.limit - 1) \div state.limit})
CurrentPage(state) == state.offset \div state.limit + 1

EmptyListing ==
  [entries |-> {}, from |-> 0, to |-> 0, page |-> 0, pages |-> 0,
   atStart |-> FALSE, atEnd |-> FALSE, answers |-> NoEntry]

-----------------------------------------------------------------------------
\* A service writes a log row.
WriteLog(kind) ==
  /\ Len(logTable) < MaxLogs
  /\ logTable' = Append(logTable, kind)
  /\ UNCHANGED <<logsOpen, logsState, logFilter, listing, reads, modal, details, counted, astray,
                 hasty, mixed, clicks>>

\* loadEvaluateLogs sends a request made from the filters and the state, and the state changes
\* before it does: n times over, when a change of language opens the tab anew and loads it again.
Request(state, filter) ==
  [filter |-> filter, offset |-> state.offset, limit |-> state.limit, answer |-> NoEntry,
   overtaken |-> FALSE]

Load(state, filter, n) ==
  /\ Click /\ Len(reads) + n <= MaxReads
  /\ logsState' = state /\ logFilter' = filter
  /\ reads' = reads \o [i \in 1..n |-> Request(state, filter)]

LoadLogs(state, filter) ==
  /\ logsOpen /\ Load(state, filter, 1)
  /\ UNCHANGED <<logTable, logsOpen, listing, modal, details, counted, astray, mixed>>

\* Mutated: the offset is kept.
SetPageSizeThere(size) ==
  /\ size # logsState.limit
  /\ LoadLogs([logsState EXCEPT !.limit = size], logFilter) /\ UNCHANGED hasty

\* The filters and the refresh button go to the first page, a new page size too.
SetFilter(filter) == LoadLogs([logsState EXCEPT !.offset = 0], filter) /\ UNCHANGED hasty
SetPageSize(size) ==
  /\ size # logsState.limit
  /\ LoadLogs([logsState EXCEPT !.offset = 0, !.limit = size], logFilter) /\ UNCHANGED hasty

\* goToLogsPage clamps the page with the total it knows.
GoToPage(page) ==
  LET clamped == Min({Max({1, page}), Pages(logsState)})
  IN  /\ LoadLogs([logsState EXCEPT !.offset = (clamped - 1) * logsState.limit], logFilter)
      /\ hasty' = (clamped > 1 /\ counted # logFilter)

\* A button of the pager, which updateLogsPagerUi may have disabled, or its list of pages.
TurnPage ==
  \/ ~listing.atStart /\ (GoToPage(1) \/ GoToPage(CurrentPage(logsState) - 1))
  \/ ~listing.atEnd /\ (GoToPage(CurrentPage(logsState) + 1) \/ GoToPage(Pages(logsState)))
  \/ \E page \in 1..listing.pages : GoToPage(page)

AnswerLogs(i) ==
  LET read == reads[i]
      answer == [entries |-> PageOf(read.filter, read.offset, read.limit),
                 total |-> Cardinality(Matching(read.filter))]
  IN  /\ read.answer = NoEntry
      /\ reads' = [reads EXCEPT ![i].answer = answer]
      /\ UNCHANGED <<logTable, logsOpen, logsState, logFilter, listing, modal, details, counted,
                     astray, hasty, mixed, clicks>>

\* What is drawn of an answer: its entries, with the offset the page has by now.
Drawn(state, entries, asked) ==
  [entries |-> entries, answers |-> asked,
   from |-> IF state.total = 0 THEN 0 ELSE state.offset + 1,
   to |-> Min({state.offset + Cardinality(entries), state.total}),
   page |-> CurrentPage(state), pages |-> Pages(state),
   atStart |-> state.offset = 0 \/ state.total = 0,
   atEnd |-> state.offset + state.limit >= state.total \/ state.total = 0]

Settle(i) ==
  reads' = RemoveAt([j \in DOMAIN reads |-> [reads[j] EXCEPT !.overtaken = @ \/ j < i]], i)

TakeLogs(i) ==
  LET read == reads[i]
      state == [logsState EXCEPT !.total = read.answer.total]
  IN  /\ read.answer # NoEntry
      /\ Settle(i)
      /\ logsState' = state
      /\ listing' = Drawn(state, read.answer.entries, <<read.filter, read.offset, read.limit>>)
      /\ modal' = [modal EXCEPT !.open = FALSE]
      /\ counted' = read.filter
      /\ astray' = IF read.overtaken THEN TRUE ELSE IF i = Len(reads) THEN FALSE ELSE astray
      /\ UNCHANGED <<logTable, logsOpen, logFilter, details, hasty, mixed, clicks>>

\* A failed request leaves the page as it was.
FailLogs(i) ==
  /\ Settle(i)
  /\ astray' = (astray \/ i = Len(reads))
  /\ UNCHANGED <<logTable, logsOpen, logsState, logFilter, listing, modal, details, counted, hasty,
                 mixed, clicks>>

\* activateTab.
OpenLogs ==
  /\ logsOpen' = TRUE
  /\ Load(logsState, logFilter, 1)
  /\ UNCHANGED <<logTable, listing, modal, details, counted, astray, hasty, mixed>>

LeaveLogs ==
  /\ logsOpen /\ logsOpen' = FALSE /\ Click
  /\ UNCHANGED <<logTable, logsState, logFilter, listing, reads, modal, details, counted, astray,
                 hasty, mixed>>

Rebuild(n) ==
  /\ listing' = EmptyListing
  /\ Load(logsState, NoFilter, n)
  /\ UNCHANGED <<logTable, logsOpen, modal, details, counted, astray, hasty, mixed>>

\* Mutated: the page is not loaded again.
RebuildLogsOnly == Rebuild(0)

\* changeLocale builds the panel anew, with empty filters, and keeps the state.
RebuildLogs == Rebuild(IF logsOpen THEN 2 ELSE 0)

-----------------------------------------------------------------------------
\* showLogDetail opens the window at once and fills it when the entry comes, wherever it is by then.
ShowDetail(id) ==
  /\ logsOpen /\ ~modal.open /\ Click /\ Len(details) < MaxReads
  /\ modal' = [open |-> TRUE, shows |-> Loading, clicked |-> id]
  /\ details' = Append(details, id)
  /\ mixed' = (details # <<>>)
  /\ UNCHANGED <<logTable, logsOpen, logsState, logFilter, listing, reads, counted, astray, hasty>>

\* ... or says that it could not be had.
TakeDetail(i) ==
  /\ details' = RemoveAt(details, i)
  /\ \E shows \in {details[i], Failed} : modal' = [modal EXCEPT !.shows = shows]
  /\ UNCHANGED <<logTable, logsOpen, logsState, logFilter, listing, reads, counted, astray, hasty,
                 mixed, clicks>>

HideDetail ==
  /\ modal.open
  /\ modal' = [modal EXCEPT !.open = FALSE]
  /\ UNCHANGED <<logTable, logsOpen, logsState, logFilter, listing, reads, details, counted,
                 astray, hasty, mixed, clicks>>

-----------------------------------------------------------------------------
LogInit ==
  /\ logTable = <<>> /\ logsOpen = FALSE
  /\ logsState = [offset |-> 0, limit |-> FirstPageSize, total |-> 0]
  /\ logFilter = NoFilter /\ listing = EmptyListing /\ reads = <<>>
  /\ modal = ClosedModal /\ details = <<>>
  /\ counted = NoFilter /\ astray = FALSE /\ hasty = FALSE /\ mixed = FALSE
  /\ clicks = 0

LogNext ==
  \/ \E kind \in LogKind : WriteLog(kind)
  \/ \E filter \in LogFilters : SetFilter(filter)
  \/ \E size \in PageSize : SetPageSize(size)
  \/ TurnPage \/ OpenLogs \/ LeaveLogs \/ RebuildLogs \/ HideDetail
  \/ \E i \in DOMAIN reads : AnswerLogs(i) \/ TakeLogs(i) \/ FailLogs(i)
  \/ \E id \in listing.entries : ShowDetail(id)
  \/ \E i \in DOMAIN details : TakeDetail(i)

LogSpec == LogInit /\ [][LogNext]_logVars

-----------------------------------------------------------------------------
\* With no request under way the open tab shows what its filters, page and page size ask for, and
\* says so, unless answers came in another order than the requests or the last request failed.
LogsSettled == logsOpen /\ reads = <<>> /\ ~astray
ListingIsAsked ==
  LogsSettled =>
    /\ listing.answers = <<logFilter, logsState.offset, logsState.limit>>
    /\ listing.from = IF logsState.total = 0 THEN 0 ELSE logsState.offset + 1
    /\ listing.page = CurrentPage(logsState)

\* ... which is a page that exists, whatever the order of filters, page sizes, page turns and
\* languages, unless a page was turned before the answer for new filters came.
PageExists ==
  LogsSettled /\ ~hasty => logsState.offset = 0 \/ logsState.offset < logsState.total

\* The window shows the entry clicked last, or that it could not be had, once nothing is under way,
\* unless an entry was clicked while another was.
DetailIsClicked ==
  modal.open /\ details = <<>> /\ ~mixed => modal.shows \in {modal.clicked, Failed}

\* The log viewer shows what was asked of it, page and entry, whatever was clicked meanwhile and
\* whatever became of the requests before.
LogsShowAsked == ListingIsAsked /\ PageExists /\ DetailIsClicked

\* A type invariant: the offset is a multiple of the page size.
LogTypeOK ==
  /\ logTable \in Seq(LogKind) /\ logFilter \in LogFilters /\ counted \in LogFilters
  /\ logsState.limit \in PageSize /\ logsState.offset % logsState.limit = 0
  /\ logsState.total \in 0..Len(logTable)
  /\ listing.entries \subseteq DOMAIN logTable
  /\ modal.shows \in DOMAIN logTable \cup {NoEntry, Loading, Failed}
  /\ Len(reads) <= MaxReads /\ Len(details) <= MaxReads
=============================================================================
