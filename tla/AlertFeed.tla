------------------------------ MODULE AlertFeed ------------------------------
(* The alerts of the admin console: rows that the services stamp and then commit, a feed that     *)
(* answers "what is new since", and the notification centre of one browser, which polls it with a *)
(* cursor it moves to the newest alert it was given.                                              *)
EXTENDS Integers, SequencesExt

CONSTANTS
  Source,      \* the tables: scored request logs, audit entries
  Mark,        \* what makes a row an alert: a block decision, a critical level
  RowLimit, Limit, MaxInbox,
  NoCursor, NoAnswer, Disabled,
  Skew,        \* how far the browser's clock may be ahead of the services'
  MaxRows, MaxClock,
  MaxPolls,    \* polls under way at once
  MaxTurns     \* starts and stops of polling, failed polls and changes of the settings in a run

ASSUME AlertAssumption ==
  /\ {RowLimit, Limit, MaxInbox} \subseteq Nat \ {0}
  /\ {MaxRows, MaxClock, MaxPolls, MaxTurns} \subseteq Nat
  /\ Skew \subseteq Int /\ NoCursor \notin Int /\ NoAnswer # Disabled

VARIABLES
  clock,       \* the services' clock
  skew,        \* what the browser's clock adds to it
  rows,        \* the rows in the order they were stamped
  settings,    \* the stored dashboard settings: notifications on, and for which marks
  polling,     \* the browser's poll timer is set
  cursor,
  centre,      \* the notification centre: its entries, newest first, the alerts it has seen, what
               \*   the badge and the list show, whether the list is open
  polls,       \* the polls under way, in the order they were sent
  told,        \* history: the alerts a toast was shown for
  began,       \* history: the cursor polling started with
  late,        \* history: rows committed after a row with their stamp or a later one
  cut,         \* history: alerts an answer had no room for
  crowded,     \* history: rows an answer did not read, RowLimit rows being older
  altered,     \* history: the settings changed since the polls under way were sent, or since
               \*   polling started
  turns

alertVars == <<clock, skew, rows, settings, polling, cursor, centre, polls, told, began, late,
               cut, crowded, altered, turns>>

centreVars == <<skew, polling, cursor, centre, polls, told, began, cut, crowded, altered, turns>>

Turn == turns < MaxTurns /\ turns' = turns + 1

SettingsSet == [on : BOOLEAN, marks : SUBSET Mark]

-----------------------------------------------------------------------------
\* The feed.  _alert_kind: what of a row is worth an alert.
AlertKind(r) == rows[r].marks \cap settings.marks

Earlier(r, s) == rows[r].at < rows[s].at \/ (rows[r].at = rows[s].at /\ r < s)

First(n, found) == {r \in found : Cardinality({s \in found : Earlier(s, r)}) < n}
LastOf(n, found) == {r \in found : Cardinality({s \in found : Earlier(r, s)}) < n}

\* Mutated: the audit table is not asked.
SinceInLog(source, since) ==
  {r \in DOMAIN rows : /\ rows[r].committed /\ rows[r].source = source /\ source = "log"
                       /\ rows[r].at > since}

\* What a query reads of a table, alerts or not, and what it leaves.
Since(source, since) ==
  {r \in DOMAIN rows : rows[r].committed /\ rows[r].source = source /\ rows[r].at > since}
RowsRead(since) == UNION {First(RowLimit, Since(source, since)) : source \in Source}
RowsLeft(since) == (UNION {Since(source, since) : source \in Source}) \ RowsRead(since)

\* get_dashboard_alerts: of the alerts among the rows it reads, the last ones.
Alerts(since) == {r \in RowsRead(since) : AlertKind(r) # {}}
Feed(since) ==
  IF ~settings.on THEN Disabled
  ELSE IF settings.marks = {} THEN {} ELSE LastOf(Limit, Alerts(since))

\* A row is stamped when its service has decided, and committed later.
StampRow(source, marks) ==
  /\ Len(rows) < MaxRows
  /\ rows' = Append(rows, [at |-> clock, source |-> source, marks |-> marks,
                           committed |-> FALSE])
  /\ UNCHANGED <<clock, settings, late>> /\ UNCHANGED centreVars

CommitRow(r) ==
  /\ ~rows[r].committed
  /\ rows' = [rows EXCEPT ![r].committed = TRUE]
  /\ late' = IF \E s \in DOMAIN rows : rows[s].committed /\ rows[s].at >= rows[r].at
             THEN late \cup {r} ELSE late
  /\ UNCHANGED <<clock, settings>> /\ UNCHANGED centreVars

TickClock ==
  /\ clock < MaxClock
  /\ clock' = clock + 1
  /\ UNCHANGED <<rows, settings, late>> /\ UNCHANGED centreVars

\* A save or a reset of the configuration, by this console or another.
ChangeSettings(s) ==
  /\ s # settings
  /\ settings' = s
  /\ altered' = TRUE
  /\ Turn
  /\ UNCHANGED <<clock, skew, rows, polling, cursor, centre, polls, told, began, late, cut,
                 crowded>>

-----------------------------------------------------------------------------
\* The notification centre.  updateNotificationUi: the badge counts the unread entries, and an open
\* list is drawn again.
Unread(inbox) == Cardinality({i \in DOMAIN inbox : ~inbox[i].read})
Shown(c) == [c EXCEPT !.badge = Unread(c.inbox), !.list = IF c.open THEN c.inbox ELSE <<>>]

\* Mutated: an entry pushed out of the inbox stays one that was seen.
AddNotificationRemembers(r, state) ==
  LET c == state.centre
      inbox == <<[row |-> r, read |-> FALSE]>> \o c.inbox
      kept == SubSeq(inbox, 1, Min({MaxInbox, Len(inbox)}))
  IN  IF r \in c.seen \/ \E i \in DOMAIN c.inbox : c.inbox[i].row = r
      THEN state
      ELSE [state EXCEPT !.centre = Shown([c EXCEPT !.inbox = kept, !.seen = @ \cup {r}]),
                         !.told = @ \cup {r},
                         !.cursor = Max({@, rows[r].at})]

\* addNotification of one alert of an answer, and the cursor's move past it.  An entry pushed out of
\* the inbox is no longer one that was seen.
AddNotification(r, state) ==
  LET c == state.centre
      inbox == <<[row |-> r, read |-> FALSE]>> \o c.inbox
      kept == SubSeq(inbox, 1, Min({MaxInbox, Len(inbox)}))
      pushedOut == SubSeq(inbox, Len(kept) + 1, Len(inbox))
      seen == (c.seen \cup {r}) \ {pushedOut[i].row : i \in DOMAIN pushedOut}
  IN  IF r \in c.seen \/ \E i \in DOMAIN c.inbox : c.inbox[i].row = r
      THEN state
      ELSE [state EXCEPT !.centre = Shown([c EXCEPT !.inbox = kept, !.seen = seen]),
                         !.told = @ \cup {r},
                         !.cursor = Max({@, rows[r].at})]

Latest(found) == CHOOSE r \in LastOf(1, found) : TRUE

\* clearNotificationInbox, which closes the list.
Cleared == [inbox |-> <<>>, seen |-> {}, badge |-> 0, list |-> <<>>, open |-> FALSE]

\* pollDashboardAlerts asks for what is new since the cursor ...
SendPoll(since) ==
  /\ Len(polls) < MaxPolls
  /\ polls' = Append(polls, [since |-> since, answer |-> NoAnswer])

Poll ==
  /\ polling /\ SendPoll(cursor)
  /\ UNCHANGED <<clock, skew, rows, settings, polling, cursor, centre, told, began, late, cut,
                 crowded, altered, turns>>

AnswerPoll(i) ==
  /\ polls[i].answer = NoAnswer
  /\ UNCHANGED <<clock, skew, rows, settings, polling, cursor, centre, told, began, late, altered,
                 turns>>
  /\ polls' = [polls EXCEPT ![i].answer = Feed(polls[i].since)]
  /\ IF settings.on /\ settings.marks # {}
     THEN /\ cut' = cut \cup (Alerts(polls[i].since) \ Feed(polls[i].since))
          /\ crowded' = crowded \cup RowsLeft(polls[i].since)
     ELSE UNCHANGED <<cut, crowded>>

\* Mutated: the cursor is moved to the time of the answer.
ReceivePollNow(i) ==
  LET answer == polls[i].answer
      state == [centre |-> centre, told |-> told, cursor |-> cursor]
      after == IF answer = Disabled THEN state
               ELSE MapThenFoldSet(AddNotification, state, LAMBDA r : r, Latest, answer)
  IN  /\ answer # NoAnswer
      /\ UNCHANGED <<clock, skew, rows, settings, polling, began, late, cut, crowded, altered,
                     turns>>
      /\ polls' = RemoveAt(polls, i)
      /\ centre' = after.centre /\ told' = after.told /\ cursor' = clock

\* ... takes the alerts of the answer one after another; an answer that outlived the polling that
\* asked for it is taken like any other ...
ReceivePoll(i) ==
  LET answer == polls[i].answer
      state == [centre |-> centre, told |-> told, cursor |-> cursor]
      after == IF answer = Disabled THEN state
               ELSE MapThenFoldSet(AddNotification, state, LAMBDA r : r, Latest, answer)
  IN  /\ answer # NoAnswer
      /\ UNCHANGED <<clock, skew, rows, settings, polling, began, late, cut, crowded, altered,
                     turns>>
      /\ polls' = RemoveAt(polls, i)
      /\ centre' = after.centre /\ told' = after.told /\ cursor' = after.cursor

\* ... and ignores an error.
FailPoll(i) ==
  /\ polls' = RemoveAt(polls, i)
  /\ Turn
  /\ UNCHANGED <<clock, skew, rows, settings, polling, cursor, centre, told, began, late, cut,
                 crowded, altered>>

\* startNotificationPolling, on connecting, after a reload and after a save: the cursor becomes the
\* time of the browser, whose clock need not be the services'; the configuration the browser has
\* just been given, which may have been replaced since, says whether to poll.
StartPolling(config) ==
  /\ Turn
  /\ cursor' = clock + skew /\ began' = cursor'
  /\ centre' = Cleared
  /\ altered' = (altered /\ polls # <<>>)
  /\ IF config.on /\ config.marks # {}
     THEN polling' = TRUE /\ SendPoll(cursor')
     ELSE polling' = FALSE /\ UNCHANGED polls
  /\ UNCHANGED <<clock, skew, rows, settings, told, late, cut, crowded>>

\* stopNotificationPolling, when the login screen appears; polls under way are not cancelled.
StopPolling ==
  /\ Turn
  /\ centre' = Cleared
  /\ polling' = FALSE
  /\ UNCHANGED <<clock, skew, rows, settings, cursor, polls, told, began, late, cut, crowded,
                 altered>>

\* The operator opens the list, closes it, and marks one entry or all as read.
CentreTo(c) ==
  /\ c # centre
  /\ centre' = c
  /\ UNCHANGED <<clock, skew, rows, settings, polling, cursor, polls, told, began, late, cut,
                 crowded, altered, turns>>

OpenList == ~centre.open /\ CentreTo([centre EXCEPT !.open = TRUE, !.list = centre.inbox])
CloseList == centre.open /\ CentreTo([centre EXCEPT !.open = FALSE, !.list = <<>>])

\* A click on an entry of the list marks the entry of the inbox that has its key.
MarkRead(i) ==
  /\ centre.open
  /\ \E j \in DOMAIN centre.inbox :
       /\ centre.inbox[j].row = centre.list[i].row /\ ~centre.inbox[j].read
       /\ CentreTo(Shown([centre EXCEPT !.inbox[j].read = TRUE]))

MarkAllRead ==
  /\ centre.open /\ Unread(centre.inbox) > 0
  /\ CentreTo(Shown([centre EXCEPT !.inbox =
                       [i \in DOMAIN centre.inbox |-> [centre.inbox[i] EXCEPT !.read = TRUE]]]))

-----------------------------------------------------------------------------
AlertInit ==
  /\ clock = 1 /\ skew \in Skew /\ rows = <<>>
  /\ settings = [on |-> TRUE, marks |-> Mark]
  /\ polling = FALSE /\ cursor = NoCursor /\ began = NoCursor
  /\ centre = Cleared
  /\ polls = <<>>
  /\ told = {} /\ late = {} /\ cut = {} /\ crowded = {} /\ altered = FALSE
  /\ turns = 0

AlertNext ==
  \/ \E source \in Source, marks \in SUBSET Mark : StampRow(source, marks)
  \/ \E r \in DOMAIN rows : CommitRow(r)
  \/ TickClock
  \/ \E s \in SettingsSet : ChangeSettings(s)
  \/ Poll
  \/ \E i \in DOMAIN polls : AnswerPoll(i) \/ ReceivePoll(i) \/ FailPoll(i)
  \/ \E config \in SettingsSet : StartPolling(config)
  \/ StopPolling
  \/ OpenList \/ CloseList \/ MarkAllRead
  \/ \E i \in DOMAIN centre.list : MarkRead(i)

\* The timer fires while polling, the server answers and the browser takes the answer: of the polls
\* under way, some poll always gets on.
PollStep == Poll \/ \E i \in DOMAIN polls : AnswerPoll(i) \/ ReceivePoll(i)

AlertSpec == AlertInit /\ [][AlertNext]_alertVars /\ WF_alertVars(PollStep)

-----------------------------------------------------------------------------
\* What the cursor has passed is not lost: an alert stamped after polling started and not after the
\* cursor has been shown, except one that was committed late, had no room in an answer, was not read
\* because of older rows of its table, or was not wanted by the settings for a time.
NoAlertSkipped ==
  cursor # NoCursor /\ ~altered =>
    \A r \in DOMAIN rows :
      rows[r].committed /\ AlertKind(r) # {} /\ settings.on
        /\ began < rows[r].at /\ rows[r].at <= cursor
      => r \in told \cup late \cup cut \cup crowded

\* An alert is in the inbox once, whatever answers overlap; the inbox does not outgrow its limit;
\* what is remembered as seen is what it holds, so that an alert pushed out or cleared can be shown
\* again; and the badge and an open list show it as it is, whoever changed it last.
CentreAgrees ==
  /\ IsInjective([i \in DOMAIN centre.inbox |-> centre.inbox[i].row])
  /\ Len(centre.inbox) <= MaxInbox
  /\ centre.seen = {centre.inbox[i].row : i \in DOMAIN centre.inbox}
  /\ centre.badge = Unread(centre.inbox)
  /\ centre.open => centre.list = centre.inbox

\* No alert is owed for ever: one that is committed while the browser polls is shown, unless polling
\* is stopped or started anew, the settings change, or it is one of those NoAlertSkipped excepts.
Owed ==
  {r \in DOMAIN rows : /\ polling /\ settings.on /\ ~altered
                       /\ rows[r].committed /\ AlertKind(r) # {} /\ began < rows[r].at
                       /\ r \notin told \cup late \cup cut \cup crowded}
AlertsArrive == []<>(Owed = {})
=============================================================================
