----------------------------- MODULE ConsolePage -----------------------------
(* The page of the admin console in one browser: connecting with a key, the tabs, the language,   *)
(* the refresh timer of the dashboard, and the two boxes filled by answers: the metrics and the   *)
(* state of the blocklist.  A connection is a handler that awaits four answers; the login screen  *)
(* stays usable while it does, so connections overlap, and the language can change under them.    *)
(* A request carries the key the page has when it is sent.                                        *)
EXTENDS Integers, SequencesExt

CONSTANTS
  Key, NoKey,   \* what may be typed as a key, what an empty input gives
  GoodKey,      \* the key the server accepts
  Timeframe, DefaultTimeframe, NoMetrics,
  MaxConnects, MaxLoads, MaxPageTurns   \* bounds: connections and loads under way, turns in a run

ASSUME PageAssumption ==
  /\ GoodKey \in Key /\ NoKey \notin Key
  /\ DefaultTimeframe \in Timeframe /\ NoMetrics \notin Timeframe
  /\ {MaxConnects, MaxPageTurns} \subseteq Nat
  /\ MaxLoads \in Nat \ {0}   \* the page asks for metrics as it is opened

VARIABLES
  screen,        \* "login" or "app"
  apiKey,        \* the key requests are made with
  storedKey,     \* the key in the storage of the session
  connects,      \* the connections under way: what each awaits, the key it was asked with, whether
                 \*   the blocklist box it will fill is still there
  active,        \* the active tab
  timer,         \* the refresh timer of the dashboard is set
  auto,          \* the box "refresh automatically" is checked
  timeframe, metrics,
  loads,         \* the requests for metrics under way, in the order they were sent
  box,           \* what the blocklist box shows
  boxReads,      \* the requests for it under way: their key, whether the box they fill is there
  overlapped,    \* history: another connection was under way when the last one began
  strayed,       \* history: metrics came after a later request's, or the last request failed
  pageTurns

connectVars == <<screen, apiKey, storedKey, connects, overlapped>>
dashVars == <<timer, auto, timeframe, metrics, loads, strayed>>
boxVars == <<box, boxReads>>
pageVars == <<connectVars, active, dashVars, boxVars, pageTurns>>

Tabs == {"dashboard", "aml", "other"}
Awaits == {"status", "config", "audit", "box"}
BoxStates == {"loading", "status", "error"}

PageTurn == pageTurns < MaxPageTurns /\ pageTurns' = pageTurns + 1

-----------------------------------------------------------------------------
\* loadDashboard, of the timeframe that is selected; loadBlocklistStatus.
MetricsOf(selected, key) == [timeframe |-> selected, key |-> key, overtaken |-> FALSE]
LoadDashboard(sent) == Len(loads) + Len(sent) <= MaxLoads /\ loads' = loads \o sent
BoxRead(key) == [key |-> key, here |-> TRUE]

\* The answer for the blocklist box goes into the box the request was made for.
FillBox(request) ==
  \E shows \in {"status", "error"} :
    /\ shows = "status" => request.key = GoodKey
    /\ box' = IF request.here THEN shows ELSE box

\* buildTabs makes everything anew: the selections of the dashboard, whose metrics are loaded at
\* once but whose timer is left alone, the panel not being on the page yet, and the blocklist box,
\* which the requests under way will not fill.
Rebuilt == auto' = TRUE /\ timeframe' = DefaultTimeframe /\ metrics' = NoMetrics /\ box' = "loading"
Orphaned(requests) == [i \in DOMAIN requests |-> [requests[i] EXCEPT !.here = FALSE]]

\* Mutated: a tab that is left does not stop the timer.
TimerOfKept(panel, checked) == IF panel = "dashboard" THEN checked \/ timer ELSE timer

\* activateTab starts the timer of the dashboard or stops it, and loads what the tab shows.
TimerOf(panel, checked) == IF panel = "dashboard" THEN checked \/ timer ELSE FALSE

ActivateTab(panel) ==
  /\ screen = "app" /\ PageTurn
  /\ active' = panel /\ timer' = TimerOf(panel, auto)
  /\ LoadDashboard(IF panel = "dashboard" THEN <<MetricsOf(timeframe, apiKey)>> ELSE <<>>)
  /\ boxReads' = boxReads \o IF panel = "aml" THEN <<BoxRead(apiKey)>> ELSE <<>>
  /\ UNCHANGED <<auto, timeframe, metrics, strayed, box>> /\ UNCHANGED connectVars

\* Mutated: only activateTab's dashboard is loaded again, the box built anew is not.
ChangeLocaleBare ==
  /\ PageTurn
  /\ Rebuilt /\ timer' = TimerOf(active, TRUE)
  /\ LoadDashboard(<<MetricsOf(DefaultTimeframe, apiKey)>>)
  /\ boxReads' = Orphaned(boxReads) /\ connects' = Orphaned(connects)
  /\ UNCHANGED <<active, strayed, screen, apiKey, storedKey, overlapped>>

\* changeLocale builds the tabs anew and activates the one that was active; the blocklist box is
\* loaded by activateTab and once more.
ChangeLocale ==
  LET load == <<MetricsOf(DefaultTimeframe, apiKey)>>
  IN  /\ PageTurn
      /\ Rebuilt /\ timer' = TimerOf(active, TRUE)
      /\ LoadDashboard(load \o IF active = "dashboard" THEN load ELSE <<>>)
      /\ boxReads' = Orphaned(boxReads)
                     \o IF active = "aml" THEN <<BoxRead(apiKey), BoxRead(apiKey)>> ELSE <<>>
      /\ connects' = Orphaned(connects)
      /\ UNCHANGED <<active, strayed, screen, apiKey, storedKey, overlapped>>

-----------------------------------------------------------------------------
Awaiting(what, key) == [awaits |-> what, key |-> key, here |-> TRUE]

\* connect: the key that was typed becomes the page's, and the status is asked for without it.
Connect(key) ==
  /\ screen = "login" /\ PageTurn
  /\ apiKey' = key
  /\ IF key = NoKey THEN UNCHANGED connects
     ELSE /\ Len(connects) < MaxConnects
          /\ connects' = Append(connects, Awaiting("status", key))
  /\ overlapped' = (connects # <<>>)
  /\ UNCHANGED <<screen, storedKey, active>> /\ UNCHANGED dashVars /\ UNCHANGED boxVars

\* A request of it fails, a server without a key among the reasons when it is the status that was
\* asked for, or its key is not accepted: the login screen.
Accepted(i) == connects[i].awaits \in {"status", "box"} \/ connects[i].key = GoodKey

ConnectFails(i) ==
  /\ connects[i].awaits # "box"
  /\ IF Accepted(i) THEN PageTurn ELSE UNCHANGED pageTurns
  /\ connects' = RemoveAt(connects, i)
  /\ screen' = "login"
  /\ \/ storedKey' = NoKey
     \/ connects[i].awaits = "status" /\ storedKey' = storedKey
  /\ UNCHANGED <<apiKey, overlapped, active>> /\ UNCHANGED dashVars /\ UNCHANGED boxVars

\* Mutated: the application is shown once the status is there.
ConnectStatusShows(i) ==
  /\ connects[i].awaits = "status"
  /\ connects' = [Orphaned(connects) EXCEPT ![i] = Awaiting("config", apiKey)]
  /\ storedKey' = apiKey /\ screen' = "app"
  /\ Rebuilt /\ active' = "dashboard" /\ boxReads' = Orphaned(boxReads)
  /\ LoadDashboard(<<MetricsOf(DefaultTimeframe, apiKey)>>)
  /\ UNCHANGED <<apiKey, overlapped, timer, strayed, pageTurns>>

\* The status: the key of the page is stored, the tabs are built, the configuration is asked for.
ConnectStatus(i) ==
  /\ connects[i].awaits = "status"
  /\ connects' = [Orphaned(connects) EXCEPT ![i] = Awaiting("config", apiKey)]
  /\ storedKey' = apiKey
  /\ Rebuilt /\ active' = "dashboard" /\ boxReads' = Orphaned(boxReads)
  /\ LoadDashboard(<<MetricsOf(DefaultTimeframe, apiKey)>>)
  /\ UNCHANGED <<screen, apiKey, overlapped, timer, strayed, pageTurns>>

\* The configuration, then the audit entries, after which the blocklist box is loaded.
ConnectConfig(i) ==
  /\ connects[i].awaits = "config" /\ Accepted(i)
  /\ connects' = [connects EXCEPT ![i] = Awaiting("audit", apiKey)]
  /\ UNCHANGED <<screen, apiKey, storedKey, overlapped, active, pageTurns>>
  /\ UNCHANGED dashVars /\ UNCHANGED boxVars

ConnectAudit(i) ==
  /\ connects[i].awaits = "audit" /\ Accepted(i)
  /\ connects' = [connects EXCEPT ![i] = Awaiting("box", apiKey)]
  /\ UNCHANGED <<screen, apiKey, storedKey, overlapped, active, pageTurns>>
  /\ UNCHANGED dashVars /\ UNCHANGED boxVars

\* The blocklist box has been loaded, or not: the application is shown, on its dashboard.
ConnectShown(i) ==
  /\ connects[i].awaits = "box" /\ connects' = RemoveAt(connects, i)
  /\ FillBox(connects[i]) /\ UNCHANGED boxReads
  /\ screen' = "app"
  /\ active' = "dashboard" /\ timer' = TimerOf("dashboard", auto)
  /\ LoadDashboard(<<MetricsOf(timeframe, apiKey)>>)
  /\ UNCHANGED <<apiKey, storedKey, overlapped, auto, timeframe, metrics, strayed, pageTurns>>

\* The page is loaded anew: the login screen, over tabs that are built and load with the stored key.
ReloadPage ==
  /\ PageTurn
  /\ screen' = "login" /\ apiKey' = storedKey /\ connects' = <<>> /\ overlapped' = FALSE
  /\ active' = "dashboard" /\ timer' = FALSE /\ Rebuilt
  /\ loads' = <<MetricsOf(DefaultTimeframe, storedKey)>> /\ strayed' = FALSE
  /\ boxReads' = <<>>
  /\ UNCHANGED storedKey

-----------------------------------------------------------------------------
\* The dashboard: a timeframe is selected, the refresh button, the timer, the box that sets it.
OnDashboard == screen = "app" /\ active = "dashboard"

SelectTimeframe(selected) ==
  /\ OnDashboard /\ PageTurn
  /\ timeframe' = selected
  /\ LoadDashboard(<<MetricsOf(selected, apiKey)>>)
  /\ UNCHANGED <<active, timer, auto, metrics, strayed>>
  /\ UNCHANGED connectVars /\ UNCHANGED boxVars

Refresh ==
  /\ timer /\ PageTurn
  /\ LoadDashboard(<<MetricsOf(timeframe, apiKey)>>)
  /\ UNCHANGED <<active, timer, auto, timeframe, metrics, strayed>>
  /\ UNCHANGED connectVars /\ UNCHANGED boxVars

ToggleAuto ==
  /\ OnDashboard /\ PageTurn
  /\ auto' = ~auto /\ timer' = auto'
  /\ UNCHANGED <<active, timeframe, metrics, loads, strayed>>
  /\ UNCHANGED connectVars /\ UNCHANGED boxVars

\* An answer is drawn whatever is selected by then.  One with a key that is not accepted, or that is
\* lost, leaves the metrics.
SettleLoad(i) ==
  loads' = RemoveAt([j \in DOMAIN loads |-> [loads[j] EXCEPT !.overtaken = @ \/ j < i]], i)

TakeMetrics(i) ==
  /\ loads[i].key = GoodKey /\ SettleLoad(i)
  /\ metrics' = loads[i].timeframe
  /\ strayed' = IF loads[i].overtaken THEN TRUE ELSE IF i = Len(loads) THEN FALSE ELSE strayed
  /\ UNCHANGED <<active, timer, auto, timeframe, pageTurns>>
  /\ UNCHANGED connectVars /\ UNCHANGED boxVars

MetricsFail(i) ==
  /\ IF loads[i].key = GoodKey THEN PageTurn ELSE UNCHANGED pageTurns
  /\ SettleLoad(i)
  /\ strayed' = (strayed \/ i = Len(loads))
  /\ UNCHANGED <<active, timer, auto, timeframe, metrics>>
  /\ UNCHANGED connectVars /\ UNCHANGED boxVars

\* The reload button and the synchronisation button end in loading the blocklist box.
LoadBox ==
  /\ screen = "app" /\ PageTurn
  /\ boxReads' = Append(boxReads, BoxRead(apiKey))
  /\ UNCHANGED <<active, box>> /\ UNCHANGED connectVars /\ UNCHANGED dashVars

\* An answer of loadBlocklistStatus.
TakeBox(i) ==
  /\ boxReads' = RemoveAt(boxReads, i)
  /\ FillBox(boxReads[i])
  /\ UNCHANGED <<active, pageTurns>> /\ UNCHANGED connectVars /\ UNCHANGED dashVars

-----------------------------------------------------------------------------
PageInit ==
  /\ screen = "login" /\ apiKey = NoKey /\ storedKey = NoKey /\ connects = <<>>
  /\ overlapped = FALSE
  /\ active = "dashboard" /\ timer = FALSE /\ auto = TRUE
  /\ timeframe = DefaultTimeframe /\ metrics = NoMetrics /\ strayed = FALSE
  /\ loads = <<MetricsOf(DefaultTimeframe, NoKey)>>
  /\ box = "loading" /\ boxReads = <<>>
  /\ pageTurns = 0

PageNext ==
  \/ \E panel \in Tabs : ActivateTab(panel)
  \/ \E key \in Key \cup {NoKey} : Connect(key)
  \/ \E i \in DOMAIN connects :
       \/ ConnectStatus(i) \/ ConnectConfig(i) \/ ConnectAudit(i) \/ ConnectShown(i)
       \/ ConnectFails(i)
  \/ \E selected \in Timeframe : SelectTimeframe(selected)
  \/ ChangeLocale \/ ReloadPage \/ Refresh \/ ToggleAuto \/ LoadBox
  \/ \E i \in DOMAIN loads : TakeMetrics(i) \/ MetricsFail(i)
  \/ \E i \in DOMAIN boxReads : TakeBox(i)

PageSpec == PageInit /\ [][PageNext]_pageVars

-----------------------------------------------------------------------------
\* The application is shown only with a key the server accepts, which is the one that is stored,
\* unless two connections overlapped: the key is the page's, not the connection's.
AppHasKey ==
  screen = "app" /\ ~overlapped => apiKey = GoodKey /\ storedKey = GoodKey

\* Once connected, the dashboard refreshes itself while it is the active tab and its box is checked,
\* and only then, whatever tabs and languages were chosen before and however often the page
\* connected: no timer is left behind, none is missing.
RefreshOnDashboard ==
  screen = "app" /\ connects = <<>> => (timer <=> active = "dashboard" /\ auto)

\* What answers fill shows what is asked for: with no request under way the metrics are of the
\* selected timeframe, unless answers came in another order than the requests or the last request
\* failed; and the blocklist tab does not show a box that waits for nothing.
AnswersShown ==
  /\ loads = <<>> /\ ~strayed => metrics \in {timeframe, NoMetrics}
  /\ screen = "app" /\ active = "aml" /\ (\A i \in DOMAIN boxReads : ~boxReads[i].here)
       => box # "loading"

\* A type invariant.
PageTypeOK ==
  /\ screen \in {"login", "app"} /\ {apiKey, storedKey} \subseteq Key \cup {NoKey}
  /\ \A i \in DOMAIN connects :
       connects[i] \in [awaits : Awaits, key : Key \cup {NoKey}, here : BOOLEAN]
  /\ active \in Tabs /\ timer \in BOOLEAN /\ auto \in BOOLEAN
  /\ timeframe \in Timeframe /\ metrics \in Timeframe \cup {NoMetrics}
  /\ box \in BoxStates /\ Len(loads) <= MaxLoads
=============================================================================
