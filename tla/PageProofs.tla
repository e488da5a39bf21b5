----------------------------- MODULE PageProofs -----------------------------
(* The page the administrator works with, for any number of requests under way, any log and any   *)
(* page sizes: the connection, the dashboard and its timer first, then the log viewer, then the   *)
(* alerts.  Requests are answered in any order, so the invariants say of a request under way what *)
(* it asks for and whether a later one has been settled before it.                                *)
EXTENDS ConsolePage, LogViewer, AlertFeed, FiniteSetTheorems, SequenceTheorems,
  WellFoundedInduction, TLAPS

\* An element is removed from a sequence, as when an answer has been taken from the requests under
\* way: those after it move up.
LEMMA Removed ==
  ASSUME NEW S, NEW s \in Seq(S), NEW i \in DOMAIN s
  PROVE  /\ RemoveAt(s, i) \in Seq(S) /\ Len(RemoveAt(s, i)) = Len(s) - 1
         /\ DOMAIN RemoveAt(s, i) = 1..(Len(s) - 1)
         /\ \A j \in 1..(Len(s) - 1) : RemoveAt(s, i)[j] = IF j < i THEN s[j] ELSE s[j + 1]
<1> DEFINE a == SubSeq(s, 1, i - 1)
           b == SubSeq(s, i + 1, Len(s))
<1>1. Len(s) \in Nat /\ i \in 1..Len(s)
  OBVIOUS
<1>2. a \in Seq(S) /\ Len(a) = i - 1 /\ \A j \in 1..(i - 1) : a[j] = s[j]
  BY <1>1, SubSeqProperties
<1>3. b \in Seq(S) /\ Len(b) = Len(s) - i /\ \A j \in 1..(Len(s) - i) : b[j] = s[i + j]
  BY <1>1, SubSeqProperties
<1> HIDE DEF a, b
<1>4. /\ a \o b \in Seq(S) /\ Len(a \o b) = Len(s) - 1
      /\ \A j \in 1..(Len(s) - 1) : (a \o b)[j] = IF j < i THEN s[j] ELSE s[j + 1]
  BY <1>1, <1>2, <1>3
<1>5. RemoveAt(s, i) = a \o b
  BY DEF RemoveAt, a, b
<1> QED BY <1>1, <1>4, <1>5

\* Requests under way all have what some of them have still after one is answered.
LEMMA RemovedElement ==
  ASSUME NEW S, NEW s \in Seq(S), NEW i \in DOMAIN s
  PROVE  /\ \A j \in DOMAIN RemoveAt(s, i) : \E k \in DOMAIN s : RemoveAt(s, i)[j] = s[k]
         /\ \A k \in DOMAIN s : k # i => \E j \in DOMAIN RemoveAt(s, i) : RemoveAt(s, i)[j] = s[k]
<1>1. Len(s) \in Nat /\ i \in 1..Len(s) /\ DOMAIN s = 1..Len(s)
  OBVIOUS
<1>2. /\ DOMAIN RemoveAt(s, i) = 1..(Len(s) - 1)
      /\ \A j \in 1..(Len(s) - 1) : RemoveAt(s, i)[j] = IF j < i THEN s[j] ELSE s[j + 1]
  BY Removed
<1>3. ASSUME NEW j \in DOMAIN RemoveAt(s, i)
      PROVE  \E k \in DOMAIN s : RemoveAt(s, i)[j] = s[k]
  <2>1. CASE j < i
    BY <1>1, <1>2, <2>1
  <2>2. CASE ~(j < i)
    <3>1. j + 1 \in DOMAIN s /\ RemoveAt(s, i)[j] = s[j + 1]
      BY <1>1, <1>2, <2>2
    <3> QED BY <3>1
  <2> QED BY <2>1, <2>2
<1>4. ASSUME NEW k \in DOMAIN s, k # i
      PROVE  \E j \in DOMAIN RemoveAt(s, i) : RemoveAt(s, i)[j] = s[k]
  <2>1. CASE k < i
    BY <1>1, <1>2, <2>1
  <2>2. CASE ~(k < i)
    <3>1. k - 1 \in DOMAIN RemoveAt(s, i) /\ RemoveAt(s, i)[k - 1] = s[k]
      BY <1>1, <1>2, <1>4, <2>2
    <3> QED BY <3>1
  <2> QED BY <2>1, <2>2
<1> QED BY <1>3, <1>4


\* Requests under way, in the order they were sent: one that is settled marks those before it.
Marks(s, i, marked) ==
  /\ DOMAIN marked = DOMAIN s /\ Len(marked) = Len(s)
  /\ \A j \in DOMAIN s : marked[j].overtaken <=> s[j].overtaken \/ j < i
OvertakenFirst(s) == \A i, j \in DOMAIN s : i < j /\ s[j].overtaken => s[i].overtaken

LEMMA SettledOvertakes ==
  ASSUME NEW R, NEW s \in Seq(R), NEW marked \in Seq(R), NEW i \in DOMAIN s,
         Marks(s, i, marked), OvertakenFirst(s),
         NEW left, left = RemoveAt(marked, i)
  PROVE  /\ left \in Seq(R) /\ Len(left) = Len(s) - 1 /\ OvertakenFirst(left)
         /\ i = Len(s) /\ left # <<>> => left[Len(left)].overtaken
         /\ i # Len(s) => /\ left # <<>> /\ s # <<>> /\ Len(s) \in DOMAIN s
                          /\ left[Len(left)] = marked[Len(s)]
                          /\ left[Len(left)].overtaken <=> s[Len(s)].overtaken
                          /\ s[Len(s)].overtaken => s[i].overtaken
<1>1. /\ Len(s) \in Nat /\ i \in 1..Len(s) /\ DOMAIN s = 1..Len(s)
      /\ DOMAIN marked = DOMAIN s /\ Len(marked) = Len(s)
      /\ \A j \in DOMAIN s : marked[j].overtaken <=> s[j].overtaken \/ j < i
  BY DEF Marks
<1>2. /\ left \in Seq(R) /\ Len(left) = Len(s) - 1 /\ DOMAIN left = 1..(Len(s) - 1)
      /\ \A j \in 1..(Len(s) - 1) : left[j] = IF j < i THEN marked[j] ELSE marked[j + 1]
  BY <1>1, Removed
<1>3. \A j \in DOMAIN left :
        /\ j < i => left[j].overtaken
        /\ ~(j < i) => j + 1 \in DOMAIN s /\ (left[j].overtaken <=> s[j + 1].overtaken)
  BY <1>1, <1>2
<1>4. ASSUME NEW j \in DOMAIN left, NEW k \in DOMAIN left, j < k, left[k].overtaken
      PROVE  left[j].overtaken
  <2>1. CASE j < i
    BY <1>3, <2>1
  <2>2. CASE ~(j < i)
    <3>1. ~(k < i) /\ j + 1 < k + 1 /\ j + 1 \in DOMAIN s /\ k + 1 \in DOMAIN s
      BY <1>1, <1>2, <1>3, <1>4, <2>2
    <3> QED BY <1>3, <1>4, <2>2, <3>1 DEF OvertakenFirst
  <2> QED BY <2>1, <2>2
<1>5. ASSUME i = Len(s), left # <<>> PROVE left[Len(left)].overtaken
  BY <1>1, <1>2, <1>3, <1>5
<1>6. ASSUME i # Len(s)
      PROVE  /\ left # <<>> /\ s # <<>> /\ Len(s) \in DOMAIN s
             /\ left[Len(left)] = marked[Len(s)]
             /\ left[Len(left)].overtaken <=> s[Len(s)].overtaken
             /\ s[Len(s)].overtaken => s[i].overtaken
  <2>1. /\ s # <<>> /\ left # <<>> /\ Len(left) \in DOMAIN left /\ ~(Len(left) < i)
        /\ Len(left) + 1 = Len(s) /\ Len(s) \in DOMAIN s /\ i < Len(s)
    BY <1>1, <1>2, <1>6
  <2>2. left[Len(left)].overtaken <=> s[Len(s)].overtaken
    BY <1>3, <2>1
  <2>3. s[Len(s)].overtaken => s[i].overtaken
    BY <2>1 DEF OvertakenFirst
  <2> QED BY <1>2, <2>1, <2>2, <2>3
<1> QED BY <1>2, <1>4, <1>5, <1>6 DEF OvertakenFirst

-----------------------------------------------------------------------------
\* The connection and the dashboard.
AnyKey == Key \cup {NoKey}
Connection == [awaits : Awaits, key : AnyKey, here : BOOLEAN]
MetricsLoad == [timeframe : Timeframe, key : AnyKey, overtaken : BOOLEAN]
Boxed == [key : AnyKey, here : BOOLEAN]

PageTyped ==
  /\ screen \in {"login", "app"} /\ apiKey \in AnyKey /\ storedKey \in AnyKey
  /\ connects \in Seq(Connection)
  /\ overlapped \in BOOLEAN /\ strayed \in BOOLEAN
  /\ active \in Tabs /\ timer \in BOOLEAN /\ auto \in BOOLEAN
  /\ timeframe \in Timeframe /\ metrics \in Timeframe \cup {NoMetrics}
  /\ loads \in Seq(MetricsLoad)
  /\ box \in BoxStates /\ boxReads \in Seq(Boxed)

\* A connection alone: the login screen, the key of the page, stored from the status on, accepted
\* before the last answer.
OneConnection ==
  ~overlapped =>
    /\ screen = "app" => apiKey = GoodKey /\ storedKey = GoodKey
    /\ Len(connects) <= 1
    /\ \A i \in DOMAIN connects :
         /\ screen = "login" /\ connects[i].key = apiKey
         /\ connects[i].awaits # "status" => storedKey = apiKey
         /\ connects[i].awaits = "box" => apiKey = GoodKey

\* The timer is set for what is on the page, and unless a connection is under way it is set.
TimerSet ==
  /\ timer => auto /\ active = "dashboard"
  /\ screen = "app" /\ connects = <<>> /\ active = "dashboard" /\ auto => timer

\* The last request for metrics under way is for the selected timeframe, unless a later one has been
\* answered or has failed, as for all those before it.
LatestAsked ==
  /\ OvertakenFirst(loads)
  /\ loads # <<>> /\ ~loads[Len(loads)].overtaken => loads[Len(loads)].timeframe = timeframe
  /\ (loads # <<>> => loads[Len(loads)].overtaken) /\ ~strayed =>
       metrics \in {timeframe, NoMetrics}

\* A blocklist box that waits has its request.
BoxAwaited ==
  active = "aml" /\ box = "loading" => \E i \in DOMAIN boxReads : boxReads[i].here

PageInv == PageTyped /\ OneConnection /\ TimerSet /\ LatestAsked /\ BoxAwaited

LEMMA PageInitially == PageInit => PageInv
<1> SUFFICES ASSUME PageInit PROVE PageInv
  OBVIOUS
<1>1. /\ loads = <<MetricsOf(DefaultTimeframe, NoKey)>>
      /\ MetricsOf(DefaultTimeframe, NoKey) \in MetricsLoad
      /\ MetricsOf(DefaultTimeframe, NoKey).timeframe = DefaultTimeframe
      /\ MetricsOf(DefaultTimeframe, NoKey).overtaken = FALSE
  BY PageAssumption DEF PageInit, MetricsOf, MetricsLoad, AnyKey
<1>2. loads \in Seq(MetricsLoad) /\ Len(loads) = 1 /\ loads[1] = MetricsOf(DefaultTimeframe, NoKey)
  BY <1>1
<1>3. connects = <<>> /\ boxReads = <<>> /\ connects \in Seq(Connection) /\ boxReads \in Seq(Boxed)
  BY DEF PageInit
<1>4. PageTyped
  BY <1>2, <1>3, PageAssumption DEF PageInit, PageTyped, AnyKey, Tabs, BoxStates
<1>5. OneConnection /\ TimerSet /\ BoxAwaited
  BY <1>3 DEF PageInit, OneConnection, TimerSet, BoxAwaited
<1>6. LatestAsked
  BY <1>1, <1>2 DEF PageInit, LatestAsked, OvertakenFirst
<1> QED BY <1>4, <1>5, <1>6 DEF PageInv

-----------------------------------------------------------------------------
\* One or more requests for the metrics that are selected from now on join those under way.
LEMMA LoadsJoin ==
  ASSUME loads \in Seq(MetricsLoad), LatestAsked, NEW key \in AnyKey, timeframe' \in Timeframe,
         NEW sent, NEW n \in {1, 2}, sent = [i \in 1..n |-> MetricsOf(timeframe', key)],
         loads' = loads \o sent
  PROVE  loads' \in Seq(MetricsLoad) /\ LatestAsked'
<1> DEFINE m == MetricsOf(timeframe', key)
<1>1. m \in MetricsLoad /\ m.timeframe = timeframe' /\ m.overtaken = FALSE
  BY DEF MetricsOf, MetricsLoad
<1> HIDE DEF m
<1>2. sent \in Seq(MetricsLoad) /\ Len(sent) = n /\ \A i \in 1..n : sent[i] = m
  BY <1>1 DEF m
<1>3. Len(loads) \in Nat /\ DOMAIN loads = 1..Len(loads)
  OBVIOUS
<1>4. /\ loads' \in Seq(MetricsLoad) /\ Len(loads') = Len(loads) + n
      /\ \A i \in 1..Len(loads) : loads'[i] = loads[i]
      /\ \A i \in 1..n : loads'[Len(loads) + i] = m
  BY <1>2, <1>3
<1>5. /\ DOMAIN loads' = 1..(Len(loads) + n)
      /\ \A i \in DOMAIN loads' : IF i \in DOMAIN loads THEN loads'[i] = loads[i] ELSE loads'[i] = m
  <2>1. DOMAIN loads' = 1..(Len(loads) + n)
    BY <1>4
  <2>2. ASSUME NEW i \in DOMAIN loads', i \notin DOMAIN loads PROVE loads'[i] = m
    <3>1. i - Len(loads) \in 1..n /\ i = Len(loads) + (i - Len(loads))
      BY <1>3, <2>1, <2>2
    <3> QED BY <1>4, <3>1
  <2> QED BY <1>3, <1>4, <2>1, <2>2
<1>6. ASSUME NEW i \in DOMAIN loads', NEW j \in DOMAIN loads', i < j, loads'[j].overtaken
      PROVE  loads'[i].overtaken
  <2>1. j \in DOMAIN loads
    BY <1>1, <1>5, <1>6
  <2>2. i \in DOMAIN loads
    BY <1>3, <1>5, <1>6, <2>1
  <2> QED BY <1>5, <1>6, <2>1, <2>2 DEF LatestAsked, OvertakenFirst
<1>7. loads' # <<>> /\ loads'[Len(loads')] = m
  BY <1>3, <1>4
<1> QED BY <1>1, <1>4, <1>6, <1>7 DEF LatestAsked, OvertakenFirst

\* One of them is settled: those before it have been overtaken.
LEMMA LoadsSettle ==
  ASSUME loads \in Seq(MetricsLoad), LatestAsked, NEW i \in DOMAIN loads, SettleLoad(i),
         timeframe \in Timeframe, UNCHANGED timeframe, strayed' \in BOOLEAN,
         \/ /\ metrics' = loads[i].timeframe
            /\ strayed' = IF loads[i].overtaken THEN TRUE
                          ELSE IF i = Len(loads) THEN FALSE ELSE strayed
         \/ metrics' = metrics /\ strayed' = (strayed \/ i = Len(loads))
  PROVE  loads' \in Seq(MetricsLoad) /\ LatestAsked'
<1> DEFINE marked == [j \in DOMAIN loads |-> [loads[j] EXCEPT !.overtaken = @ \/ j < i]]
<1>1. Len(loads) \in Nat /\ i \in 1..Len(loads) /\ DOMAIN loads = 1..Len(loads)
  OBVIOUS
<1>2. ASSUME NEW j \in DOMAIN loads
      PROVE  /\ marked[j] \in MetricsLoad /\ marked[j].timeframe = loads[j].timeframe
             /\ marked[j].overtaken <=> loads[j].overtaken \/ j < i
  <2>1. loads[j] \in MetricsLoad
    OBVIOUS
  <2>2. PICK o \in BOOLEAN : o <=> loads[j].overtaken \/ j < i
    OBVIOUS
  <2>3. marked[j] = [loads[j] EXCEPT !.overtaken = o]
    BY <2>1, <2>2 DEF MetricsLoad
  <2> HIDE DEF marked
  <2> QED BY <2>1, <2>2, <2>3 DEF MetricsLoad
<1>3. marked \in Seq(MetricsLoad) /\ Len(marked) = Len(loads) /\ DOMAIN marked = DOMAIN loads
  <2>1. DOMAIN marked = 1..Len(loads)
    BY <1>1
  <2>2. \A j \in 1..Len(loads) : marked[j] \in MetricsLoad
    BY <1>1, <1>2
  <2>3. marked = [j \in 1..Len(loads) |-> marked[j]]
    BY <2>1
  <2> HIDE DEF marked
  <2> QED BY <1>1, <2>1, <2>2, <2>3
<1>4. loads' = RemoveAt(marked, i)
  BY DEF SettleLoad
<1>5. Marks(loads, i, marked)
  BY <1>2, <1>3 DEF Marks
<1> HIDE DEF marked
<1>6. /\ loads' \in Seq(MetricsLoad) /\ OvertakenFirst(loads')
      /\ i = Len(loads) /\ loads' # <<>> => loads'[Len(loads')].overtaken
      /\ i # Len(loads) => /\ loads' # <<>> /\ loads # <<>> /\ Len(loads) \in DOMAIN loads
                           /\ loads'[Len(loads')] = marked[Len(loads)]
                           /\ loads'[Len(loads')].overtaken <=> loads[Len(loads)].overtaken
                           /\ loads[Len(loads)].overtaken => loads[i].overtaken
  BY <1>3, <1>4, <1>5, SettledOvertakes DEF LatestAsked
<1>7. CASE i = Len(loads)
  <2>1. ~strayed' => metrics' = loads[i].timeframe /\ ~loads[i].overtaken
    BY <1>7
  <2>2. ~strayed' => metrics' = timeframe
    BY <1>1, <1>7, <2>1 DEF LatestAsked
  <2> QED BY <1>6, <1>7, <2>2 DEF LatestAsked
<1>8. CASE i # Len(loads)
  <2>1. loads'[Len(loads')].timeframe = loads[Len(loads)].timeframe
    BY <1>2, <1>6, <1>8
  <2>2. loads[Len(loads)].overtaken /\ ~strayed' => ~strayed /\ metrics' = metrics
    BY <1>6, <1>8
  <2> QED BY <1>6, <1>8, <2>1, <2>2 DEF LatestAsked
<1> QED BY <1>6, <1>7, <1>8

\* The requests of a page that is built anew do not fill what they were made for.
LEMMA OrphansTyped ==
  ASSUME connects \in Seq(Connection), boxReads \in Seq(Boxed)
  PROVE  /\ Orphaned(connects) \in Seq(Connection) /\ Len(Orphaned(connects)) = Len(connects)
         /\ DOMAIN Orphaned(connects) = DOMAIN connects
         /\ \A i \in DOMAIN connects : /\ Orphaned(connects)[i].key = connects[i].key
                                       /\ Orphaned(connects)[i].awaits = connects[i].awaits
         /\ Orphaned(boxReads) \in Seq(Boxed)
<1>1. ASSUME NEW i \in DOMAIN connects
      PROVE  /\ [connects[i] EXCEPT !.here = FALSE] \in Connection
             /\ [connects[i] EXCEPT !.here = FALSE].key = connects[i].key
             /\ [connects[i] EXCEPT !.here = FALSE].awaits = connects[i].awaits
  <2>1. connects[i] \in Connection
    OBVIOUS
  <2> QED BY <2>1 DEF Connection
<1>2. ASSUME NEW i \in DOMAIN boxReads PROVE [boxReads[i] EXCEPT !.here = FALSE] \in Boxed
  <2>1. boxReads[i] \in Boxed
    OBVIOUS
  <2> QED BY <2>1 DEF Boxed
<1>3. /\ Orphaned(connects) \in Seq(Connection) /\ Len(Orphaned(connects)) = Len(connects)
      /\ DOMAIN Orphaned(connects) = DOMAIN connects
  BY <1>1 DEF Orphaned
<1>4. Orphaned(boxReads) \in Seq(Boxed)
  BY <1>2 DEF Orphaned
<1> QED BY <1>1, <1>3, <1>4 DEF Orphaned

-----------------------------------------------------------------------------
\* What is asked for when one request for metrics joins those under way.
LEMMA OneLoadJoins ==
  ASSUME PageInv, NEW key \in AnyKey, timeframe' \in Timeframe,
         LoadDashboard(<<MetricsOf(timeframe', key)>>)
  PROVE  loads' \in Seq(MetricsLoad) /\ LatestAsked'
<1> DEFINE sent == [i \in 1..1 |-> MetricsOf(timeframe', key)]
<1>1. <<MetricsOf(timeframe', key)>> = sent
  OBVIOUS
<1> HIDE DEF sent
<1>2. loads' = loads \o sent
  BY <1>1 DEF LoadDashboard
<1> QED BY <1>2, LoadsJoin DEF PageInv, PageTyped, sent

LEMMA SameLoads ==
  ASSUME PageInv, UNCHANGED <<loads, timeframe, metrics, strayed>>
  PROVE  loads' \in Seq(MetricsLoad) /\ LatestAsked'
BY DEF PageInv, PageTyped, LatestAsked

\* A request for the blocklist box joins, or none.
LEMMA BoxReadJoins ==
  ASSUME NEW boxes \in Seq(Boxed), NEW key \in AnyKey
  PROVE  /\ Append(boxes, BoxRead(key)) \in Seq(Boxed)
         /\ Append(boxes, BoxRead(key)) = boxes \o <<BoxRead(key)>>
         /\ \E i \in DOMAIN Append(boxes, BoxRead(key)) : Append(boxes, BoxRead(key))[i].here
         /\ \A i \in DOMAIN boxes : /\ i \in DOMAIN Append(boxes, BoxRead(key))
                                    /\ Append(boxes, BoxRead(key))[i] = boxes[i]
<1>1. BoxRead(key) \in Boxed /\ BoxRead(key).here
  BY DEF BoxRead, Boxed
<1>2. /\ Append(boxes, BoxRead(key))[Len(boxes) + 1] = BoxRead(key)
      /\ Len(boxes) + 1 \in DOMAIN Append(boxes, BoxRead(key))
  OBVIOUS
<1>3. Append(boxes, BoxRead(key)) = boxes \o <<BoxRead(key)>>
  <2> DEFINE r == BoxRead(key)
  <2>1. r \in Boxed
    BY <1>1
  <2> HIDE DEF r
  <2>2. Append(boxes, r) = boxes \o <<r>>
    BY <2>1
  <2> QED BY <2>2 DEF r
<1> QED BY <1>1, <1>2, <1>3

LEMMA ActivateTabKeeps ==
  ASSUME PageInv, NEW panel \in Tabs, ActivateTab(panel)
  PROVE  PageInv'
<1>1. apiKey \in AnyKey /\ timeframe \in Timeframe /\ UNCHANGED <<timeframe, metrics, strayed>>
      /\ loads \in Seq(MetricsLoad) /\ boxReads \in Seq(Boxed)
  BY DEF PageInv, PageTyped, ActivateTab
<1>2. loads' \in Seq(MetricsLoad) /\ LatestAsked'
  <2>1. CASE panel = "dashboard"
    <3>1. LoadDashboard(<<MetricsOf(timeframe', apiKey)>>)
      BY <1>1, <2>1 DEF ActivateTab
    <3> QED BY <1>1, <3>1, OneLoadJoins
  <2>2. CASE panel # "dashboard"
    <3>1. loads' = loads
      BY <1>1, <2>2 DEF ActivateTab, LoadDashboard
    <3> QED BY <1>1, <3>1, SameLoads
  <2> QED BY <2>1, <2>2
<1>3. boxReads' \in Seq(Boxed) /\ BoxAwaited'
  <2>1. CASE panel = "aml"
    <3>1. boxReads' = boxReads \o <<BoxRead(apiKey)>>
      BY <2>1 DEF ActivateTab
    <3>2. boxReads' = Append(boxReads, BoxRead(apiKey))
      BY <1>1, <3>1, BoxReadJoins
    <3> QED BY <1>1, <3>2, BoxReadJoins DEF BoxAwaited
  <2>2. CASE panel # "aml"
    <3>1. boxReads' = boxReads /\ active' # "aml"
      BY <1>1, <2>2 DEF ActivateTab
    <3> QED BY <1>1, <3>1 DEF BoxAwaited
  <2> QED BY <2>1, <2>2
<1>4. PageTyped'
  <2>1. timer' \in BOOLEAN
    BY DEF ActivateTab, TimerOf, PageInv, PageTyped
  <2> QED BY <1>2, <1>3, <2>1 DEF PageInv, PageTyped, ActivateTab, connectVars
<1>5. OneConnection' /\ TimerSet'
  BY DEF PageInv, PageTyped, OneConnection, TimerSet, ActivateTab, TimerOf, connectVars
<1> QED BY <1>2, <1>3, <1>4, <1>5 DEF PageInv

LEMMA ChangeLocaleKeeps ==
  ASSUME PageInv, ChangeLocale
  PROVE  PageInv'
<1>1. /\ apiKey \in AnyKey /\ DefaultTimeframe \in Timeframe /\ loads \in Seq(MetricsLoad)
      /\ boxReads \in Seq(Boxed) /\ connects \in Seq(Connection)
  BY PageAssumption DEF PageInv, PageTyped
<1>2. loads' \in Seq(MetricsLoad) /\ LatestAsked'
  <2> DEFINE m == MetricsOf(DefaultTimeframe, apiKey)
             sent(n) == [i \in 1..n |-> MetricsOf(timeframe', apiKey)]
  <2>1. timeframe' = DefaultTimeframe
    BY DEF ChangeLocale, Rebuilt
  <2>2. loads' = loads \o IF active = "dashboard" THEN <<m, m>> ELSE <<m>>
    BY DEF ChangeLocale, LoadDashboard
  <2>3. <<m, m>> = sent(2) /\ <<m>> = sent(1)
    BY <2>1
  <2>4. loads' = loads \o sent(1) \/ loads' = loads \o sent(2)
    BY <2>2, <2>3
  <2> QED BY <1>1, <2>1, <2>4, LoadsJoin DEF PageInv
<1>3. boxReads' \in Seq(Boxed) /\ BoxAwaited'
  <2> DEFINE o == Orphaned(boxReads)
             r == BoxRead(apiKey)
  <2>1. o \in Seq(Boxed)
    BY <1>1, OrphansTyped
  <2>2. Append(o, r) \in Seq(Boxed)
    BY <1>1, <2>1, BoxReadJoins
  <2>3. CASE active = "aml"
    <3>1. boxReads' = o \o <<r, r>>
      BY <2>3 DEF ChangeLocale
    <3>2. r \in Boxed
      BY <1>1 DEF BoxRead, Boxed
    <3> HIDE DEF o, r
    <3>3. o \o <<r, r>> = Append(Append(o, r), r)
      BY <2>1, <3>2
    <3> USE DEF o, r
    <3>4. boxReads' = Append(Append(o, r), r)
      BY <3>1, <3>3
    <3> QED BY <1>1, <2>2, <3>4, BoxReadJoins DEF BoxAwaited
  <2>4. CASE active # "aml"
    <3> HIDE DEF o, r
    <3>1. boxReads' = o \o <<>> /\ active' # "aml"
      BY <2>4 DEF ChangeLocale, o
    <3> QED BY <2>1, <3>1 DEF BoxAwaited
  <2> QED BY <2>3, <2>4
<1>4. PageTyped'
  BY <1>1, <1>2, <1>3, OrphansTyped
  DEF PageInv, PageTyped, ChangeLocale, Rebuilt, TimerOf, BoxStates
<1>5. OneConnection'
  BY <1>1, OrphansTyped DEF PageInv, OneConnection, ChangeLocale
<1>6. TimerSet'
  BY DEF PageInv, PageTyped, TimerSet, ChangeLocale, Rebuilt, TimerOf
<1> QED BY <1>2, <1>3, <1>4, <1>5, <1>6 DEF PageInv

-----------------------------------------------------------------------------
\* Connections.
LEMMA ConnectKeeps ==
  ASSUME PageInv, NEW key \in AnyKey, Connect(key)
  PROVE  PageInv'
<1>1. connects \in Seq(Connection) /\ Len(connects) \in Nat
  BY DEF PageInv, PageTyped
<1>2. /\ screen = "login" /\ screen' = "login" /\ apiKey' = key /\ storedKey' = storedKey
      /\ overlapped' = (connects # <<>>)
      /\ \/ connects' = connects
         \/ key # NoKey /\ connects' = Append(connects, Awaiting("status", key))
  BY DEF Connect
<1>3. Awaiting("status", key) \in Connection /\ Awaiting("status", key).key = key
      /\ Awaiting("status", key).awaits = "status"
  BY DEF Awaiting, Connection, Awaits
<1>4. connects' \in Seq(Connection)
  BY <1>1, <1>2, <1>3
<1>5. PageTyped'
  BY <1>2, <1>4 DEF PageInv, PageTyped, Connect, dashVars, boxVars
<1>6. OneConnection'
  <2> SUFFICES ASSUME connects = <<>>
               PROVE  OneConnection'
    BY <1>2 DEF OneConnection
  <2>1. \/ connects' = <<>>
        \/ Len(connects') = 1 /\ connects'[1] = Awaiting("status", key)
    BY <1>2
  <2>2. ASSUME NEW i \in DOMAIN connects'
        PROVE  connects'[i] = Awaiting("status", key)
    BY <1>1, <1>2, <2>1
  <2>3. Len(connects') <= 1
    BY <2>1
  <2> QED BY <1>2, <1>3, <2>2, <2>3 DEF OneConnection
<1>7. TimerSet' /\ LatestAsked' /\ BoxAwaited'
  BY DEF PageInv, TimerSet, LatestAsked, BoxAwaited, Connect, dashVars, boxVars
<1> QED BY <1>5, <1>6, <1>7 DEF PageInv

LEMMA ConnectFailsKeeps ==
  ASSUME PageInv, NEW i \in DOMAIN connects, ConnectFails(i)
  PROVE  PageInv'
<1>1. /\ connects \in Seq(Connection) /\ connects' = RemoveAt(connects, i)
      /\ screen' = "login" /\ overlapped' = overlapped /\ apiKey' = apiKey
      /\ storedKey' \in {NoKey, storedKey}
  BY DEF PageInv, PageTyped, ConnectFails
<1>2. connects' \in Seq(Connection) /\ Len(connects') = Len(connects) - 1
  BY <1>1, Removed
<1>3. PageTyped'
  BY <1>1, <1>2 DEF PageInv, PageTyped, AnyKey, ConnectFails, dashVars, boxVars
<1>4. OneConnection'
  <2> SUFFICES ASSUME ~overlapped PROVE OneConnection'
    BY <1>1 DEF OneConnection
  <2>1. Len(connects') = 0
    BY <1>1, <1>2 DEF PageInv, OneConnection
  <2> QED BY <1>1, <1>2, <2>1 DEF OneConnection
<1>5. TimerSet' /\ LatestAsked' /\ BoxAwaited'
  BY <1>1 DEF PageInv, TimerSet, LatestAsked, BoxAwaited, ConnectFails, dashVars, boxVars
<1> QED BY <1>3, <1>4, <1>5 DEF PageInv

LEMMA ConnectStatusKeeps ==
  ASSUME PageInv, NEW i \in DOMAIN connects, ConnectStatus(i)
  PROVE  PageInv'
<1>1. /\ connects \in Seq(Connection) /\ boxReads \in Seq(Boxed) /\ apiKey \in AnyKey
      /\ DefaultTimeframe \in Timeframe
  BY PageAssumption DEF PageInv, PageTyped
<1> DEFINE k == Awaiting("config", apiKey)
<1>2. k \in Connection /\ k.key = apiKey /\ k.awaits = "config"
  BY <1>1 DEF Awaiting, Connection, Awaits
<1> HIDE DEF k
<1>3. connects' = [Orphaned(connects) EXCEPT ![i] = k]
  BY DEF ConnectStatus, k
<1>4. /\ connects' \in Seq(Connection) /\ Len(connects') = Len(connects)
      /\ DOMAIN connects' = DOMAIN connects /\ connects'[i] = k
  BY <1>1, <1>2, <1>3, OrphansTyped
<1>5. loads' \in Seq(MetricsLoad) /\ LatestAsked'
  <2>1. timeframe' = DefaultTimeframe
    BY DEF ConnectStatus, Rebuilt
  <2> QED BY <1>1, <2>1, OneLoadJoins DEF ConnectStatus
<1>6. PageTyped'
  BY <1>1, <1>4, <1>5, OrphansTyped
  DEF PageInv, PageTyped, ConnectStatus, Rebuilt, Tabs, BoxStates
<1>7. OneConnection'
  <2> SUFFICES ASSUME ~overlapped PROVE OneConnection'
    BY DEF OneConnection, ConnectStatus
  <2>1. \A j \in DOMAIN connects' : j = i
    BY <1>1, <1>4 DEF PageInv, OneConnection
  <2>2. screen = "login" /\ Len(connects) <= 1 /\ connects[i].key = apiKey
    BY DEF PageInv, OneConnection
  <2> QED BY <1>2, <1>4, <2>1, <2>2 DEF OneConnection, ConnectStatus
<1>8. TimerSet' /\ BoxAwaited'
  <2>1. connects' # <<>>
    BY <1>1, <1>4
  <2> QED BY <2>1 DEF PageInv, PageTyped, TimerSet, BoxAwaited, ConnectStatus, Rebuilt
<1> QED BY <1>5, <1>6, <1>7, <1>8 DEF PageInv

\* The configuration and the audit entries come to a connection.
LEMMA ConnectGoesOn ==
  ASSUME PageInv, NEW i \in DOMAIN connects, ConnectConfig(i) \/ ConnectAudit(i)
  PROVE  PageInv'
<1>1. connects \in Seq(Connection) /\ apiKey \in AnyKey
  BY DEF PageInv, PageTyped
<1>2. PICK what \in {"audit", "box"} : connects' = [connects EXCEPT ![i] = Awaiting(what, apiKey)]
  BY DEF ConnectConfig, ConnectAudit
<1> DEFINE k == Awaiting(what, apiKey)
<1>3. k \in Connection /\ k.key = apiKey /\ k.awaits = what
  BY <1>1 DEF Awaiting, Connection, Awaits
<1> HIDE DEF k
<1>4. /\ connects' \in Seq(Connection) /\ Len(connects') = Len(connects)
      /\ DOMAIN connects' = DOMAIN connects /\ connects'[i] = k
  BY <1>1, <1>2, <1>3 DEF k
<1>5. /\ UNCHANGED <<screen, apiKey, storedKey, overlapped, active, dashVars, boxVars>>
      /\ connects[i].key = GoodKey /\ connects[i].awaits # "status"
  BY DEF ConnectConfig, ConnectAudit, Accepted
<1>6. PageTyped'
  BY <1>4, <1>5 DEF PageInv, PageTyped, dashVars, boxVars
<1>7. OneConnection'
  <2> SUFFICES ASSUME ~overlapped PROVE OneConnection'
    BY <1>5 DEF OneConnection
  <2>1. \A j \in DOMAIN connects' : j = i
    BY <1>1, <1>4 DEF PageInv, OneConnection
  <2>2. /\ screen = "login" /\ Len(connects) <= 1 /\ connects[i].key = apiKey
        /\ storedKey = apiKey
    BY <1>5 DEF PageInv, OneConnection
  <2> QED BY <1>3, <1>4, <1>5, <2>1, <2>2 DEF OneConnection
<1>8. TimerSet' /\ LatestAsked' /\ BoxAwaited'
  <2>1. connects' # <<>>
    BY <1>1, <1>4
  <2> QED BY <1>5, <2>1 DEF PageInv, TimerSet, LatestAsked, BoxAwaited, dashVars, boxVars
<1> QED BY <1>6, <1>7, <1>8 DEF PageInv

LEMMA ConnectShownKeeps ==
  ASSUME PageInv, NEW i \in DOMAIN connects, ConnectShown(i)
  PROVE  PageInv'
<1>1. /\ connects \in Seq(Connection) /\ connects' = RemoveAt(connects, i) /\ apiKey \in AnyKey
      /\ timeframe \in Timeframe
  BY DEF PageInv, PageTyped, ConnectShown
<1>2. connects' \in Seq(Connection) /\ Len(connects') = Len(connects) - 1
  BY <1>1, Removed
<1>3. loads' \in Seq(MetricsLoad) /\ LatestAsked'
  <2>1. timeframe' = timeframe
    BY DEF ConnectShown
  <2> QED BY <1>1, <2>1, OneLoadJoins DEF ConnectShown
<1>4. box' \in BoxStates
  BY DEF ConnectShown, FillBox, BoxStates, PageInv, PageTyped
<1>5. PageTyped'
  BY <1>1, <1>2, <1>3, <1>4 DEF PageInv, PageTyped, ConnectShown, TimerOf, Tabs
<1>6. OneConnection'
  <2> SUFFICES ASSUME ~overlapped PROVE OneConnection'
    BY DEF OneConnection, ConnectShown
  <2>1. Len(connects') = 0 /\ apiKey = GoodKey /\ storedKey = GoodKey
    BY <1>1, <1>2 DEF PageInv, OneConnection, ConnectShown
  <2>2. DOMAIN connects' = 1..Len(connects')
    BY <1>2
  <2>3. \A k \in DOMAIN connects' : FALSE
    BY <2>1, <2>2
  <2>4. apiKey' = apiKey /\ storedKey' = storedKey
    BY DEF ConnectShown
  <2> QED BY <2>1, <2>3, <2>4 DEF OneConnection
<1>7. TimerSet' /\ BoxAwaited'
  BY DEF PageInv, PageTyped, TimerSet, BoxAwaited, ConnectShown, TimerOf
<1> QED BY <1>3, <1>5, <1>6, <1>7 DEF PageInv

LEMMA ReloadPageKeeps ==
  ASSUME PageInv, ReloadPage
  PROVE  PageInv'
<1>1. storedKey \in AnyKey /\ DefaultTimeframe \in Timeframe
  BY PageAssumption DEF PageInv, PageTyped
<1> DEFINE m == MetricsOf(DefaultTimeframe, storedKey)
<1>2. m \in MetricsLoad /\ m.timeframe = DefaultTimeframe /\ m.overtaken = FALSE
  BY <1>1 DEF MetricsOf, MetricsLoad
<1> HIDE DEF m
<1>3. loads' = <<m>>
  BY DEF ReloadPage, m
<1>4. loads' \in Seq(MetricsLoad) /\ Len(loads') = 1 /\ loads'[1] = m
  BY <1>2, <1>3
<1>5. /\ connects' = <<>> /\ boxReads' = <<>>
      /\ connects' \in Seq(Connection) /\ boxReads' \in Seq(Boxed)
  BY DEF ReloadPage
<1>6. PageTyped'
  BY <1>1, <1>4, <1>5 DEF PageInv, PageTyped, ReloadPage, Rebuilt, Tabs, BoxStates
<1>7. OneConnection' /\ TimerSet' /\ BoxAwaited'
  BY <1>5 DEF ReloadPage, OneConnection, TimerSet, BoxAwaited
<1>8. LatestAsked'
  BY <1>2, <1>4 DEF ReloadPage, Rebuilt, LatestAsked, OvertakenFirst
<1> QED BY <1>6, <1>7, <1>8 DEF PageInv

-----------------------------------------------------------------------------
\* The dashboard and the blocklist box.  What is left to show of a step that moves the metrics only.
LEMMA DashboardMoves ==
  ASSUME PageInv, UNCHANGED <<active, connectVars, boxVars>>,
         timer' \in BOOLEAN, auto' \in BOOLEAN, strayed' \in BOOLEAN,
         timeframe' \in Timeframe, metrics' \in Timeframe \cup {NoMetrics},
         loads' \in Seq(MetricsLoad), LatestAsked', TimerSet'
  PROVE  PageInv'
<1>1. PageTyped'
  BY DEF PageInv, PageTyped, connectVars, boxVars
<1>2. OneConnection' /\ BoxAwaited'
  BY DEF PageInv, OneConnection, BoxAwaited, connectVars, boxVars
<1> QED BY <1>1, <1>2 DEF PageInv

LEMMA SelectTimeframeKeeps ==
  ASSUME PageInv, NEW selected \in Timeframe, SelectTimeframe(selected)
  PROVE  PageInv'
<1>1. /\ apiKey \in AnyKey /\ timeframe' = selected
      /\ LoadDashboard(<<MetricsOf(timeframe', apiKey)>>)
      /\ UNCHANGED <<active, timer, auto, metrics, strayed, connectVars, boxVars>>
  BY DEF PageInv, PageTyped, SelectTimeframe
<1>2. loads' \in Seq(MetricsLoad) /\ LatestAsked'
  BY <1>1, OneLoadJoins
<1>3. TimerSet'
  BY <1>1 DEF PageInv, TimerSet, connectVars
<1> QED BY <1>1, <1>2, <1>3, DashboardMoves DEF PageInv, PageTyped

LEMMA RefreshKeeps ==
  ASSUME PageInv, Refresh
  PROVE  PageInv'
<1>1. /\ apiKey \in AnyKey /\ timeframe' = timeframe /\ timeframe \in Timeframe
      /\ LoadDashboard(<<MetricsOf(timeframe', apiKey)>>)
      /\ UNCHANGED <<active, timer, auto, metrics, strayed, connectVars, boxVars>>
  BY DEF PageInv, PageTyped, Refresh
<1>2. loads' \in Seq(MetricsLoad) /\ LatestAsked'
  BY <1>1, OneLoadJoins
<1>3. TimerSet'
  BY <1>1 DEF PageInv, TimerSet, connectVars
<1> QED BY <1>1, <1>2, <1>3, DashboardMoves DEF PageInv, PageTyped

LEMMA ToggleAutoKeeps ==
  ASSUME PageInv, ToggleAuto
  PROVE  PageInv'
<1>1. UNCHANGED <<active, timeframe, metrics, loads, strayed, connectVars, boxVars>>
  BY DEF ToggleAuto
<1>2. loads' \in Seq(MetricsLoad) /\ LatestAsked'
  BY <1>1, SameLoads
<1>3. auto' \in BOOLEAN /\ timer' \in BOOLEAN /\ TimerSet'
  BY DEF PageInv, PageTyped, TimerSet, ToggleAuto, OnDashboard, connectVars
<1> QED BY <1>1, <1>2, <1>3, DashboardMoves DEF PageInv, PageTyped

LEMMA LoadsSettled ==
  ASSUME PageInv, NEW i \in DOMAIN loads, TakeMetrics(i) \/ MetricsFail(i)
  PROVE  PageInv'
<1>1. /\ loads \in Seq(MetricsLoad) /\ loads[i] \in MetricsLoad /\ timeframe \in Timeframe
      /\ metrics \in Timeframe \cup {NoMetrics} /\ strayed \in BOOLEAN
  BY DEF PageInv, PageTyped
<1>2. /\ SettleLoad(i) /\ UNCHANGED <<active, timer, auto, timeframe, connectVars, boxVars>>
      /\ \/ /\ metrics' = loads[i].timeframe
            /\ strayed' = IF loads[i].overtaken THEN TRUE
                          ELSE IF i = Len(loads) THEN FALSE ELSE strayed
         \/ metrics' = metrics /\ strayed' = (strayed \/ i = Len(loads))
  BY DEF TakeMetrics, MetricsFail
<1>3. /\ loads[i].timeframe \in Timeframe /\ metrics' \in Timeframe \cup {NoMetrics}
      /\ strayed' \in BOOLEAN
  BY <1>1, <1>2 DEF MetricsLoad
<1>4. loads' \in Seq(MetricsLoad) /\ LatestAsked'
  BY <1>1, <1>2, <1>3, LoadsSettle DEF PageInv
<1>5. TimerSet'
  BY <1>2 DEF PageInv, TimerSet, connectVars
<1> QED BY <1>1, <1>2, <1>3, <1>4, <1>5, DashboardMoves DEF PageInv, PageTyped

LEMMA BoxKeeps ==
  ASSUME PageInv, LoadBox \/ \E i \in DOMAIN boxReads : TakeBox(i)
  PROVE  PageInv'
<1>1. boxReads \in Seq(Boxed) /\ apiKey \in AnyKey /\ box \in BoxStates
  BY DEF PageInv, PageTyped
<1>2. UNCHANGED <<active, connectVars, dashVars>>
  BY DEF LoadBox, TakeBox
<1>3. boxReads' \in Seq(Boxed) /\ box' \in BoxStates /\ BoxAwaited'
  <2>1. CASE LoadBox
    <3>1. boxReads' = Append(boxReads, BoxRead(apiKey)) /\ box' = box
      BY <2>1 DEF LoadBox
    <3> QED BY <1>1, <3>1, BoxReadJoins DEF BoxAwaited
  <2>2. ASSUME NEW i \in DOMAIN boxReads, TakeBox(i)
        PROVE  boxReads' \in Seq(Boxed) /\ box' \in BoxStates /\ BoxAwaited'
    <3>1. boxReads' = RemoveAt(boxReads, i) /\ active' = active
          /\ (IF boxReads[i].here THEN box' \in BoxStates \ {"loading"} ELSE box' = box)
      BY <2>2 DEF TakeBox, FillBox, BoxStates
    <3>2. boxReads' \in Seq(Boxed)
      BY <1>1, <3>1, Removed
    <3>3. \A k \in DOMAIN boxReads : k # i => \E j \in DOMAIN boxReads' : boxReads'[j] = boxReads[k]
      BY <1>1, <3>1, RemovedElement
    <3> QED BY <1>1, <3>1, <3>2, <3>3 DEF PageInv, BoxAwaited
  <2> QED BY <2>1, <2>2
<1>4. PageTyped'
  BY <1>2, <1>3 DEF PageInv, PageTyped, connectVars, dashVars
<1>5. OneConnection' /\ TimerSet' /\ LatestAsked'
  BY <1>2 DEF PageInv, OneConnection, TimerSet, LatestAsked, connectVars, dashVars
<1> QED BY <1>3, <1>4, <1>5 DEF PageInv

LEMMA PageStep == PageInv /\ [PageNext]_pageVars => PageInv'
<1> SUFFICES ASSUME PageInv, [PageNext]_pageVars PROVE PageInv'
  OBVIOUS
<1>1. CASE UNCHANGED pageVars
  BY <1>1 DEF PageInv, PageTyped, OneConnection, TimerSet, LatestAsked, BoxAwaited, pageVars,
              connectVars, dashVars, boxVars
<1>2. CASE PageNext
  BY <1>2, ActivateTabKeeps, ChangeLocaleKeeps, ConnectKeeps, ConnectFailsKeeps, ConnectStatusKeeps,
     ConnectGoesOn, ConnectShownKeeps, ReloadPageKeeps, SelectTimeframeKeeps, RefreshKeeps,
     ToggleAutoKeeps, LoadsSettled, BoxKeeps
  DEF PageNext, AnyKey
<1> QED BY <1>1, <1>2

\* The application is shown only with a key the server accepts, the one that is stored, if no two
\* connections overlapped, however many follow each other and whichever of their requests fail.
THEOREM ShownWithKey == PageSpec => []AppHasKey
<1>1. PageInv => AppHasKey
  BY DEF PageInv, OneConnection, AppHasKey
<1> QED BY <1>1, PageInitially, PageStep, PTL DEF PageSpec

\* The refresh timer is set exactly when the dashboard is shown with its box checked.
THEOREM TimerOnDashboard == PageSpec => []RefreshOnDashboard
<1>1. PageInv => RefreshOnDashboard
  BY DEF PageInv, PageTyped, TimerSet, RefreshOnDashboard
<1> QED BY <1>1, PageInitially, PageStep, PTL DEF PageSpec

\* The metrics are those of the selected timeframe when nothing is under way, and no blocklist box
\* waits for a request that is not there.
THEOREM AnswersAreShown == PageSpec => []AnswersShown
<1>1. PageInv => AnswersShown
  BY DEF PageInv, LatestAsked, BoxAwaited, AnswersShown
<1> QED BY <1>1, PageInitially, PageStep, PTL DEF PageSpec

-----------------------------------------------------------------------------
\* No more requests for metrics are under way than a run allows.
LoadsBounded == Len(loads) <= MaxLoads

\* Requests are sent only where there is room; one that is settled makes room.
LEMMA LoadsAdded ==
  ASSUME PageInv, NEW sent \in Seq(MetricsLoad), LoadDashboard(sent)
  PROVE  LoadsBounded'
<1>1. Len(loads \o sent) = Len(loads) + Len(sent)
  BY DEF PageInv, PageTyped
<1> QED BY <1>1 DEF LoadDashboard, LoadsBounded

LEMMA LoadRemoved ==
  ASSUME PageInv, LoadsBounded, NEW i \in DOMAIN loads, SettleLoad(i)
  PROVE  LoadsBounded'
<1> DEFINE marked == [j \in DOMAIN loads |-> [loads[j] EXCEPT !.overtaken = @ \/ j < i]]
           mark(j) == [loads[j] EXCEPT !.overtaken = @ \/ j < i]
<1>1. loads \in Seq(MetricsLoad) /\ Len(loads) \in Nat /\ DOMAIN loads = 1..Len(loads)
  BY DEF PageInv, PageTyped
<1>2. marked \in Seq(Range(marked)) /\ Len(marked) = Len(loads)
  <2>1. marked = [j \in 1..Len(loads) |-> mark(j)]
    BY <1>1
  <2> HIDE DEF mark
  <2>2. \A j \in 1..Len(loads) : mark(j) \in Range([k \in 1..Len(loads) |-> mark(k)])
    BY DEF Range
  <2>3. /\ [j \in 1..Len(loads) |-> mark(j)] \in Seq(Range([k \in 1..Len(loads) |-> mark(k)]))
        /\ Len([j \in 1..Len(loads) |-> mark(j)]) = Len(loads)
    BY <1>1, <2>2
  <2> QED BY <2>1, <2>3
<1>3. loads' = RemoveAt(marked, i) /\ i \in DOMAIN marked
  BY DEF SettleLoad
<1> HIDE DEF marked
<1>4. Len(loads') = Len(loads) - 1
  BY <1>2, <1>3, Removed
<1> QED BY <1>1, <1>4, PageAssumption DEF LoadsBounded

LEMMA LoadsStayBounded == PageInv /\ LoadsBounded /\ [PageNext]_pageVars => LoadsBounded'
<1> SUFFICES ASSUME PageInv, LoadsBounded, [PageNext]_pageVars  PROVE LoadsBounded'
  OBVIOUS
<1>1. \A t \in Timeframe, key \in AnyKey :
        /\ <<>> \in Seq(MetricsLoad)
        /\ <<MetricsOf(t, key)>> \in Seq(MetricsLoad)
        /\ <<MetricsOf(t, key)>> \o <<>> \in Seq(MetricsLoad)
        /\ <<MetricsOf(t, key)>> \o <<MetricsOf(t, key)>> \in Seq(MetricsLoad)
  <2> SUFFICES ASSUME NEW t \in Timeframe, NEW key \in AnyKey
               PROVE  /\ <<>> \in Seq(MetricsLoad)
                      /\ <<MetricsOf(t, key)>> \in Seq(MetricsLoad)
                      /\ <<MetricsOf(t, key)>> \o <<>> \in Seq(MetricsLoad)
                      /\ <<MetricsOf(t, key)>> \o <<MetricsOf(t, key)>> \in Seq(MetricsLoad)
    OBVIOUS
  <2>1. MetricsOf(t, key) \in MetricsLoad
    BY DEF MetricsOf, MetricsLoad
  <2> HIDE DEF MetricsOf
  <2> QED BY <2>1
<1>2. apiKey \in AnyKey /\ timeframe \in Timeframe /\ DefaultTimeframe \in Timeframe
  BY PageAssumption DEF PageInv, PageTyped
<1>3. ASSUME NEW panel \in Tabs, ActivateTab(panel)  PROVE LoadsBounded'
  <2>1. LoadDashboard(<<MetricsOf(timeframe, apiKey)>>) \/ LoadDashboard(<<>>)
    BY <1>3 DEF ActivateTab
  <2> QED BY <1>1, <1>2, <2>1, LoadsAdded
<1>4. CASE ChangeLocale
  <2>1. \/ LoadDashboard(<<MetricsOf(DefaultTimeframe, apiKey)>>
                         \o <<MetricsOf(DefaultTimeframe, apiKey)>>)
        \/ LoadDashboard(<<MetricsOf(DefaultTimeframe, apiKey)>> \o <<>>)
    BY <1>4 DEF ChangeLocale
  <2> QED BY <1>1, <1>2, <2>1, LoadsAdded
<1>5. ASSUME \/ \E i \in DOMAIN connects : ConnectStatus(i) \/ ConnectShown(i)
             \/ \E selected \in Timeframe : SelectTimeframe(selected)
             \/ Refresh
      PROVE  LoadsBounded'
  <2>1. \E t \in Timeframe : LoadDashboard(<<MetricsOf(t, apiKey)>>)
    BY <1>2, <1>5 DEF ConnectStatus, ConnectShown, SelectTimeframe, Refresh
  <2> QED BY <1>1, <1>2, <2>1, LoadsAdded
<1>6. CASE ReloadPage
  <2>1. Len(loads') = 1
    BY <1>6 DEF ReloadPage
  <2> QED BY <2>1, PageAssumption DEF LoadsBounded
<1>7. ASSUME NEW i \in DOMAIN loads, TakeMetrics(i) \/ MetricsFail(i)  PROVE LoadsBounded'
  BY <1>7, LoadRemoved DEF TakeMetrics, MetricsFail
<1>8. ASSUME \/ \E key \in Key \cup {NoKey} : Connect(key)
             \/ \E i \in DOMAIN connects : ConnectConfig(i) \/ ConnectAudit(i) \/ ConnectFails(i)
             \/ ToggleAuto \/ LoadBox \/ \E i \in DOMAIN boxReads : TakeBox(i)
             \/ UNCHANGED pageVars
      PROVE  LoadsBounded'
  <2>1. UNCHANGED loads
    BY <1>8 DEF Connect, ConnectConfig, ConnectAudit, ConnectFails, ToggleAuto, LoadBox, TakeBox,
                pageVars, dashVars
  <2> QED BY <2>1 DEF LoadsBounded
<1> QED BY <1>3, <1>4, <1>5, <1>6, <1>7, <1>8 DEF PageNext

\* What the page shows, what it waits for and what it has selected stay of their kinds, for any keys,
\* timeframes and number of requests under way.
THEOREM PageTypesHold == PageSpec => []PageTypeOK
<1>1. ASSUME PageInv, LoadsBounded  PROVE PageTypeOK
  <2>1. \A i \in DOMAIN connects : connects[i] \in Connection
    <3>1. connects \in Seq(Connection)
      BY <1>1 DEF PageInv, PageTyped
    <3> QED BY <3>1
  <2>2. Connection = [awaits : Awaits, key : Key \cup {NoKey}, here : BOOLEAN]
    BY DEF Connection, AnyKey
  <2> QED BY <1>1, <2>1, <2>2 DEF PageInv, PageTyped, LoadsBounded, PageTypeOK, AnyKey
<1>2. ASSUME PageInit  PROVE LoadsBounded
  <2>1. Len(loads) = 1
    BY <1>2 DEF PageInit
  <2> QED BY <2>1, PageAssumption DEF LoadsBounded
<1> QED BY <1>1, <1>2, PageInitially, PageStep, LoadsStayBounded, PTL DEF PageSpec

-----------------------------------------------------------------------------
\* The log viewer.
(* Arithmetic of the pager. *)
LEMMA PairMax == \A a, b \in Int : Max({a, b}) \in {a, b} /\ Max({a, b}) >= a /\ Max({a, b}) >= b
<1> SUFFICES ASSUME NEW a \in Int, NEW b \in Int
             PROVE  Max({a, b}) \in {a, b} /\ Max({a, b}) >= a /\ Max({a, b}) >= b
  OBVIOUS
<1>1. \E x \in {a, b} : \A y \in {a, b} : x >= y
  <2>1. CASE a >= b
    BY <2>1
  <2>2. CASE ~(a >= b)
    BY <2>2
  <2> QED BY <2>1, <2>2
<1> QED BY <1>1 DEF Max

LEMMA PairMin == \A a, b \in Int : Min({a, b}) \in {a, b} /\ Min({a, b}) <= a /\ Min({a, b}) <= b
<1> SUFFICES ASSUME NEW a \in Int, NEW b \in Int
             PROVE  Min({a, b}) \in {a, b} /\ Min({a, b}) <= a /\ Min({a, b}) <= b
  OBVIOUS
<1>1. \E x \in {a, b} : \A y \in {a, b} : x <= y
  <2>1. CASE a <= b
    BY <2>1
  <2>2. CASE ~(a <= b)
    BY <2>2
  <2> QED BY <2>1, <2>2
<1> QED BY <1>1 DEF Min

\* The first row of a page that is counted exists.
LEMMA PageStarts ==
  ASSUME NEW total \in Nat, NEW limit \in Nat \ {0}, NEW page \in Nat \ {0},
         page <= (total + limit - 1) \div limit
  PROVE  (page - 1) * limit \in Nat /\ (page - 1) * limit < total
<1> DEFINE q == (total + limit - 1) \div limit
<1>1. q \in Nat /\ q * limit <= total + limit - 1
  OBVIOUS
<1> HIDE DEF q
<1>2. page <= q
  BY DEF q
<1>3. page * limit <= q * limit
  BY <1>1, <1>2
<1>4. (page - 1) * limit = page * limit - limit
  OBVIOUS
<1>5. page * limit \in Nat /\ page * limit >= limit
  OBVIOUS
<1>6. q * limit \in Nat
  BY <1>1
<1> DEFINE a == page * limit
           b == q * limit
<1>7. a \in Nat /\ a >= limit /\ a <= b /\ b \in Nat /\ b <= total + limit - 1
  BY <1>1, <1>3, <1>5, <1>6
<1> HIDE DEF a, b
<1>8. a - limit \in Nat /\ a - limit < total
  BY <1>7
<1> QED BY <1>4, <1>8 DEF a

-----------------------------------------------------------------------------
LogState == [offset : Nat, limit : PageSize, total : Nat]
LogAnswer == [entries : SUBSET Nat, total : Nat]
LogRead == [filter : LogFilters, offset : Nat, limit : PageSize,
            answer : LogAnswer \cup {NoEntry}, overtaken : BOOLEAN]
ModalShows == Nat \cup {NoEntry, Loading, Failed}

LogTyped ==
  /\ logTable \in Seq(LogKind) /\ logsOpen \in BOOLEAN
  /\ logsState \in LogState /\ logFilter \in LogFilters /\ counted \in LogFilters
  /\ reads \in Seq(LogRead)
  /\ listing.entries \subseteq Nat /\ listing.pages \in Nat
  /\ modal \in [open : BOOLEAN, shows : ModalShows, clicked : ModalShows]
  /\ details \in Seq(Nat)
  /\ astray \in BOOLEAN /\ hasty \in BOOLEAN /\ mixed \in BOOLEAN

\* Rows are only added: what was counted is there, and with it the page the viewer is on.
Count(filter) == Cardinality(Matching(filter))

RowsCounted ==
  /\ logsState.total <= Count(counted)
  /\ \A i \in DOMAIN reads :
       reads[i].answer # NoEntry => reads[i].answer.total <= Count(reads[i].filter)
  /\ ~hasty => logsState.offset = 0 \/ logsState.offset < Count(logFilter)

\* The last request under way is for what the open tab asks for, unless a later one has been
\* settled; when none is left, the page shows it.
AsksPage(read) ==
  /\ read.filter = logFilter /\ read.offset = logsState.offset /\ read.limit = logsState.limit
  /\ read.answer # NoEntry /\ ~hasty => read.offset = 0 \/ read.offset < read.answer.total

PageShown ==
  /\ listing.answers = <<logFilter, logsState.offset, logsState.limit>>
  /\ listing.from = IF logsState.total = 0 THEN 0 ELSE logsState.offset + 1
  /\ listing.page = CurrentPage(logsState)
  /\ ~hasty => logsState.offset = 0 \/ logsState.offset < logsState.total

PageAsked ==
  /\ OvertakenFirst(reads)
  /\ logsOpen /\ reads # <<>> /\ ~reads[Len(reads)].overtaken => AsksPage(reads[Len(reads)])
  /\ logsOpen /\ (reads # <<>> => reads[Len(reads)].overtaken) /\ ~astray => PageShown

\* The entry under way is the one that was clicked.
DetailAsked ==
  ~mixed =>
    /\ Len(details) <= 1 /\ \A i \in DOMAIN details : details[i] = modal.clicked
    /\ modal.open /\ details = <<>> => modal.shows \in {modal.clicked, Failed}

LogInv == LogTyped /\ RowsCounted /\ PageAsked /\ DetailAsked

LEMMA LogInitially == LogInit => LogInv
<1> SUFFICES ASSUME LogInit PROVE LogInv
  OBVIOUS
<1>1. /\ logTable = <<>> /\ reads = <<>> /\ details = <<>>
      /\ logTable \in Seq(LogKind) /\ reads \in Seq(LogRead) /\ details \in Seq(Nat)
      /\ Len(details) = 0
  BY DEF LogInit
<1>2. logsState \in LogState /\ logsState.offset = 0 /\ logsState.total = 0
  BY LogAssumption DEF LogInit, LogState
<1>3. /\ listing.entries \subseteq Nat /\ listing.pages \in Nat
      /\ modal \in [open : BOOLEAN, shows : ModalShows, clicked : ModalShows] /\ ~modal.open
  BY DEF LogInit, EmptyListing, ClosedModal, ModalShows
<1>4. LogTyped
  BY <1>1, <1>2, <1>3 DEF LogInit, LogTyped, LogFilters
<1>5. RowsCounted
  <2>1. Count(counted) = 0
    <3>1. Matching(counted) = {}
      BY <1>1 DEF Matching
    <3> QED BY <3>1, FS_EmptySet DEF Count
  <2> QED BY <1>1, <1>2, <2>1 DEF RowsCounted
<1>6. PageAsked /\ DetailAsked
  BY <1>1, <1>3 DEF LogInit, PageAsked, OvertakenFirst, DetailAsked
<1> QED BY <1>4, <1>5, <1>6 DEF LogInv

-----------------------------------------------------------------------------
\* Counting rows.
LEMMA MatchingFinite ==
  ASSUME logTable \in Seq(LogKind)
  PROVE  \A filter : /\ Matching(filter) \subseteq DOMAIN logTable /\ IsFiniteSet(Matching(filter))
                     /\ Count(filter) \in Nat
<1>1. IsFiniteSet(DOMAIN logTable)
  <2>1. DOMAIN logTable = 1..Len(logTable) /\ Len(logTable) \in Nat
    OBVIOUS
  <2> QED BY <2>1, FS_Interval
<1>2. TAKE filter
<1>3. Matching(filter) \subseteq DOMAIN logTable
  BY DEF Matching
<1>4. IsFiniteSet(Matching(filter))
  BY <1>1, <1>3, FS_Subset
<1> QED BY <1>3, <1>4, FS_CardinalityType DEF Count

LEMMA CountsKept ==
  ASSUME UNCHANGED logTable
  PROVE  \A filter : Count(filter)' = Count(filter)
BY DEF Count, Matching

LEMMA CountsGrow ==
  ASSUME logTable \in Seq(LogKind), NEW kind \in LogKind, logTable' = Append(logTable, kind)
  PROVE  \A filter : /\ Count(filter) \in Nat /\ Count(filter)' \in Nat
                      /\ Count(filter) <= Count(filter)'
<1>1. TAKE filter
<1>2. logTable' \in Seq(LogKind)
  OBVIOUS
<1>3. \A id \in DOMAIN logTable : id \in DOMAIN logTable' /\ logTable'[id] = logTable[id]
  OBVIOUS
<1>4. Matching(filter) \subseteq Matching(filter)'
  BY <1>3 DEF Matching
<1>5. IsFiniteSet(Matching(filter)') /\ Count(filter)' \in Nat
  <2>1. DOMAIN logTable' = 1..Len(logTable') /\ Len(logTable') \in Nat
    BY <1>2
  <2>2. IsFiniteSet(DOMAIN logTable')
    BY <2>1, FS_Interval
  <2>3. Matching(filter)' \subseteq DOMAIN logTable'
    BY DEF Matching
  <2>4. IsFiniteSet(Matching(filter)')
    BY <2>2, <2>3, FS_Subset
  <2> QED BY <2>4, FS_CardinalityType DEF Count
<1>6. Count(filter) <= Count(filter)'
  BY <1>4, <1>5, FS_Subset DEF Count
<1> QED BY <1>5, <1>6, MatchingFinite

LEMMA NoFilterCountsAll ==
  ASSUME logTable \in Seq(LogKind)
  PROVE  \A filter : Count(filter) <= Count(NoFilter)
<1>1. TAKE filter
<1>2. Matching(filter) \subseteq Matching(NoFilter)
  BY DEF Matching
<1> QED BY <1>2, MatchingFinite, FS_Subset DEF Count

LEMMA WriteLogKeeps ==
  ASSUME LogInv, NEW kind \in LogKind, WriteLog(kind)
  PROVE  LogInv'
<1>1. /\ logTable \in Seq(LogKind) /\ logTable' = Append(logTable, kind)
      /\ UNCHANGED <<logsOpen, logsState, logFilter, listing, reads, modal, details, counted,
                     astray, hasty, mixed>>
  BY DEF LogInv, LogTyped, WriteLog
<1>2. LogTyped' /\ PageAsked' /\ DetailAsked'
  BY <1>1 DEF LogInv, LogTyped, PageAsked, AsksPage, PageShown, DetailAsked, CurrentPage
<1>3. RowsCounted'
  <2>1. \A filter : /\ Count(filter) \in Nat /\ Count(filter)' \in Nat
                    /\ Count(filter) <= Count(filter)'
    BY <1>1, CountsGrow
  <2>2. logsState.total \in Nat /\ logsState.offset \in Nat
    BY DEF LogInv, LogTyped, LogState
  <2>3. \A i \in DOMAIN reads : reads[i].answer # NoEntry => reads[i].answer.total \in Nat
    <3>1. \A i \in DOMAIN reads : reads[i] \in LogRead
      BY DEF LogInv, LogTyped
    <3> QED BY <3>1 DEF LogRead, LogAnswer
  <2>4. logsState'.total <= Count(counted)'
    BY <1>1, <2>1, <2>2 DEF LogInv, RowsCounted
  <2>5. \A i \in DOMAIN reads' :
          reads'[i].answer # NoEntry => reads'[i].answer.total <= Count(reads[i].filter)'
    BY <1>1, <2>1, <2>3 DEF LogInv, RowsCounted
  <2>6. ~hasty' => logsState'.offset = 0 \/ logsState'.offset < Count(logFilter)'
    BY <1>1, <2>1, <2>2 DEF LogInv, RowsCounted
  <2> QED BY <1>1, <2>4, <2>5, <2>6 DEF RowsCounted
<1> QED BY <1>2, <1>3 DEF LogInv

-----------------------------------------------------------------------------
\* A page is asked for, once or twice; the total stays the one that was counted.
LEMMA LoadKeeps ==
  ASSUME LogInv, NEW state \in LogState, NEW filter \in LogFilters, NEW n \in {1, 2},
         Load(state, filter, n), state.total = logsState.total,
         ~hasty' => state.offset = 0 \/ state.offset < Count(filter),
         UNCHANGED <<logTable, modal, details, counted, astray, mixed>>,
         listing' \in {listing, EmptyListing}, logsOpen' \in BOOLEAN, hasty' \in BOOLEAN
  PROVE  LogInv'
<1> DEFINE r == Request(state, filter)
           sent == [i \in 1..n |-> r]
<1>1. /\ r \in LogRead /\ r.filter = filter /\ r.offset = state.offset /\ r.limit = state.limit
      /\ r.answer = NoEntry /\ r.overtaken = FALSE
  BY DEF Request, LogRead, LogState
<1> HIDE DEF r
<1>2. sent \in Seq(LogRead) /\ Len(sent) = n /\ \A i \in 1..n : sent[i] = r
  BY <1>1
<1>3. /\ logsState' = state /\ logFilter' = filter /\ reads' = reads \o sent
      /\ reads \in Seq(LogRead) /\ Len(reads) \in Nat /\ DOMAIN reads = 1..Len(reads)
  BY DEF Load, LogInv, LogTyped, r
<1> HIDE DEF sent
<1>4. /\ reads' \in Seq(LogRead) /\ Len(reads') = Len(reads) + n
      /\ \A i \in 1..Len(reads) : reads'[i] = reads[i]
      /\ \A i \in 1..n : reads'[Len(reads) + i] = r
  BY <1>2, <1>3
<1>5. /\ DOMAIN reads' = 1..(Len(reads) + n)
      /\ \A i \in DOMAIN reads' : IF i \in DOMAIN reads THEN reads'[i] = reads[i] ELSE reads'[i] = r
  <2>1. DOMAIN reads' = 1..(Len(reads) + n)
    BY <1>4
  <2>2. ASSUME NEW i \in DOMAIN reads', i \notin DOMAIN reads PROVE reads'[i] = r
    <3>1. i - Len(reads) \in 1..n /\ i = Len(reads) + (i - Len(reads))
      BY <1>3, <2>1, <2>2
    <3> QED BY <1>4, <3>1
  <2> QED BY <1>3, <1>4, <2>1, <2>2
<1>6. OvertakenFirst(reads')
  <2> SUFFICES ASSUME NEW i \in DOMAIN reads', NEW j \in DOMAIN reads', i < j, reads'[j].overtaken
               PROVE  reads'[i].overtaken
    BY DEF OvertakenFirst
  <2>1. j \in DOMAIN reads
    BY <1>1, <1>5
  <2>2. i \in DOMAIN reads
    BY <1>3, <1>5, <2>1
  <2> QED BY <1>5, <2>1, <2>2 DEF LogInv, PageAsked, OvertakenFirst
<1>7. reads' # <<>> /\ reads'[Len(reads')] = r
  BY <1>3, <1>4
<1>8. PageAsked'
  BY <1>1, <1>3, <1>6, <1>7 DEF PageAsked, AsksPage
<1>9. LogTyped'
  <2>1. listing'.entries \subseteq Nat /\ listing'.pages \in Nat
    BY DEF EmptyListing, LogInv, LogTyped
  <2> QED BY <1>3, <1>4, <2>1 DEF LogInv, LogTyped
<1>10. RowsCounted'
  <2>1. \A f : Count(f)' = Count(f)
    BY CountsKept
  <2>2. logsState'.total <= Count(counted)'
    BY <1>3, <2>1 DEF LogInv, RowsCounted
  <2>3. \A i \in DOMAIN reads' :
          reads'[i].answer # NoEntry => reads'[i].answer.total <= Count(reads'[i].filter)
    BY <1>1, <1>5 DEF LogInv, RowsCounted
  <2>4. \A i \in DOMAIN reads' : Count(reads[i].filter)' = Count(reads'[i].filter)
    BY <2>1
  <2> QED BY <1>3, <2>1, <2>2, <2>3, <2>4 DEF RowsCounted
<1>11. DetailAsked'
  BY DEF LogInv, DetailAsked
<1> QED BY <1>8, <1>9, <1>10, <1>11 DEF LogInv

LEMMA FirstPageKeeps ==
  ASSUME LogInv,
         \/ \E filter \in LogFilters : SetFilter(filter)
         \/ \E size \in PageSize : SetPageSize(size)
  PROVE  LogInv'
<1>1. /\ logsState \in LogState /\ logFilter \in LogFilters
      /\ hasty \in BOOLEAN /\ logsOpen \in BOOLEAN
  BY DEF LogInv, LogTyped
<1>2. ASSUME NEW filter \in LogFilters, NEW size \in PageSize,
             LoadLogs([logsState EXCEPT !.offset = 0, !.limit = size], filter), UNCHANGED hasty
      PROVE  LogInv'
  <2> DEFINE state == [logsState EXCEPT !.offset = 0, !.limit = size]
  <2>1. state \in LogState /\ state.offset = 0 /\ state.total = logsState.total
    BY <1>1 DEF LogState
  <2>2. /\ Load(state, filter, 1)
        /\ UNCHANGED <<logTable, logsOpen, listing, modal, details, counted, astray, mixed>>
    BY <1>2 DEF LoadLogs
  <2> HIDE DEF state
  <2> QED BY <1>1, <1>2, <2>1, <2>2, LoadKeeps
<1>3. ASSUME NEW filter \in LogFilters, SetFilter(filter) PROVE LogInv'
  <2>1. logsState.limit \in PageSize
        /\ [logsState EXCEPT !.offset = 0]
             = [logsState EXCEPT !.offset = 0, !.limit = logsState.limit]
    BY <1>1 DEF LogState
  <2> QED BY <1>2, <1>3, <2>1 DEF SetFilter
<1>4. ASSUME NEW size \in PageSize, SetPageSize(size) PROVE LogInv'
  BY <1>1, <1>2, <1>4 DEF SetPageSize
<1> QED BY <1>3, <1>4

\* A page turn ends on a page that exists, by the total that was counted.
LEMMA GoToPageKeeps ==
  ASSUME LogInv, NEW page \in Int, GoToPage(page)
  PROVE  LogInv'
<1> DEFINE clamped == Min({Max({1, page}), Pages(logsState)})
           state == [logsState EXCEPT !.offset = (clamped - 1) * logsState.limit]
           q == (logsState.total + logsState.limit - 1) \div logsState.limit
<1>1. /\ logsState \in LogState /\ logFilter \in LogFilters /\ counted \in LogFilters
      /\ hasty \in BOOLEAN /\ logsOpen \in BOOLEAN /\ logTable \in Seq(LogKind)
  BY DEF LogInv, LogTyped
<1>2. logsState.total \in Nat /\ logsState.limit \in Nat \ {0} /\ logsState.limit \in PageSize
  BY <1>1, LogAssumption DEF LogState
<1>3. q \in Int
  BY <1>2
<1>4. Pages(logsState) = Max({1, q})
  BY DEF Pages
<1> HIDE DEF q
<1>5. Pages(logsState) \in Nat \ {0} /\ (Pages(logsState) > 1 => Pages(logsState) = q)
  <2>1. 1 \in Int
    OBVIOUS
  <2>2. Max({1, q}) \in {1, q} /\ Max({1, q}) >= 1
    BY <1>3, <2>1, PairMax, Zenon
  <2> QED BY <1>3, <1>4, <2>2
<1>6. Max({1, page}) \in Nat \ {0}
  BY PairMax
<1>7. clamped \in Nat \ {0} /\ clamped <= Pages(logsState)
  <2>1. Max({1, page}) \in Int /\ Pages(logsState) \in Int
    BY <1>5, <1>6
  <2>2. clamped \in {Max({1, page}), Pages(logsState)} /\ clamped <= Pages(logsState)
    BY <2>1, PairMin, Zenon
  <2> HIDE DEF clamped
  <2> QED BY <1>5, <1>6, <2>2
<1>8. /\ LoadLogs(state, logFilter) /\ hasty' = (clamped > 1 /\ counted # logFilter)
  BY DEF GoToPage
<1> HIDE DEF clamped
<1>9. clamped > 1 => clamped <= q
  BY <1>5, <1>7
<1>10. /\ (clamped - 1) * logsState.limit \in Nat
       /\ clamped > 1 => (clamped - 1) * logsState.limit < logsState.total
       /\ ~(clamped > 1) => (clamped - 1) * logsState.limit = 0
  <2>1. CASE clamped > 1
    BY <1>2, <1>7, <1>9, <2>1, PageStarts DEF q
  <2>2. CASE ~(clamped > 1)
    <3>1. clamped = 1
      BY <1>7, <2>2
    <3> QED BY <1>2, <3>1
  <2> QED BY <2>1, <2>2
<1>11. PICK offset \in Nat : /\ offset = (clamped - 1) * logsState.limit
                             /\ clamped > 1 => offset < logsState.total
                             /\ ~(clamped > 1) => offset = 0
  BY <1>10
<1>12. /\ state \in LogState /\ state.total = logsState.total /\ state.offset = offset
  BY <1>1, <1>11 DEF LogState
<1>13. ~hasty' => state.offset = 0 \/ state.offset < Count(logFilter)
  <2>1. logsState.total <= Count(counted) /\ Count(counted) \in Nat
    BY <1>1, MatchingFinite DEF LogInv, RowsCounted
  <2>2. CASE clamped > 1
    <3>1. ~hasty' => counted = logFilter
      BY <1>8, <2>2
    <3>2. offset < Count(counted)
      BY <1>2, <1>11, <2>1, <2>2
    <3> HIDE DEF state
    <3> QED BY <1>12, <3>1, <3>2
  <2>3. CASE ~(clamped > 1)
    <3> HIDE DEF state
    <3> QED BY <1>11, <1>12, <2>3
  <2> QED BY <2>2, <2>3
<1>14. /\ Load(state, logFilter, 1) /\ hasty' \in BOOLEAN
       /\ UNCHANGED <<logTable, logsOpen, listing, modal, details, counted, astray, mixed>>
  BY <1>8 DEF LoadLogs
<1> HIDE DEF state
<1> QED BY <1>1, <1>12, <1>13, <1>14, LoadKeeps

\* A page turn goes to a page.
LEMMA TurnsTo ==
  ASSUME LogInv, TurnPage
  PROVE  \E page \in Int : GoToPage(page)
<1>1. CurrentPage(logsState) \in Int /\ Pages(logsState) \in Int
  <2>1. logsState.total \in Nat /\ logsState.offset \in Nat /\ logsState.limit \in Nat \ {0}
    BY LogAssumption DEF LogInv, LogTyped, LogState
  <2>2. (logsState.total + logsState.limit - 1) \div logsState.limit \in Int
        /\ logsState.offset \div logsState.limit \in Int
    BY <2>1
  <2> DEFINE q == (logsState.total + logsState.limit - 1) \div logsState.limit
  <2>3. q \in Int /\ 1 \in Int
    BY <2>2
  <2>4. Pages(logsState) = Max({1, q})
    BY DEF Pages
  <2> HIDE DEF q
  <2>5. Max({1, q}) \in {1, q}
    BY <2>3, PairMax, Zenon
  <2>6. CurrentPage(logsState) \in Int
    BY <2>2 DEF CurrentPage
  <2> QED BY <2>3, <2>4, <2>5, <2>6
<1>2. \A page \in 1..listing.pages : page \in Int
  BY DEF LogInv, LogTyped
<1>3. CurrentPage(logsState) - 1 \in Int /\ CurrentPage(logsState) + 1 \in Int /\ 1 \in Int
  BY <1>1
<1> QED BY <1>1, <1>2, <1>3 DEF TurnPage

LEMMA TurnPageKeeps == LogInv /\ TurnPage => LogInv'
  BY TurnsTo, GoToPageKeeps

LEMMA OpenLogsKeeps ==
  ASSUME LogInv, OpenLogs
  PROVE  LogInv'
<1>1. logsState \in LogState /\ logFilter \in LogFilters /\ hasty \in BOOLEAN
  BY DEF LogInv, LogTyped
<1>2. /\ Load(logsState, logFilter, 1) /\ logsOpen' = TRUE
      /\ UNCHANGED <<logTable, listing, modal, details, counted, astray, hasty, mixed>>
  BY DEF OpenLogs
<1>3. ~hasty' => logsState.offset = 0 \/ logsState.offset < Count(logFilter)
  BY <1>2 DEF LogInv, RowsCounted
<1> QED BY <1>1, <1>2, <1>3, LoadKeeps

LEMMA LeaveLogsKeeps ==
  ASSUME LogInv, LeaveLogs
  PROVE  LogInv'
<1>1. /\ logsOpen' = FALSE
      /\ UNCHANGED <<logTable, logsState, logFilter, listing, reads, modal, details, counted,
                     astray, hasty, mixed>>
  BY DEF LeaveLogs
<1>2. RowsCounted'
  BY <1>1 DEF LogInv, RowsCounted, Count, Matching
<1> QED BY <1>1, <1>2 DEF LogInv, LogTyped, PageAsked, DetailAsked

LEMMA RebuildLogsKeeps ==
  ASSUME LogInv, RebuildLogs
  PROVE  LogInv'
<1>1. /\ logsState \in LogState /\ hasty \in BOOLEAN /\ logsOpen \in BOOLEAN
      /\ logTable \in Seq(LogKind) /\ reads \in Seq(LogRead) /\ NoFilter \in LogFilters
      /\ logFilter \in LogFilters
  BY DEF LogInv, LogTyped, LogFilters
<1>2. ~hasty => logsState.offset = 0 \/ logsState.offset < Count(NoFilter)
  <2>1. /\ Count(logFilter) <= Count(NoFilter) /\ Count(logFilter) \in Nat
        /\ Count(NoFilter) \in Nat /\ logsState.offset \in Nat
    BY <1>1, NoFilterCountsAll, MatchingFinite DEF LogState
  <2> QED BY <2>1 DEF LogInv, RowsCounted
<1>3. /\ listing' = EmptyListing
      /\ UNCHANGED <<logTable, logsOpen, modal, details, counted, astray, hasty, mixed>>
  BY DEF RebuildLogs, Rebuild
<1>4. CASE logsOpen
  <2>1. Load(logsState, NoFilter, 2)
    BY <1>4 DEF RebuildLogs, Rebuild
  <2> QED BY <1>1, <1>2, <1>3, <2>1, LoadKeeps
<1>5. CASE ~logsOpen
  <2>1. Load(logsState, NoFilter, 0)
    BY <1>5 DEF RebuildLogs, Rebuild
  <2>2. [i \in 1..0 |-> Request(logsState, NoFilter)] = <<>>
    OBVIOUS
  <2>3. reads' = reads /\ logsState' = logsState /\ logFilter' = NoFilter
    BY <1>1, <2>1, <2>2 DEF Load
  <2>4. LogTyped'
    BY <1>1, <1>3, <2>3 DEF LogInv, LogTyped, EmptyListing
  <2>5. PageAsked' /\ DetailAsked'
    BY <1>3, <1>5, <2>3 DEF LogInv, PageAsked, DetailAsked
  <2>6. RowsCounted'
    <3>1. \A f : Count(f)' = Count(f)
      BY <1>3, CountsKept
    <3>2. \A i \in DOMAIN reads' : Count(reads[i].filter)' = Count(reads'[i].filter)
      BY <2>3, <3>1
    <3> QED BY <1>2, <1>3, <2>3, <3>1, <3>2 DEF LogInv, RowsCounted
  <2> QED BY <2>4, <2>5, <2>6 DEF LogInv
<1> QED BY <1>1, <1>4, <1>5

-----------------------------------------------------------------------------
\* The server answers a request with the rows there are.
LEMMA AnswerLogsKeeps ==
  ASSUME LogInv, NEW i \in DOMAIN reads, AnswerLogs(i)
  PROVE  LogInv'
<1> DEFINE answer == [entries |-> PageOf(reads[i].filter, reads[i].offset, reads[i].limit),
                      total |-> Count(reads[i].filter)]
           k == [reads[i] EXCEPT !.answer = answer]
<1>1. /\ logTable \in Seq(LogKind) /\ reads \in Seq(LogRead) /\ reads[i] \in LogRead
      /\ DOMAIN reads = 1..Len(reads) /\ Len(reads) \in Nat
      /\ reads[i].answer = NoEntry
      /\ UNCHANGED <<logTable, logsOpen, logsState, logFilter, listing, modal, details, counted,
                     astray, hasty, mixed>>
  BY DEF LogInv, LogTyped, AnswerLogs
<1>2. answer \in LogAnswer /\ answer.total = Count(reads[i].filter)
  <2>1. PageOf(reads[i].filter, reads[i].offset, reads[i].limit) \subseteq Nat
    <3>1. DOMAIN logTable \subseteq Nat
      BY <1>1
    <3> QED BY <1>1, <3>1, MatchingFinite DEF PageOf
  <2> QED BY <1>1, <2>1, MatchingFinite DEF LogAnswer
<1>3. reads' = [reads EXCEPT ![i] = k]
  BY DEF AnswerLogs, Count
<1> HIDE DEF answer
<1>4. /\ k \in LogRead /\ k.answer = answer /\ k.filter = reads[i].filter
      /\ k.offset = reads[i].offset /\ k.limit = reads[i].limit
      /\ k.overtaken = reads[i].overtaken
  BY <1>1, <1>2 DEF LogRead
<1> HIDE DEF k
<1>5. /\ reads' \in Seq(LogRead) /\ Len(reads') = Len(reads) /\ DOMAIN reads' = DOMAIN reads
      /\ \A j \in DOMAIN reads : reads'[j] = IF j = i THEN k ELSE reads[j]
  BY <1>1, <1>3, <1>4
<1>6. LogTyped'
  BY <1>1, <1>5 DEF LogInv, LogTyped
<1>7. RowsCounted'
  <2>1. \A f : Count(f)' = Count(f)
    BY <1>1, CountsKept
  <2>2. \A j \in DOMAIN reads' : Count(reads[j].filter)' = Count(reads'[j].filter)
    BY <2>1
  <2>3. Count(reads[i].filter) \in Nat
    BY <1>1, MatchingFinite
  <2>4. \A j \in DOMAIN reads' :
          reads'[j].answer # NoEntry => reads'[j].answer.total <= Count(reads'[j].filter)
    BY <1>2, <1>4, <1>5, <2>3 DEF LogInv, RowsCounted
  <2> QED BY <1>1, <2>1, <2>2, <2>4 DEF LogInv, RowsCounted
<1>8. PageAsked'
  <2>1. OvertakenFirst(reads')
    BY <1>4, <1>5 DEF LogInv, PageAsked, OvertakenFirst
  <2>2. reads # <<>> /\ reads' # <<>>
    BY <1>1, <1>5
  <2>3. reads'[Len(reads')].overtaken = reads[Len(reads)].overtaken
    BY <1>1, <1>4, <1>5
  <2>4. ASSUME logsOpen, ~reads[Len(reads)].overtaken
        PROVE  AsksPage(reads[Len(reads)])'
    <3>1. AsksPage(reads[Len(reads)])
      BY <2>2, <2>4 DEF LogInv, PageAsked
    <3>2. CASE i = Len(reads)
      <4>1. reads'[Len(reads')] = k
        BY <1>5, <3>2
      <4>2. ~hasty => k.offset = 0 \/ k.offset < k.answer.total
        BY <1>2, <1>4, <3>1, <3>2 DEF AsksPage, LogInv, RowsCounted
      <4> QED BY <1>1, <1>4, <3>1, <3>2, <4>1, <4>2 DEF AsksPage
    <3>3. CASE i # Len(reads)
      <4>1. reads'[Len(reads')] = reads[Len(reads)]
        BY <1>1, <1>5, <3>3
      <4> QED BY <1>1, <3>1, <4>1 DEF AsksPage
    <3> QED BY <3>2, <3>3
  <2> QED BY <1>1, <2>1, <2>2, <2>3, <2>4 DEF LogInv, PageAsked, PageShown, CurrentPage
<1>9. DetailAsked'
  BY <1>1 DEF LogInv, DetailAsked
<1> QED BY <1>6, <1>7, <1>8, <1>9 DEF LogInv

\* A request is settled: what is left of those under way.
LEMMA ReadsSettle ==
  ASSUME LogInv, NEW i \in DOMAIN reads, Settle(i)
  PROVE  /\ reads[i] \in LogRead
         /\ reads' \in Seq(LogRead) /\ OvertakenFirst(reads')
         /\ \A j \in DOMAIN reads' : \E k \in DOMAIN reads :
              reads'[j].answer = reads[k].answer /\ reads'[j].filter = reads[k].filter
         /\ i = Len(reads) /\ reads' # <<>> => reads'[Len(reads')].overtaken
         /\ i # Len(reads) => LET last == reads[Len(reads)]
                                  left == reads'[Len(reads')]
                              IN  /\ reads' # <<>> /\ reads # <<>>
                                  /\ left.filter = last.filter /\ left.offset = last.offset
                                  /\ left.limit = last.limit /\ left.answer = last.answer
                                  /\ left.overtaken <=> last.overtaken
                                  /\ last.overtaken => reads[i].overtaken
<1> DEFINE marked == [j \in DOMAIN reads |-> [reads[j] EXCEPT !.overtaken = @ \/ j < i]]
<1>1. /\ reads \in Seq(LogRead) /\ Len(reads) \in Nat /\ i \in 1..Len(reads)
      /\ DOMAIN reads = 1..Len(reads)
  BY DEF LogInv, LogTyped
<1>2. ASSUME NEW j \in DOMAIN reads
      PROVE  /\ marked[j] \in LogRead /\ marked[j].filter = reads[j].filter
             /\ marked[j].offset = reads[j].offset /\ marked[j].limit = reads[j].limit
             /\ marked[j].answer = reads[j].answer
             /\ marked[j].overtaken <=> reads[j].overtaken \/ j < i
  <2>1. reads[j] \in LogRead
    BY <1>1
  <2>2. PICK o \in BOOLEAN : o <=> reads[j].overtaken \/ j < i
    OBVIOUS
  <2>3. marked[j] = [reads[j] EXCEPT !.overtaken = o]
    BY <2>1, <2>2 DEF LogRead
  <2> HIDE DEF marked
  <2> QED BY <2>1, <2>2, <2>3 DEF LogRead
<1>3. marked \in Seq(LogRead) /\ Len(marked) = Len(reads) /\ DOMAIN marked = DOMAIN reads
  <2>1. DOMAIN marked = 1..Len(reads)
    BY <1>1
  <2>2. \A j \in 1..Len(reads) : marked[j] \in LogRead
    BY <1>1, <1>2
  <2>3. marked = [j \in 1..Len(reads) |-> marked[j]]
    BY <2>1
  <2> HIDE DEF marked
  <2> QED BY <1>1, <2>1, <2>2, <2>3
<1>4. reads' = RemoveAt(marked, i)
  BY DEF Settle
<1>5. Marks(reads, i, marked)
  BY <1>2, <1>3 DEF Marks
<1> HIDE DEF marked
<1>6. /\ reads' \in Seq(LogRead) /\ OvertakenFirst(reads')
      /\ \A j \in DOMAIN reads' : \E k \in DOMAIN reads : reads'[j] = marked[k]
      /\ i = Len(reads) /\ reads' # <<>> => reads'[Len(reads')].overtaken
      /\ i # Len(reads) => /\ reads' # <<>> /\ reads # <<>> /\ Len(reads) \in DOMAIN reads
                           /\ reads'[Len(reads')] = marked[Len(reads)]
                           /\ reads'[Len(reads')].overtaken <=> reads[Len(reads)].overtaken
                           /\ reads[Len(reads)].overtaken => reads[i].overtaken
  <2>1. OvertakenFirst(reads)
    BY DEF LogInv, PageAsked
  <2> DEFINE left == RemoveAt(marked, i)
  <2>2. /\ left \in Seq(LogRead) /\ OvertakenFirst(left)
        /\ i = Len(reads) /\ left # <<>> => left[Len(left)].overtaken
        /\ i # Len(reads) => /\ left # <<>> /\ reads # <<>> /\ Len(reads) \in DOMAIN reads
                             /\ left[Len(left)] = marked[Len(reads)]
                             /\ left[Len(left)].overtaken <=> reads[Len(reads)].overtaken
                             /\ reads[Len(reads)].overtaken => reads[i].overtaken
    BY <1>1, <1>3, <1>5, <2>1, SettledOvertakes
  <2>3. \A j \in DOMAIN left : \E k \in DOMAIN reads : left[j] = marked[k]
    BY <1>1, <1>3, RemovedElement
  <2> HIDE DEF left
  <2>4. reads' = left
    BY <1>4 DEF left
  <2> QED BY <2>2, <2>3, <2>4, Zenon
<1>7. reads[i] \in LogRead
  BY <1>1
<1>8. ASSUME NEW j \in DOMAIN reads'
      PROVE  \E k \in DOMAIN reads :
               reads'[j].answer = reads[k].answer /\ reads'[j].filter = reads[k].filter
  <2>1. PICK k \in DOMAIN reads : reads'[j] = marked[k]
    BY <1>6
  <2> QED BY <1>2, <2>1
<1>9. ASSUME i # Len(reads)
      PROVE  LET last == reads[Len(reads)]
                 left == reads'[Len(reads')]
             IN  /\ left.filter = last.filter /\ left.offset = last.offset
                 /\ left.limit = last.limit /\ left.answer = last.answer
  BY <1>2, <1>6, <1>9
<1> QED BY <1>6, <1>7, <1>8, <1>9

\* What was counted of the requests still under way is there.
LEMMA RowsStayCounted ==
  ASSUME LogInv, UNCHANGED <<logTable, logFilter, hasty>>, logsState'.offset = logsState.offset,
         logsState'.total <= Count(counted'),
         \A j \in DOMAIN reads' : \E k \in DOMAIN reads :
           reads'[j].answer = reads[k].answer /\ reads'[j].filter = reads[k].filter
  PROVE  RowsCounted'
<1>1. \A f : Count(f)' = Count(f)
  BY CountsKept
<1>2. ASSUME NEW j \in DOMAIN reads', reads'[j].answer # NoEntry
      PROVE  reads'[j].answer.total <= Count(reads[j].filter)'
  <2>1. PICK k \in DOMAIN reads :
          reads'[j].answer = reads[k].answer /\ reads'[j].filter = reads[k].filter
    OBVIOUS
  <2>2. reads'[j].answer.total <= Count(reads'[j].filter)
    BY <1>2, <2>1 DEF LogInv, RowsCounted
  <2>3. Count(reads[j].filter)' = Count(reads'[j].filter)
    BY <1>1
  <2> QED BY <2>2, <2>3
<1>3. Count(counted)' = Count(counted') /\ Count(logFilter)' = Count(logFilter)
  BY <1>1
<1> QED BY <1>2, <1>3 DEF LogInv, RowsCounted

\* An answer is taken: the page is drawn of it, and of the state of the viewer by then.
LEMMA TakeLogsKeeps ==
  ASSUME LogInv, NEW i \in DOMAIN reads, TakeLogs(i)
  PROVE  LogInv'
<1> DEFINE read == reads[i]
           state == [logsState EXCEPT !.total = read.answer.total]
<1>1. /\ read \in LogRead /\ reads' \in Seq(LogRead) /\ OvertakenFirst(reads')
      /\ \A j \in DOMAIN reads' : \E k \in DOMAIN reads :
           reads'[j].answer = reads[k].answer /\ reads'[j].filter = reads[k].filter
      /\ i = Len(reads) /\ reads' # <<>> => reads'[Len(reads')].overtaken
      /\ i # Len(reads) => LET last == reads[Len(reads)]
                               left == reads'[Len(reads')]
                           IN  /\ reads' # <<>> /\ reads # <<>>
                               /\ left.filter = last.filter /\ left.offset = last.offset
                               /\ left.limit = last.limit /\ left.answer = last.answer
                               /\ left.overtaken <=> last.overtaken
                               /\ last.overtaken => reads[i].overtaken
  BY ReadsSettle DEF TakeLogs
<1>2. /\ logsState \in LogState /\ read.answer # NoEntry /\ read.answer \in LogAnswer
      /\ read.answer.total \in Nat /\ read.answer.entries \subseteq Nat
      /\ read.filter \in LogFilters
      /\ modal \in [open : BOOLEAN, shows : ModalShows, clicked : ModalShows] /\ reads # <<>>
  BY <1>1 DEF LogInv, LogTyped, TakeLogs, LogRead, LogAnswer
<1>3. state \in LogState /\ state.offset = logsState.offset /\ state.limit = logsState.limit
      /\ state.total = read.answer.total
  BY <1>2 DEF LogState
<1>4. /\ logsState' = state /\ counted' = read.filter
      /\ astray' = IF read.overtaken THEN TRUE ELSE IF i = Len(reads) THEN FALSE ELSE astray
      /\ modal' = [modal EXCEPT !.open = FALSE]
      /\ UNCHANGED <<logTable, logsOpen, logFilter, details, hasty, mixed>>
  BY DEF TakeLogs
<1>5. listing' = Drawn(state, read.answer.entries, <<read.filter, read.offset, read.limit>>)
  BY DEF TakeLogs
<1>6. /\ listing'.entries = read.answer.entries /\ listing'.pages = Pages(state)
      /\ listing'.page = CurrentPage(state)
      /\ listing'.from = IF state.total = 0 THEN 0 ELSE state.offset + 1
      /\ listing'.answers = <<read.filter, read.offset, read.limit>>
  <2> HIDE DEF state
  <2> QED BY <1>5 DEF Drawn
<1> HIDE DEF state
<1>7. Pages(state) \in Nat
  <2> DEFINE q == (state.total + state.limit - 1) \div state.limit
  <2>1. q \in Int /\ 1 \in Int
    <3>1. state.total \in Nat /\ state.limit \in Nat \ {0}
      BY <1>3, LogAssumption DEF LogState
    <3> QED BY <3>1
  <2>2. Pages(state) = Max({1, q})
    BY DEF Pages
  <2> HIDE DEF q
  <2>3. Max({1, q}) \in {1, q} /\ Max({1, q}) >= 1
    BY <2>1, PairMax, Zenon
  <2> QED BY <2>1, <2>2, <2>3
<1>8. LogTyped'
  BY <1>1, <1>2, <1>3, <1>4, <1>6, <1>7 DEF LogInv, LogTyped
<1>9. RowsCounted'
  <2>1. read.answer.total <= Count(read.filter)
    BY <1>2 DEF LogInv, RowsCounted
  <2> QED BY <1>1, <1>3, <1>4, <2>1, RowsStayCounted
<1>10. PageAsked'
  <2>1. CASE i = Len(reads)
    <3>1. (reads' # <<>> => reads'[Len(reads')].overtaken) /\ (~astray' => ~read.overtaken)
      BY <1>1, <1>4, <2>1
    <3>2. ASSUME logsOpen, ~astray'
          PROVE  PageShown'
      <4>1. AsksPage(read)
        BY <1>2, <2>1, <3>1, <3>2 DEF LogInv, PageAsked
      <4> HIDE DEF read
      <4> QED BY <1>2, <1>3, <1>4, <1>6, <4>1 DEF AsksPage, PageShown
    <3> QED BY <1>1, <1>4, <3>1, <3>2 DEF PageAsked
  <2>2. CASE i # Len(reads)
    <3> DEFINE last == reads[Len(reads)]
               left == reads'[Len(reads')]
    <3>1. /\ reads' # <<>> /\ reads # <<>>
          /\ left.filter = last.filter /\ left.offset = last.offset
          /\ left.limit = last.limit /\ left.answer = last.answer
          /\ left.overtaken <=> last.overtaken
          /\ last.overtaken => reads[i].overtaken
      BY <1>1, <2>2
    <3>2. logsOpen /\ ~last.overtaken => AsksPage(last)
      BY <3>1 DEF LogInv, PageAsked
    <3> HIDE DEF last
    <3>3. left.overtaken => astray'
      BY <1>4, <3>1
    <3>4. logsOpen' /\ ~left.overtaken => AsksPage(reads[Len(reads)])'
      BY <1>3, <1>4, <3>1, <3>2 DEF AsksPage
    <3> QED BY <1>1, <3>1, <3>3, <3>4 DEF PageAsked
  <2> QED BY <2>1, <2>2
<1>11. DetailAsked'
  BY <1>2, <1>4 DEF LogInv, DetailAsked
<1> QED BY <1>8, <1>9, <1>10, <1>11 DEF LogInv

LEMMA FailLogsKeeps ==
  ASSUME LogInv, NEW i \in DOMAIN reads, FailLogs(i)
  PROVE  LogInv'
<1>1. /\ reads' \in Seq(LogRead) /\ OvertakenFirst(reads')
      /\ \A j \in DOMAIN reads' : \E k \in DOMAIN reads :
           reads'[j].answer = reads[k].answer /\ reads'[j].filter = reads[k].filter
      /\ i # Len(reads) => LET last == reads[Len(reads)]
                               left == reads'[Len(reads')]
                           IN  /\ reads' # <<>> /\ reads # <<>>
                               /\ left.filter = last.filter /\ left.offset = last.offset
                               /\ left.limit = last.limit /\ left.answer = last.answer
                               /\ left.overtaken <=> last.overtaken
      /\ i = Len(reads) /\ reads' # <<>> => reads'[Len(reads')].overtaken
  BY ReadsSettle DEF FailLogs
<1>2. /\ astray' = (astray \/ i = Len(reads))
      /\ UNCHANGED <<logTable, logsOpen, logsState, logFilter, listing, modal, details, counted,
                     hasty, mixed>>
  BY DEF FailLogs
<1>3. LogTyped'
  BY <1>1, <1>2 DEF LogInv, LogTyped
<1>4. RowsCounted'
  <2>1. logsState'.total <= Count(counted')
    BY <1>2 DEF LogInv, RowsCounted
  <2> QED BY <1>1, <1>2, <2>1, RowsStayCounted
<1>5. PageAsked'
  <2>1. CASE i = Len(reads)
    BY <1>1, <1>2, <2>1 DEF PageAsked
  <2>2. CASE i # Len(reads)
    <3> DEFINE last == reads[Len(reads)]
               left == reads'[Len(reads')]
    <3>1. /\ reads' # <<>> /\ reads # <<>>
          /\ left.filter = last.filter /\ left.offset = last.offset
          /\ left.limit = last.limit /\ left.answer = last.answer
          /\ left.overtaken <=> last.overtaken
      BY <1>1, <2>2
    <3>2. /\ logsOpen /\ ~last.overtaken => AsksPage(last)
          /\ logsOpen /\ last.overtaken /\ ~astray => PageShown
      BY <3>1 DEF LogInv, PageAsked
    <3> HIDE DEF last
    <3>3. logsOpen' /\ ~left.overtaken => AsksPage(reads[Len(reads)])'
      BY <1>2, <3>1, <3>2 DEF AsksPage
    <3>4. logsOpen' /\ left.overtaken /\ ~astray' => PageShown'
      BY <1>2, <3>1, <3>2 DEF PageShown, CurrentPage
    <3> QED BY <1>1, <3>1, <3>3, <3>4 DEF PageAsked
  <2> QED BY <2>1, <2>2
<1>6. DetailAsked'
  BY <1>2 DEF LogInv, DetailAsked
<1> QED BY <1>3, <1>4, <1>5, <1>6 DEF LogInv

-----------------------------------------------------------------------------
\* The window.
LEMMA WindowKeeps ==
  ASSUME LogInv,
         \/ \E id \in listing.entries : ShowDetail(id)
         \/ \E i \in DOMAIN details : TakeDetail(i)
         \/ HideDetail
  PROVE  LogInv'
<1>1. UNCHANGED <<logTable, logsOpen, logsState, logFilter, listing, reads, counted, astray, hasty>>
  BY DEF ShowDetail, TakeDetail, HideDetail
<1>2. RowsCounted' /\ PageAsked'
  BY <1>1 DEF LogInv, RowsCounted, Count, Matching, PageAsked, AsksPage, PageShown, CurrentPage
<1>3. /\ modal \in [open : BOOLEAN, shows : ModalShows, clicked : ModalShows]
      /\ details \in Seq(Nat) /\ mixed \in BOOLEAN
  BY DEF LogInv, LogTyped
<1>4. /\ modal' \in [open : BOOLEAN, shows : ModalShows, clicked : ModalShows]
      /\ details' \in Seq(Nat) /\ mixed' \in BOOLEAN
      /\ DetailAsked'
  <2>1. ASSUME NEW id \in listing.entries, ShowDetail(id)
        PROVE  /\ modal' \in [open : BOOLEAN, shows : ModalShows, clicked : ModalShows]
               /\ details' \in Seq(Nat) /\ mixed' \in BOOLEAN
               /\ DetailAsked'
    <3>1. /\ modal' = [open |-> TRUE, shows |-> Loading, clicked |-> id]
          /\ details' = Append(details, id) /\ mixed' = (details # <<>>) /\ id \in Nat
      BY <2>1 DEF ShowDetail, LogInv, LogTyped
    <3>2. modal' \in [open : BOOLEAN, shows : ModalShows, clicked : ModalShows]
      BY <3>1 DEF ModalShows
    <3>3. details = <<>> => Len(details') = 1 /\ details'[1] = id
      BY <3>1
    <3>4. details' # <<>> /\ details' \in Seq(Nat)
      BY <1>3, <3>1
    <3>5. DetailAsked'
      <4> SUFFICES ASSUME details = <<>>
                   PROVE  Len(details') <= 1 /\ \A i \in DOMAIN details' : details'[i] = id
        BY <3>1, <3>4 DEF DetailAsked
      <4>1. Len(details') = 1 /\ details'[1] = id
        BY <3>3
      <4>2. DOMAIN details' = {1}
        BY <3>4, <4>1
      <4> QED BY <4>1, <4>2
    <3> QED BY <1>3, <3>1, <3>2, <3>4, <3>5
  <2>2. ASSUME NEW i \in DOMAIN details, TakeDetail(i)
        PROVE  /\ modal' \in [open : BOOLEAN, shows : ModalShows, clicked : ModalShows]
               /\ details' \in Seq(Nat) /\ mixed' \in BOOLEAN
               /\ DetailAsked'
    <3>1. PICK shows \in {details[i], Failed} : modal' = [modal EXCEPT !.shows = shows]
      BY <2>2 DEF TakeDetail
    <3>2. details' = RemoveAt(details, i) /\ mixed' = mixed
      BY <2>2 DEF TakeDetail
    <3>3. details' \in Seq(Nat) /\ Len(details') = Len(details) - 1
      BY <1>3, <3>2, Removed
    <3>4. shows \in ModalShows
      BY <1>3 DEF ModalShows
    <3>5. /\ modal' \in [open : BOOLEAN, shows : ModalShows, clicked : ModalShows]
          /\ modal'.shows = shows /\ modal'.clicked = modal.clicked
      BY <1>3, <3>1, <3>4
    <3>6. ~mixed => Len(details') = 0 /\ shows \in {modal.clicked, Failed}
      BY <1>3, <3>3 DEF LogInv, DetailAsked
    <3>7. DetailAsked'
      <4> SUFFICES ASSUME ~mixed
                   PROVE  /\ Len(details') <= 1
                          /\ \A j \in DOMAIN details' : details'[j] = modal'.clicked
                          /\ modal'.shows \in {modal'.clicked, Failed}
        BY <3>2 DEF DetailAsked
      <4>1. Len(details') = 0 /\ shows \in {modal.clicked, Failed}
        BY <3>6
      <4>2. DOMAIN details' = 1..Len(details')
        BY <3>3
      <4>3. \A j \in DOMAIN details' : FALSE
        BY <4>1, <4>2
      <4> QED BY <3>5, <4>1, <4>3
    <3> QED BY <1>3, <3>2, <3>3, <3>5, <3>7
  <2>3. CASE HideDetail
    BY <1>3, <2>3 DEF HideDetail, LogInv, DetailAsked
  <2> QED BY <2>1, <2>2, <2>3
<1>5. LogTyped'
  BY <1>1, <1>4 DEF LogInv, LogTyped
<1> QED BY <1>2, <1>4, <1>5 DEF LogInv

LEMMA LogStep == LogInv /\ [LogNext]_logVars => LogInv'
<1> SUFFICES ASSUME LogInv, [LogNext]_logVars PROVE LogInv'
  OBVIOUS
<1>1. CASE UNCHANGED logVars
  BY <1>1 DEF logVars, LogInv, LogTyped, RowsCounted, Count, Matching, PageAsked, AsksPage,
              PageShown, CurrentPage, DetailAsked
<1>2. CASE LogNext
  BY <1>2, WriteLogKeeps, FirstPageKeeps, TurnPageKeeps, OpenLogsKeeps, LeaveLogsKeeps,
     RebuildLogsKeeps, AnswerLogsKeeps, TakeLogsKeeps, FailLogsKeeps, WindowKeeps DEF LogNext
<1> QED BY <1>1, <1>2

\* The log viewer shows the page that is asked for, which exists, and the entry that was clicked,
\* for any number of rows, requests under way, page sizes and filters.
THEOREM LogsAreAsked == LogSpec => []LogsShowAsked
<1>1. LogInv => LogsShowAsked
  <2> SUFFICES ASSUME LogInv PROVE LogsShowAsked
    OBVIOUS
  <2>1. LogsSettled => PageShown
    BY DEF LogInv, PageAsked, LogsSettled
  <2>2. ListingIsAsked /\ PageExists
    BY <2>1 DEF PageShown, ListingIsAsked, PageExists
  <2>3. DetailIsClicked
    BY DEF LogInv, DetailAsked, DetailIsClicked
  <2> QED BY <2>2, <2>3 DEF LogsShowAsked
<1> QED BY <1>1, LogInitially, LogStep, PTL DEF LogSpec

-----------------------------------------------------------------------------
\* What the viewer knows of rows is of rows there are, it is on a page boundary, and it waits for no
\* more answers than a run allows.
KnownRows == DOMAIN logTable
OnPage(state) == \E page \in Nat : state.offset = page * state.limit

LogKnown ==
  /\ OnPage(logsState)
  /\ listing.entries \subseteq KnownRows
  /\ \A i \in DOMAIN reads :
       reads[i].answer # NoEntry => reads[i].answer.entries \subseteq KnownRows
  /\ modal.shows \in KnownRows \cup {NoEntry, Loading, Failed}
  /\ details \in Seq(KnownRows)
  /\ Len(reads) <= MaxReads /\ Len(details) <= MaxReads

LEMMA FirstPage == ASSUME NEW state \in LogState, state.offset = 0  PROVE OnPage(state)
<1>1. state.limit \in Nat
  BY LogAssumption DEF LogState
<1>2. \A limit \in Nat : 0 * limit = 0
  OBVIOUS
<1>3. 0 \in Nat /\ state.offset = 0 * state.limit
  BY <1>1, <1>2
<1> QED BY <1>3 DEF OnPage

LEMMA KnownInitially == LogInit => LogKnown
<1> SUFFICES ASSUME LogInit  PROVE LogKnown
  OBVIOUS
<1>1. LogInv
  BY LogInitially
<1>2. logsState \in LogState /\ logsState.offset = 0
  BY <1>1 DEF LogInv, LogTyped, LogInit
<1>3. OnPage(logsState)
  BY <1>2, FirstPage
<1>4. reads = <<>> /\ details = <<>> /\ listing.entries = {} /\ modal.shows = NoEntry
  BY DEF LogInit, EmptyListing, ClosedModal
<1> QED BY <1>3, <1>4, LogAssumption DEF LogKnown

LEMMA WriteLogKnown ==
  ASSUME LogInv, LogKnown, NEW kind \in LogKind, WriteLog(kind)
  PROVE  LogKnown'
<1>1. /\ logTable' = Append(logTable, kind) /\ logTable \in Seq(LogKind)
      /\ UNCHANGED <<logsState, listing, reads, modal, details>>
  BY DEF WriteLog, LogInv, LogTyped
<1>2. KnownRows \subseteq KnownRows'
  BY <1>1 DEF KnownRows
<1>3. details' \in Seq(KnownRows')
  BY <1>1, <1>2 DEF LogKnown
<1> HIDE DEF KnownRows
<1> QED BY <1>1, <1>2, <1>3 DEF LogKnown, OnPage

\* A request counts and reads rows there are, from the page boundary the viewer is on.
LEMMA LoadKnown ==
  ASSUME LogInv, LogKnown, NEW state, OnPage(state), NEW filter, NEW n \in 0..2,
         Load(state, filter, n), UNCHANGED <<logTable, modal, details>>,
         listing' \in {listing, EmptyListing}
  PROVE  LogKnown'
<1> DEFINE r == Request(state, filter)
           sent == [i \in 1..n |-> r]
<1>1. r.answer = NoEntry
  BY DEF Request
<1>2. /\ logsState' = state /\ reads' = reads \o sent /\ Len(reads) + n <= MaxReads
      /\ reads \in Seq(LogRead) /\ Len(reads) \in Nat /\ DOMAIN reads = 1..Len(reads)
  BY DEF Load, LogInv, LogTyped
<1> HIDE DEF r
<1>3. sent \in Seq({r}) /\ Len(sent) = n /\ \A i \in 1..n : sent[i] = r
  OBVIOUS
<1> HIDE DEF sent
<1>4. /\ Len(reads') = Len(reads) + n /\ DOMAIN reads' = 1..(Len(reads) + n)
      /\ \A i \in DOMAIN reads' : (i \in DOMAIN reads /\ reads'[i] = reads[i]) \/ reads'[i] = r
  <2>1. sent \in Seq(LogRead \cup {r}) /\ reads \in Seq(LogRead \cup {r})
    BY <1>2, <1>3
  <2>2. DOMAIN reads' = 1..(Len(reads) + n) /\ Len(reads') = Len(reads) + n
    BY <1>2, <1>3, <2>1
  <2>3. ASSUME NEW i \in DOMAIN reads', i \notin DOMAIN reads  PROVE reads'[i] = r
    <3>1. i - Len(reads) \in 1..n
      BY <1>2, <2>2, <2>3
    <3>2. reads'[i] = sent[i - Len(reads)]
      BY <1>2, <1>3, <2>1, <2>2, <2>3
    <3> QED BY <1>3, <3>1, <3>2
  <2>4. ASSUME NEW i \in DOMAIN reads', i \in DOMAIN reads  PROVE reads'[i] = reads[i]
    BY <1>2, <1>3, <2>1, <2>2, <2>4
  <2> QED BY <2>2, <2>3, <2>4
<1>5. listing'.entries \subseteq KnownRows'
  BY DEF EmptyListing, LogKnown, KnownRows
<1>6. KnownRows' = KnownRows
  BY DEF KnownRows
<1>7. \A i \in DOMAIN reads' :
        reads'[i].answer # NoEntry => reads'[i].answer.entries \subseteq KnownRows'
  BY <1>1, <1>4, <1>6 DEF LogKnown
<1>8. OnPage(logsState)'
  BY <1>2 DEF OnPage
<1> HIDE DEF KnownRows
<1> QED BY <1>2, <1>4, <1>5, <1>6, <1>7, <1>8 DEF LogKnown

LEMMA GoToPageKnown ==
  ASSUME LogInv, LogKnown, NEW page \in Int, GoToPage(page)
  PROVE  LogKnown'
<1> DEFINE clamped == Min({Max({1, page}), Pages(logsState)})
           state == [logsState EXCEPT !.offset = (clamped - 1) * logsState.limit]
           q == (logsState.total + logsState.limit - 1) \div logsState.limit
<1>1. logsState \in LogState
  BY DEF LogInv, LogTyped
<1>2. q \in Int /\ 1 \in Int
  <2>1. logsState.total \in Nat /\ logsState.limit \in Nat \ {0}
    BY <1>1, LogAssumption DEF LogState
  <2> QED BY <2>1
<1>3. Pages(logsState) = Max({1, q})
  BY DEF Pages
<1> HIDE DEF q
<1>4. Pages(logsState) \in Nat \ {0} /\ Max({1, page}) \in Nat \ {0}
  <2>1. Max({1, q}) \in {1, q} /\ Max({1, q}) >= 1
    BY <1>2, PairMax, Zenon
  <2>2. Max({1, page}) \in {1, page} /\ Max({1, page}) >= 1
    BY <1>2, PairMax, Zenon
  <2> QED BY <1>2, <1>3, <2>1, <2>2
<1>5. clamped \in Nat \ {0}
  <2>1. Max({1, page}) \in Int /\ Pages(logsState) \in Int
    BY <1>4
  <2>2. clamped \in {Max({1, page}), Pages(logsState)}
    BY <2>1, PairMin, Zenon
  <2> HIDE DEF clamped
  <2> QED BY <1>4, <2>2
<1>6. Load(state, logFilter, 1) /\ UNCHANGED <<logTable, modal, details, listing>>
  BY DEF GoToPage, LoadLogs
<1> HIDE DEF clamped
<1>7. OnPage(state)
  <2>1. clamped - 1 \in Nat
    BY <1>5
  <2>2. state.offset = (clamped - 1) * state.limit
    BY <1>1 DEF LogState
  <2> HIDE DEF state
  <2> QED BY <2>1, <2>2 DEF OnPage
<1> HIDE DEF state
<1> QED BY <1>6, <1>7, LoadKnown

LEMMA PagesKnown ==
  ASSUME LogInv, LogKnown,
         \/ \E filter \in LogFilters : SetFilter(filter)
         \/ \E size \in PageSize : SetPageSize(size)
         \/ TurnPage \/ OpenLogs \/ RebuildLogs
  PROVE  LogKnown'
<1>1. logsState \in LogState /\ OnPage(logsState)
  BY DEF LogInv, LogTyped, LogKnown
<1>2. ASSUME NEW filter \in LogFilters, SetFilter(filter)  PROVE LogKnown'
  <2> DEFINE state == [logsState EXCEPT !.offset = 0]
  <2>1. Load(state, filter, 1) /\ UNCHANGED <<logTable, modal, details, listing>>
    BY <1>2 DEF SetFilter, LoadLogs
  <2>2. state \in LogState /\ state.offset = 0
    BY <1>1 DEF LogState
  <2> HIDE DEF state
  <2> QED BY <2>1, <2>2, FirstPage, LoadKnown
<1>3. ASSUME NEW size \in PageSize, SetPageSize(size)  PROVE LogKnown'
  <2> DEFINE state == [logsState EXCEPT !.offset = 0, !.limit = size]
  <2>1. Load(state, logFilter, 1) /\ UNCHANGED <<logTable, modal, details, listing>>
    BY <1>3 DEF SetPageSize, LoadLogs
  <2>2. state \in LogState /\ state.offset = 0
    BY <1>1 DEF LogState
  <2> HIDE DEF state
  <2> QED BY <2>1, <2>2, FirstPage, LoadKnown
<1>4. CASE TurnPage
  <2>1. \E page \in Int : GoToPage(page)
    BY <1>4, TurnsTo
  <2> QED BY <2>1, GoToPageKnown
<1>5. CASE OpenLogs
  BY <1>1, <1>5, LoadKnown DEF OpenLogs
<1>6. CASE RebuildLogs
  <2>1. PICK n \in {0, 2} : Load(logsState, NoFilter, n)
    BY <1>6 DEF RebuildLogs, Rebuild
  <2>2. listing' = EmptyListing /\ UNCHANGED <<logTable, modal, details>>
    BY <1>6 DEF RebuildLogs, Rebuild
  <2> QED BY <1>1, <2>1, <2>2, LoadKnown
<1> QED BY <1>2, <1>3, <1>4, <1>5, <1>6

\* An answer is of rows there are, and there stay no fewer.
LEMMA AnswerLogsKnown ==
  ASSUME LogInv, LogKnown, NEW i \in DOMAIN reads, AnswerLogs(i)
  PROVE  LogKnown'
<1> DEFINE answer == [entries |-> PageOf(reads[i].filter, reads[i].offset, reads[i].limit),
                      total |-> Cardinality(Matching(reads[i].filter))]
<1>1. /\ logTable \in Seq(LogKind) /\ reads \in Seq(LogRead) /\ reads[i] \in LogRead
      /\ reads' = [reads EXCEPT ![i].answer = answer]
      /\ UNCHANGED <<logTable, logsState, listing, modal, details>>
  BY DEF LogInv, LogTyped, AnswerLogs
<1>2. answer.entries \subseteq KnownRows
  BY <1>1, MatchingFinite DEF PageOf, KnownRows
<1> HIDE DEF answer
<1>3. /\ Len(reads') = Len(reads) /\ DOMAIN reads' = DOMAIN reads
      /\ reads'[i].answer = answer /\ \A j \in DOMAIN reads : j # i => reads'[j] = reads[j]
  BY <1>1 DEF LogRead
<1>4. KnownRows' = KnownRows
  BY <1>1 DEF KnownRows
<1>5. \A j \in DOMAIN reads' :
        reads'[j].answer # NoEntry => reads'[j].answer.entries \subseteq KnownRows
  BY <1>2, <1>3 DEF LogKnown
<1> HIDE DEF KnownRows
<1> QED BY <1>1, <1>3, <1>4, <1>5 DEF LogKnown, OnPage

LEMMA SettleKnown ==
  ASSUME LogInv, LogKnown, NEW i \in DOMAIN reads, TakeLogs(i) \/ FailLogs(i)
  PROVE  LogKnown'
<1>1. /\ UNCHANGED <<logTable, details>> /\ modal'.shows = modal.shows
      /\ logsState'.offset = logsState.offset /\ logsState'.limit = logsState.limit
  <2>1. /\ modal \in [open : BOOLEAN, shows : ModalShows, clicked : ModalShows]
        /\ logsState \in LogState
    BY DEF LogInv, LogTyped
  <2> QED BY <2>1 DEF TakeLogs, FailLogs, LogState
<1>2. Settle(i)
  BY DEF TakeLogs, FailLogs
<1>3. \A j \in DOMAIN reads' : \E k \in DOMAIN reads : reads'[j].answer = reads[k].answer
  BY <1>2, ReadsSettle
<1>4. Len(reads') = Len(reads) - 1 /\ Len(reads) \in Nat
  <2> DEFINE marked == [j \in DOMAIN reads |-> [reads[j] EXCEPT !.overtaken = @ \/ j < i]]
  <2>1. reads \in Seq(LogRead) /\ DOMAIN reads = 1..Len(reads) /\ Len(reads) \in Nat
    BY DEF LogInv, LogTyped
  <2>2. DOMAIN marked = 1..Len(reads) /\ reads' = RemoveAt(marked, i)
    BY <1>2, <2>1 DEF Settle
  <2>3. marked = [j \in 1..Len(reads) |-> marked[j]]
    BY <2>2
  <2> HIDE DEF marked
  <2> DEFINE R == {marked[j] : j \in 1..Len(reads)}
  <2>4. marked \in Seq(R) /\ Len(marked) = Len(reads)
    BY <2>1, <2>2, <2>3
  <2> HIDE DEF R
  <2>5. Len(RemoveAt(marked, i)) = Len(marked) - 1
    BY <2>1, <2>2, <2>4, Removed
  <2> QED BY <2>1, <2>2, <2>4, <2>5
<1>5. KnownRows' = KnownRows
  BY <1>1 DEF KnownRows
<1>6. \A j \in DOMAIN reads' :
        reads'[j].answer # NoEntry => reads'[j].answer.entries \subseteq KnownRows
  BY <1>3 DEF LogKnown
<1>7. listing'.entries \subseteq KnownRows
  <2>1. CASE TakeLogs(i)
    <3>1. listing'.entries = reads[i].answer.entries /\ reads[i].answer # NoEntry
      BY <2>1 DEF TakeLogs, Drawn
    <3> QED BY <3>1 DEF LogKnown
  <2>2. CASE FailLogs(i)
    BY <2>2 DEF FailLogs, LogKnown
  <2> QED BY <2>1, <2>2
<1>8. OnPage(logsState)'
  BY <1>1 DEF LogKnown, OnPage
<1> HIDE DEF KnownRows
<1> QED BY <1>1, <1>4, <1>5, <1>6, <1>7, <1>8, LogAssumption DEF LogKnown

LEMMA WindowKnown ==
  ASSUME LogInv, LogKnown,
         \/ \E id \in listing.entries : ShowDetail(id)
         \/ \E i \in DOMAIN details : TakeDetail(i)
         \/ HideDetail
  PROVE  LogKnown'
<1>1. /\ UNCHANGED <<logTable, logsState, listing, reads>>
      /\ modal \in [open : BOOLEAN, shows : ModalShows, clicked : ModalShows]
      /\ details \in Seq(KnownRows) /\ Len(details) \in Nat /\ MaxReads \in Nat
      /\ modal.shows \in KnownRows \cup {NoEntry, Loading, Failed} /\ Len(details) <= MaxReads
  BY LogAssumption DEF ShowDetail, TakeDetail, HideDetail, LogInv, LogTyped, LogKnown
<1>2. KnownRows' = KnownRows
  BY <1>1 DEF KnownRows
<1>3. ASSUME /\ modal'.shows \in KnownRows \cup {NoEntry, Loading, Failed}
             /\ details' \in Seq(KnownRows) /\ Len(details') <= MaxReads
      PROVE  LogKnown'
  <2> HIDE DEF KnownRows
  <2> QED BY <1>1, <1>2, <1>3 DEF LogKnown, OnPage
<1>4. ASSUME NEW id \in listing.entries, ShowDetail(id)  PROVE LogKnown'
  <2>1. id \in KnownRows
    BY DEF LogKnown
  <2>2. /\ modal'.shows = Loading /\ details' = Append(details, id) /\ Len(details) < MaxReads
    BY <1>4 DEF ShowDetail
  <2> HIDE DEF KnownRows
  <2>3. details' \in Seq(KnownRows) /\ Len(details') = Len(details) + 1
    BY <1>1, <2>1, <2>2
  <2> QED BY <1>1, <1>3, <2>2, <2>3
<1>5. ASSUME NEW i \in DOMAIN details, TakeDetail(i)  PROVE LogKnown'
  <2>1. PICK shows \in {details[i], Failed} : modal' = [modal EXCEPT !.shows = shows]
    BY <1>5 DEF TakeDetail
  <2>2. details' = RemoveAt(details, i)
    BY <1>5 DEF TakeDetail
  <2> HIDE DEF KnownRows
  <2>3. details[i] \in KnownRows /\ modal'.shows = shows
    BY <1>1, <2>1
  <2>4. details' \in Seq(KnownRows) /\ Len(details') = Len(details) - 1
    BY <1>1, <2>2, Removed
  <2> QED BY <1>1, <1>3, <2>3, <2>4
<1>6. CASE HideDetail
  <2>1. modal'.shows = modal.shows /\ details' = details
    BY <1>1, <1>6 DEF HideDetail
  <2> QED BY <1>1, <1>3, <2>1
<1> QED BY <1>4, <1>5, <1>6

LEMMA KnownStep == LogInv /\ LogKnown /\ [LogNext]_logVars => LogKnown'
<1> SUFFICES ASSUME LogInv, LogKnown, [LogNext]_logVars PROVE LogKnown'
  OBVIOUS
<1>1. CASE UNCHANGED <<logTable, logsState, listing, reads, modal, details>>
  <2>1. KnownRows' = KnownRows
    BY <1>1 DEF KnownRows
  <2> HIDE DEF KnownRows
  <2> QED BY <1>1, <2>1 DEF LogKnown, OnPage
<1>2. CASE LeaveLogs
  BY <1>1, <1>2 DEF LeaveLogs
<1>3. CASE UNCHANGED logVars
  BY <1>1, <1>3 DEF logVars
<1> QED BY <1>2, <1>3, WriteLogKnown, PagesKnown, AnswerLogsKnown, SettleKnown, WindowKnown
  DEF LogNext

\* The total is of rows there are, the offset is on a page boundary, and nothing is shown that is not
\* in the table, for any number of rows, requests under way, page sizes and filters.
THEOREM LogTypesHold == LogSpec => []LogTypeOK
<1>1. LogInv /\ LogKnown => LogTypeOK
  <2> SUFFICES ASSUME LogInv, LogKnown  PROVE LogTypeOK
    OBVIOUS
  <2>1. /\ logTable \in Seq(LogKind) /\ logFilter \in LogFilters /\ counted \in LogFilters
        /\ logsState \in LogState /\ logsState.limit \in Nat \ {0}
    BY LogAssumption DEF LogInv, LogTyped, LogState
  <2>2. logsState.offset % logsState.limit = 0
    <3>1. PICK page \in Nat : logsState.offset = page * logsState.limit
      BY DEF LogKnown, OnPage
    <3>2. \A k \in Nat, b \in Nat \ {0} : (k * b) % b = 0
      OBVIOUS
    <3> QED BY <2>1, <3>1, <3>2
  <2>3. logsState.total \in 0..Len(logTable)
    <3>1. DOMAIN logTable = 1..Len(logTable) /\ Len(logTable) \in Nat
      BY <2>1
    <3>2. IsFiniteSet(1..Len(logTable)) /\ Cardinality(1..Len(logTable)) = Len(logTable)
      <4>1. 1 \in Int /\ Len(logTable) \in Int
        BY <3>1
      <4>2. /\ IsFiniteSet(1..Len(logTable))
            /\ Cardinality(1..Len(logTable))
                 = IF 1 > Len(logTable) THEN 0 ELSE Len(logTable) - 1 + 1
        BY <4>1, FS_Interval
      <4> QED BY <3>1, <4>2
    <3>3. Matching(counted) \subseteq 1..Len(logTable)
      BY <2>1, <3>1, MatchingFinite
    <3>4. Count(counted) <= Len(logTable) /\ Count(counted) \in Nat
      <4>1. Cardinality(Matching(counted)) <= Cardinality(1..Len(logTable))
        BY <3>2, <3>3, FS_Subset
      <4> QED BY <2>1, <3>2, <4>1, MatchingFinite DEF Count
    <3> QED BY <2>1, <3>1, <3>4 DEF LogInv, RowsCounted, LogState
  <2> QED BY <2>1, <2>2, <2>3 DEF LogTypeOK, LogKnown, KnownRows, LogState
<1>2. LogInit => LogInv /\ LogKnown
  BY LogInitially, KnownInitially
<1>3. (LogInv /\ LogKnown) /\ [LogNext]_logVars => (LogInv /\ LogKnown)'
  BY LogStep, KnownStep
<1> QED BY <1>1, <1>2, <1>3, PTL DEF LogSpec

-----------------------------------------------------------------------------
\* The feed of alerts.
AlertRow == [at : Nat, source : Source, marks : SUBSET Mark, committed : BOOLEAN]
AlertPoll == [since : Int, answer : (SUBSET Nat) \cup {NoAnswer, Disabled}]
Entry == [row : Nat, read : BOOLEAN]

Answered(p) == p.answer # NoAnswer /\ p.answer # Disabled

\* What the browser shows is what its inbox holds.
Rows(inbox) == {inbox[i].row : i \in DOMAIN inbox}
OnceEach(inbox) == \A i, j \in DOMAIN inbox : inbox[i].row = inbox[j].row => i = j
Centre == [inbox : Seq(Entry), seen : SUBSET Nat, badge : Nat, list : Seq(Entry), open : BOOLEAN]
CentreFine(c) ==
  /\ c \in Centre /\ OnceEach(c.inbox) /\ Len(c.inbox) <= MaxInbox
  /\ c.seen = Rows(c.inbox) /\ c.badge = Unread(c.inbox) /\ (c.open => c.list = c.inbox)

AlertTyped ==
  /\ clock \in Nat /\ skew \in Int /\ rows \in Seq(AlertRow) /\ polls \in Seq(AlertPoll)
  /\ settings \in SettingsSet /\ polling \in BOOLEAN /\ altered \in BOOLEAN
  /\ CentreFine(centre) /\ told \in SUBSET Nat /\ centre.seen \subseteq told
  /\ \/ cursor = NoCursor /\ ~polling /\ polls = <<>>
     \/ cursor \in Int /\ began \in Int /\ began <= clock + skew

\* The cursor, and what a poll asks with, is where polling started or at a row that is committed;
\* the answer to a poll is of rows that are.
Reached(t) ==
  t <= began \/ \E r \in DOMAIN rows : rows[r].committed /\ t <= rows[r].at
CursorReached ==
  /\ cursor # NoCursor => Reached(cursor)
  /\ \A i \in DOMAIN polls :
       /\ Reached(polls[i].since)
       /\ Answered(polls[i]) =>
            \A r \in polls[i].answer : r \in DOMAIN rows /\ rows[r].committed

\* Up to an instant every alert was shown, or is excepted, or is in an answer.
Accounted(t, answer) ==
  \A r \in DOMAIN rows :
    rows[r].committed /\ AlertKind(r) # {} /\ settings.on /\ began < rows[r].at /\ rows[r].at <= t
    => r \in told \cup late \cup cut \cup crowded \cup answer
NothingSkipped ==
  ~altered =>
    /\ cursor # NoCursor => Accounted(cursor, {})
    /\ \A i \in DOMAIN polls :
         /\ Accounted(polls[i].since, {})
         /\ Answered(polls[i]) =>
              \A r \in polls[i].answer : Accounted(rows[r].at, polls[i].answer)

AlertInv == AlertTyped /\ CursorReached /\ NothingSkipped

LEMMA UnreadCounts ==
  ASSUME NEW inbox \in Seq(Entry)
  PROVE  Unread(inbox) \in Nat
<1>1. DOMAIN inbox = 1..Len(inbox) /\ Len(inbox) \in Nat
  OBVIOUS
<1>2. IsFiniteSet(1..Len(inbox))
  BY <1>1, FS_Interval
<1> QED BY <1>1, <1>2, FS_Subset, FS_CardinalityType DEF Unread

LEMMA ClearedFine == CentreFine(Cleared) /\ Cleared.seen = {}
<1>1. Rows(<<>>) = {} /\ {i \in DOMAIN <<>> : ~<<>>[i].read} = {}
  BY DEF Rows
<1>2. Unread(<<>>) = 0
  BY <1>1, FS_EmptySet DEF Unread
<1>3. Cleared \in Centre
  BY DEF Cleared, Centre
<1>4. OnceEach(<<>>) /\ Len(<<>>) <= MaxInbox
  BY AlertAssumption DEF OnceEach
<1> QED BY <1>1, <1>2, <1>3, <1>4 DEF Cleared, CentreFine

LEMMA AlertsInitially == AlertInit => AlertInv
<1> SUFFICES ASSUME AlertInit PROVE AlertInv
  OBVIOUS
<1>1. CentreFine(centre) /\ centre.seen = {}
  <2>1. CentreFine(Cleared) /\ Cleared.seen = {}
    BY ClearedFine
  <2>2. centre = Cleared
    BY DEF AlertInit
  <2> QED BY <2>1, <2>2
<1>2. AlertTyped
  <2>1. settings \in SettingsSet /\ clock \in Nat /\ altered \in BOOLEAN /\ polling \in BOOLEAN
    BY DEF AlertInit, SettingsSet
  <2>2. rows \in Seq(AlertRow) /\ polls \in Seq(AlertPoll)
    BY DEF AlertInit
  <2>3. skew \in Int
    BY AlertAssumption DEF AlertInit
  <2> QED BY <1>1, <2>1, <2>2, <2>3 DEF AlertInit, AlertTyped
<1> QED BY <1>2 DEF AlertInit, AlertInv, CursorReached, NothingSkipped

-----------------------------------------------------------------------------
\* The fold of an answer: of the alerts that are left, the last is taken after the others.
LEMMA LeastOf ==
  ASSUME NEW N \in SUBSET Nat, N # {}
  PROVE  \E n \in N : \A m \in N : n <= m
<1> DEFINE Less == OpToRel(<, Nat)
<1>1. IsWellFoundedOn(Less, Nat)
  BY NatLessThanWellFounded
<1>2. \A x, y \in Nat : x < y => <<x, y>> \in Less
  BY DEF OpToRel
<1> HIDE DEF Less
<1>3. PICK n \in N : \A m \in N : ~ (<<m, n>> \in Less)
  BY <1>1, WFMin
<1>4. ASSUME NEW m \in N PROVE n <= m
  <2>1. ~(m < n)
    BY <1>2, <1>3
  <2> QED BY <2>1
<1> QED BY <1>4

LEMMA LatestIsOne ==
  ASSUME rows \in Seq(AlertRow), NEW A, A \subseteq DOMAIN rows, IsFiniteSet(A), A # {}
  PROVE  Latest(A) \in A
<1>1. \A r, s, q \in DOMAIN rows :
        /\ ~Earlier(r, r)
        /\ Earlier(r, s) /\ Earlier(s, q) => Earlier(r, q)
  <2>1. DOMAIN rows = 1..Len(rows) /\ Len(rows) \in Nat
    OBVIOUS
  <2>2. \A r \in DOMAIN rows : rows[r] \in AlertRow
    OBVIOUS
  <2>3. DOMAIN rows \subseteq Nat /\ \A r \in DOMAIN rows : rows[r].at \in Nat
    BY <2>1, <2>2 DEF AlertRow
  <2> QED BY <2>3 DEF Earlier
<1> DEFINE HasLast(T) == \E r \in T : \A s \in T : ~Earlier(r, s)
           Without == {n \in Nat : \E T \in SUBSET A :
                         T # {} /\ Cardinality(T) = n /\ ~HasLast(T)}
<1>2. Without = {}
  <2> SUFFICES ASSUME Without # {} PROVE FALSE
    OBVIOUS
  <2>1. PICK n \in Without : \A m \in Without : n <= m
    <3>1. Without \in SUBSET Nat
      OBVIOUS
    <3> HIDE DEF Without
    <3> QED BY <3>1, LeastOf
  <2>2. PICK T \in SUBSET A : T # {} /\ Cardinality(T) = n /\ ~HasLast(T)
    OBVIOUS
  <2>3. PICK x \in T : TRUE
    BY <2>2
  <2> DEFINE U == T \ {x}
  <2>4. IsFiniteSet(T) /\ n \in Nat
    BY FS_Subset
  <2>5. IsFiniteSet(U) /\ Cardinality(U) = n - 1 /\ n - 1 \in Nat
    <3>1. IsFiniteSet(U) /\ Cardinality(U) = n - 1
      BY <2>2, <2>3, <2>4, FS_RemoveElement
    <3>2. Cardinality(U) \in Nat
      BY <3>1, FS_CardinalityType
    <3> QED BY <3>1, <3>2
  <2>6. n - 1 \notin Without
    <3> HIDE DEF Without
    <3> QED BY <2>1, <2>4, <2>5
  <2>7. U # {} => HasLast(U)
    BY <2>5, <2>6
  <2>8. CASE U = {}
    <3>1. ~Earlier(x, x) /\ T = {x}
      BY <1>1, <2>3, <2>8
    <3> QED BY <2>2, <3>1
  <2>9. CASE U # {}
    <3>1. PICK r \in U : \A s \in U : ~Earlier(r, s)
      BY <2>7, <2>9
    <3>2. PICK s \in T : Earlier(r, s)
      BY <2>2, <3>1
    <3>3. s = x
      BY <3>1, <3>2
    <3>4. PICK q \in T : Earlier(x, q)
      BY <2>2, <2>3
    <3>5. q \in U /\ Earlier(r, q)
      BY <1>1, <2>3, <3>1, <3>2, <3>3, <3>4
    <3> QED BY <3>1, <3>5
  <2> QED BY <2>8, <2>9
<1>3. HasLast(A)
  <2>1. Cardinality(A) \in Nat
    BY FS_CardinalityType
  <2> QED BY <1>2, <2>1
<1>4. PICK r \in A : \A s \in A : ~Earlier(r, s)
  BY <1>3
<1>5. {s \in A : Earlier(r, s)} = {}
  BY <1>4
<1>6. r \in LastOf(1, A)
  <2>1. Cardinality({s \in A : Earlier(r, s)}) = 0
    BY <1>5, FS_EmptySet
  <2>2. Cardinality({s \in A : Earlier(r, s)}) < 1
    BY <2>1
  <2> QED BY <2>2 DEF LastOf
<1>7. Latest(A) \in LastOf(1, A)
  BY <1>6 DEF Latest
<1> QED BY <1>7 DEF LastOf

\* The fold is a function, on the sets of at most n alerts for every n.
IsFold(f, A, base) ==
  f = [T \in SUBSET A |->
         IF T = {} THEN base ELSE AddNotification(Latest(T), f[T \ {Latest(T)}])]

LEMMA FoldExists ==
  ASSUME NEW A, IsFiniteSet(A), \A T \in SUBSET A : T # {} => Latest(T) \in T, NEW base
  PROVE  \E f : IsFold(f, A, base)
<1> DEFINE Small(n) == {T \in SUBSET A : Cardinality(T) <= n}
           FoldTo(f, n) == f = [T \in Small(n) |-> IF T = {} THEN base
                                  ELSE AddNotification(Latest(T), f[T \ {Latest(T)}])]
           Without == {n \in Nat : ~\E f : FoldTo(f, n)}
<1>1. \A T \in SUBSET A : /\ IsFiniteSet(T) /\ Cardinality(T) \in Nat
                          /\ Cardinality(T) = 0 <=> T = {}
                          /\ Cardinality(T) <= Cardinality(A)
  BY FS_Subset, FS_CardinalityType, FS_EmptySet
<1>2. \A T \in SUBSET A : T # {} => /\ T \ {Latest(T)} \in SUBSET A
                                    /\ Cardinality(T \ {Latest(T)}) = Cardinality(T) - 1
  BY <1>1, FS_RemoveElement
<1>3. Without = {}
  <2> SUFFICES ASSUME Without # {} PROVE FALSE
    OBVIOUS
  <2>1. PICK n \in Without : \A m \in Without : n <= m
    <3>1. Without \in SUBSET Nat
      OBVIOUS
    <3> HIDE DEF Without
    <3> QED BY <3>1, LeastOf
  <2>2. n \in Nat /\ ~\E f : FoldTo(f, n)
    OBVIOUS
  <2>3. CASE n = 0
    <3> DEFINE g == [T \in Small(0) |-> base]
    <3>1. \A T \in Small(0) : T = {}
      BY <1>1
    <3>2. FoldTo(g, 0)
      BY <3>1
    <3> QED BY <2>2, <2>3, <3>2
  <2>4. CASE n # 0
    <3>1. n - 1 \in Nat /\ n - 1 \notin Without
      <4> HIDE DEF Without
      <4> QED BY <2>1, <2>2, <2>4
    <3>2. PICK g : FoldTo(g, n - 1)
      BY <3>1
    <3> DEFINE h == [T \in Small(n) |-> IF T \in Small(n - 1) THEN g[T]
                       ELSE AddNotification(Latest(T), g[T \ {Latest(T)}])]
    <3>3. ASSUME NEW T \in Small(n)
          PROVE  h[T] = IF T = {} THEN base
                        ELSE AddNotification(Latest(T), h[T \ {Latest(T)}])
      <4>1. CASE T = {}
        <5>1. T \in Small(n - 1)
          BY <1>1, <3>1, <4>1
        <5> QED BY <3>2, <4>1, <5>1
      <4>2. CASE T # {}
        <5> DEFINE U == T \ {Latest(T)}
        <5>1. U \in Small(n - 1) /\ U \in Small(n)
          BY <1>1, <1>2, <2>2, <3>1, <4>2
        <5>2. h[U] = g[U]
          BY <5>1
        <5>3. h[T] = AddNotification(Latest(T), g[U])
          BY <3>2, <4>2
        <5> QED BY <4>2, <5>2, <5>3
      <4> QED BY <4>1, <4>2
    <3>4. FoldTo(h, n)
      BY <3>3
    <3> QED BY <2>2, <3>4
  <2> QED BY <2>3, <2>4
<1>4. Cardinality(A) \in Nat /\ Small(Cardinality(A)) = SUBSET A
  BY <1>1
<1>5. \E f : FoldTo(f, Cardinality(A))
  BY <1>3, <1>4
<1> QED BY <1>4, <1>5 DEF IsFold

-----------------------------------------------------------------------------
\* An alert joins the inbox ...
LEMMA Prepended ==
  ASSUME NEW inbox \in Seq(Entry), OnceEach(inbox), NEW e \in Entry, e.row \notin Rows(inbox)
  PROVE  /\ <<e>> \o inbox \in Seq(Entry) /\ OnceEach(<<e>> \o inbox)
         /\ Len(<<e>> \o inbox) = Len(inbox) + 1
         /\ Rows(<<e>> \o inbox) = Rows(inbox) \cup {e.row}
<1> DEFINE all == <<e>> \o inbox
<1>1. all \in Seq(Entry) /\ Len(all) = Len(inbox) + 1 /\ Len(inbox) \in Nat
  OBVIOUS
<1>2. all[1] = e /\ \A i \in 1..Len(inbox) : all[i + 1] = inbox[i]
  OBVIOUS
<1>3. DOMAIN inbox = 1..Len(inbox) /\ DOMAIN all = 1..(Len(inbox) + 1)
  BY <1>1
<1> HIDE DEF all
<1>4. \A i \in DOMAIN all : i # 1 => i - 1 \in DOMAIN inbox /\ all[i] = inbox[i - 1]
  BY <1>1, <1>2, <1>3
<1>5. \A i \in DOMAIN all : i # 1 => all[i].row # e.row
  BY <1>4 DEF Rows
<1>6. OnceEach(all)
  <2> SUFFICES ASSUME NEW i \in DOMAIN all, NEW j \in DOMAIN all, all[i].row = all[j].row
               PROVE  i = j
    BY DEF OnceEach
  <2>1. CASE i = 1 \/ j = 1
    BY <1>2, <1>5, <2>1
  <2>2. CASE i # 1 /\ j # 1
    <3>1. /\ i - 1 \in DOMAIN inbox /\ j - 1 \in DOMAIN inbox
          /\ inbox[i - 1].row = inbox[j - 1].row
      BY <1>4, <2>2
    <3>2. i - 1 = j - 1
      BY <3>1 DEF OnceEach
    <3> QED BY <1>1, <1>3, <3>2
  <2> QED BY <2>1, <2>2
<1>7. \A i \in DOMAIN inbox : i + 1 \in DOMAIN all /\ all[i + 1] = inbox[i]
  BY <1>1, <1>2, <1>3
<1>8. 1 \in DOMAIN all
  BY <1>1, <1>3
<1>9. Rows(all) \subseteq Rows(inbox) \cup {e.row}
  BY <1>2, <1>4 DEF Rows
<1>10. Rows(inbox) \cup {e.row} \subseteq Rows(all)
  <2>1. e.row \in Rows(all)
    BY <1>2, <1>8 DEF Rows
  <2>2. ASSUME NEW i \in DOMAIN inbox PROVE inbox[i].row \in Rows(all)
    BY <1>7 DEF Rows
  <2> QED BY <2>1, <2>2 DEF Rows
<1>11. all \in Seq(Entry) /\ OnceEach(all) /\ Len(all) = Len(inbox) + 1
       /\ Rows(all) = Rows(inbox) \cup {e.row}
  BY <1>1, <1>6, <1>9, <1>10
<1> QED BY <1>11 DEF all

\* ... and the oldest ones leave it.
LEMMA CutOff ==
  ASSUME NEW all \in Seq(Entry), OnceEach(all), NEW k \in 1..Len(all)
  PROVE  /\ SubSeq(all, 1, k) \in Seq(Entry) /\ OnceEach(SubSeq(all, 1, k))
         /\ Len(SubSeq(all, 1, k)) = k
         /\ Rows(SubSeq(all, 1, k)) = Rows(all) \ Rows(SubSeq(all, k + 1, Len(all)))
<1> DEFINE kept == SubSeq(all, 1, k)
           out == SubSeq(all, k + 1, Len(all))
<1>1. Len(all) \in Nat /\ DOMAIN all = 1..Len(all) /\ k \in Int /\ 1 <= k /\ k <= Len(all)
  OBVIOUS
<1>2. kept \in Seq(Entry) /\ Len(kept) = k /\ \A i \in 1..k : kept[i] = all[i]
  BY <1>1, SubSeqProperties
<1>3. /\ out \in Seq(Entry) /\ Len(out) = Len(all) - k
      /\ \A i \in 1..(Len(all) - k) : out[i] = all[k + i]
  <2>1. k + 1 \in Int /\ Len(all) \in Int /\ \A i \in (k + 1)..Len(all) : all[i] \in Entry
    BY <1>1
  <2>2. /\ out \in Seq(Entry)
        /\ Len(out) = IF k + 1 <= Len(all) THEN Len(all) - (k + 1) + 1 ELSE 0
        /\ \A i \in 1..(Len(all) - (k + 1) + 1) : out[i] = all[(k + 1) + i - 1]
    BY <2>1, SubSeqProperties
  <2> HIDE DEF out
  <2>3. Len(all) - (k + 1) + 1 = Len(all) - k
    BY <1>1
  <2>4. \A i \in 1..(Len(all) - k) : (k + 1) + i - 1 = k + i
    BY <1>1
  <2>5. Len(out) = Len(all) - k
    <3>1. Len(out) = IF k + 1 <= Len(all) THEN Len(all) - (k + 1) + 1 ELSE 0
      BY <2>2
    <3>2. CASE k + 1 <= Len(all)
      BY <2>3, <3>1, <3>2
    <3>3. CASE ~(k + 1 <= Len(all))
      <4>1. Len(all) - k = 0
        <5>1. \A a, b \in Int : a <= b /\ ~(a + 1 <= b) => b - a = 0
          OBVIOUS
        <5>2. Len(all) \in Int /\ k \in Int /\ k <= Len(all)
          BY <1>1
        <5> QED BY <3>3, <5>1, <5>2
      <4> QED BY <3>1, <3>3, <4>1
    <3> QED BY <3>2, <3>3
  <2>6. ASSUME NEW i \in 1..(Len(all) - k) PROVE out[i] = all[k + i]
    BY <2>2, <2>3, <2>4
  <2> QED BY <2>2, <2>5, <2>6
<1> HIDE DEF kept, out
<1>4. DOMAIN kept = 1..k /\ DOMAIN out = 1..(Len(all) - k)
  BY <1>1, <1>2, <1>3
<1>5. \A i \in 1..k : i \in DOMAIN all
  BY <1>1
<1>6. \A i \in DOMAIN out : k + i \in DOMAIN all /\ out[i] = all[k + i] /\ k + i > k
  BY <1>1, <1>3, <1>4
<1>7. \A i \in DOMAIN all : i \in 1..k \/ (i - k \in DOMAIN out /\ out[i - k] = all[i])
  BY <1>1, <1>3, <1>4
<1>8. OnceEach(kept)
  BY <1>2, <1>4, <1>5 DEF OnceEach
<1>9. ASSUME NEW i \in 1..k
      PROVE  kept[i].row \in Rows(all) /\ kept[i].row \notin Rows(out)
  <2>1. all[i].row \in Rows(all)
    BY <1>5 DEF Rows
  <2>2. ASSUME NEW j \in DOMAIN out PROVE out[j].row # all[i].row
    <3>1. k + j # i
      BY <1>1, <1>6
    <3> QED BY <1>5, <1>6, <3>1 DEF OnceEach
  <2> QED BY <1>2, <2>1, <2>2 DEF Rows
<1>10. ASSUME NEW i \in DOMAIN all, all[i].row \notin Rows(out)
       PROVE  all[i].row \in Rows(kept)
  <2>1. i \in 1..k
    BY <1>7, <1>10 DEF Rows
  <2> QED BY <1>2, <1>4, <2>1 DEF Rows
<1>11. Rows(kept) \subseteq Rows(all) \ Rows(out)
  BY <1>4, <1>9 DEF Rows
<1>12. Rows(all) \ Rows(out) \subseteq Rows(kept)
  <2> SUFFICES ASSUME NEW row \in Rows(all), row \notin Rows(out) PROVE row \in Rows(kept)
    OBVIOUS
  <2>1. PICK i \in DOMAIN all : row = all[i].row
    BY DEF Rows
  <2> QED BY <1>10, <2>1
<1>13. /\ kept \in Seq(Entry) /\ OnceEach(kept) /\ Len(kept) = k
       /\ Rows(kept) = Rows(all) \ Rows(out)
  BY <1>2, <1>8, <1>11, <1>12
<1> QED BY <1>13 DEF kept, out

OnTop(inbox, r) == <<[row |-> r, read |-> FALSE]>> \o inbox
Kept(all) == SubSeq(all, 1, Min({MaxInbox, Len(all)}))
PushedOut(all) == SubSeq(all, Len(Kept(all)) + 1, Len(all))

LEMMA InboxJoins ==
  ASSUME NEW inbox \in Seq(Entry), OnceEach(inbox), NEW r \in Nat, r \notin Rows(inbox)
  PROVE  /\ Kept(OnTop(inbox, r)) \in Seq(Entry) /\ OnceEach(Kept(OnTop(inbox, r)))
         /\ Len(Kept(OnTop(inbox, r))) <= MaxInbox
         /\ Rows(Kept(OnTop(inbox, r)))
              = (Rows(inbox) \cup {r}) \ Rows(PushedOut(OnTop(inbox, r)))
<1> DEFINE e == [row |-> r, read |-> FALSE]
           all == OnTop(inbox, r)
           k == Min({MaxInbox, Len(all)})
<1>1. e \in Entry /\ e.row = r
  BY DEF Entry
<1>2. all = <<e>> \o inbox
  BY DEF OnTop
<1> HIDE DEF e, all
<1>3. /\ all \in Seq(Entry) /\ OnceEach(all) /\ Len(all) = Len(inbox) + 1
      /\ Rows(all) = Rows(inbox) \cup {r}
  BY <1>1, <1>2, Prepended
<1>4. Len(all) \in Int /\ Len(all) >= 1
  BY <1>3
<1>5. k \in 1..Len(all) /\ k <= MaxInbox
  <2>1. MaxInbox \in Nat \ {0} /\ MaxInbox \in Int
    BY AlertAssumption
  <2>2. k \in {MaxInbox, Len(all)} /\ k <= MaxInbox /\ k <= Len(all)
    BY <1>4, <2>1, PairMin, Zenon
  <2> HIDE DEF k
  <2> QED BY <1>4, <2>1, <2>2
<1>6. Kept(all) = SubSeq(all, 1, k)
  BY DEF Kept
<1> HIDE DEF k
<1>7. /\ SubSeq(all, 1, k) \in Seq(Entry) /\ OnceEach(SubSeq(all, 1, k))
      /\ Len(SubSeq(all, 1, k)) = k
      /\ Rows(SubSeq(all, 1, k)) = Rows(all) \ Rows(SubSeq(all, k + 1, Len(all)))
  BY <1>3, <1>5, CutOff
<1>8. PushedOut(all) = SubSeq(all, k + 1, Len(all))
  BY <1>6, <1>7 DEF PushedOut
<1>9. /\ Kept(all) \in Seq(Entry) /\ OnceEach(Kept(all)) /\ Len(Kept(all)) <= MaxInbox
      /\ Rows(Kept(all)) = (Rows(inbox) \cup {r}) \ Rows(PushedOut(all))
  BY <1>3, <1>5, <1>6, <1>7, <1>8
<1> QED BY <1>9 DEF all

\* What the fold of an answer has come to when the alerts in taken have been.
FoldInv(s, taken) ==
  /\ s \in [centre : Centre, told : SUBSET Nat, cursor : Int]
  /\ CentreFine(s.centre) /\ s.centre.seen \subseteq s.told
  /\ told \cup taken \subseteq s.told
  /\ s.cursor = cursor \/ \E r \in taken : s.cursor = rows[r].at

LEMMA AddKeeps ==
  ASSUME rows \in Seq(AlertRow), NEW taken, taken \subseteq DOMAIN rows, NEW r \in taken,
         NEW s, FoldInv(s, taken \ {r})
  PROVE  FoldInv(AddNotification(r, s), taken)
<1> DEFINE c == s.centre
           inbox == c.inbox
<1>1. /\ s \in [centre : Centre, told : SUBSET Nat, cursor : Int] /\ CentreFine(c)
      /\ c.seen \subseteq s.told
  BY DEF FoldInv
<1>2. /\ c \in Centre /\ inbox \in Seq(Entry) /\ OnceEach(inbox) /\ Len(inbox) <= MaxInbox
      /\ c.seen = Rows(inbox) /\ c.open \in BOOLEAN
  BY <1>1 DEF CentreFine, Centre
<1>3. r \in Nat /\ rows[r].at \in Int
  <2>1. DOMAIN rows = 1..Len(rows) /\ Len(rows) \in Nat /\ rows[r] \in AlertRow
    OBVIOUS
  <2> QED BY <2>1 DEF AlertRow
<1>4. CASE r \in c.seen
  <2>1. AddNotification(r, s) = s
    BY <1>4 DEF AddNotification
  <2>2. taken \subseteq s.told
    BY <1>4 DEF FoldInv
  <2> QED BY <2>1, <2>2 DEF FoldInv
<1>5. CASE r \notin c.seen
  <2> DEFINE all == OnTop(inbox, r)
             kept == Kept(all)
             out == PushedOut(all)
             seen == (c.seen \cup {r}) \ Rows(out)
             then == Shown([c EXCEPT !.inbox = kept, !.seen = seen])
  <2>1. ~\E i \in DOMAIN inbox : inbox[i].row = r
    BY <1>2, <1>5 DEF Rows
  <2>2. AddNotification(r, s) = [s EXCEPT !.centre = then, !.told = @ \cup {r},
                                          !.cursor = Max({@, rows[r].at})]
    <3>1. ~(r \in c.seen \/ \E i \in DOMAIN c.inbox : c.inbox[i].row = r)
      BY <1>2, <1>5, <2>1
    <3> QED BY <3>1, Zenon DEF AddNotification, Rows, OnTop, Kept, PushedOut
  <2>3. /\ kept \in Seq(Entry) /\ OnceEach(kept) /\ Len(kept) <= MaxInbox
        /\ Rows(kept) = seen
    <3>1. r \notin Rows(inbox)
      BY <1>2, <1>5
    <3>2. inbox \in Seq(Entry) /\ OnceEach(inbox) /\ r \in Nat
      BY <1>2, <1>3
    <3> HIDE DEF inbox
    <3> QED BY <1>2, <3>1, <3>2, InboxJoins
  <2> HIDE DEF all, kept, out, seen
  <2>4. seen \in SUBSET Nat
    BY <1>2, <1>3, <2>3 DEF seen, Centre
  <2>5. CentreFine(then) /\ then.seen = Rows(kept)
    <3> DEFINE between == [c EXCEPT !.inbox = kept, !.seen = seen]
               badge == Unread(kept)
               list == IF c.open THEN kept ELSE <<>>
    <3> HIDE DEF c
    <3>1. /\ between \in Centre /\ between.inbox = kept /\ between.seen = seen
          /\ between.open = c.open
      BY <1>2, <2>3, <2>4 DEF Centre
    <3>2. then = [between EXCEPT !.badge = badge, !.list = list]
      <4> HIDE DEF between
      <4> QED BY <3>1 DEF Shown, between
    <3>3. badge \in Nat /\ list \in Seq(Entry) /\ (c.open => list = kept)
      BY <2>3, UnreadCounts
    <3> HIDE DEF between, badge, list, then
    <3>4. /\ then \in Centre /\ then.inbox = kept /\ then.seen = seen /\ then.open = c.open
          /\ then.badge = badge /\ then.list = list
      BY <3>1, <3>2, <3>3 DEF Centre
    <3> QED BY <2>3, <3>3, <3>4 DEF CentreFine, badge
  <2> HIDE DEF then
  <2>6. Rows(kept) \subseteq Rows(inbox) \cup {r}
    BY <1>2, <2>3 DEF seen
  <2> DEFINE m == Max({s.cursor, rows[r].at})
  <2>7. m \in Int /\ (m = s.cursor \/ m = rows[r].at)
    <3>1. s.cursor \in Int
      BY DEF FoldInv
    <3>2. m \in {s.cursor, rows[r].at}
      BY <1>3, <3>1, PairMax, Zenon
    <3> QED BY <1>3, <3>1, <3>2
  <2> HIDE DEF m
  <2>8. AddNotification(r, s) = [s EXCEPT !.centre = then, !.told = s.told \cup {r},
                                          !.cursor = m]
    BY <2>2 DEF m
  <2> DEFINE after == AddNotification(r, s)
  <2>9. /\ after \in [centre : Centre, told : SUBSET Nat, cursor : Int]
        /\ after.centre = then /\ after.told = s.told \cup {r} /\ after.cursor = m
    <3>1. then \in Centre
      BY <2>5 DEF CentreFine
    <3> QED BY <1>1, <1>3, <2>7, <2>8, <3>1
  <2> HIDE DEF after
  <2>10. after.centre.seen \subseteq after.told
    BY <1>1, <1>2, <2>5, <2>6, <2>9
  <2>11. told \cup taken \subseteq after.told
    BY <2>9 DEF FoldInv
  <2>12. after.cursor = cursor \/ \E q \in taken : after.cursor = rows[q].at
    BY <2>7, <2>9 DEF FoldInv
  <2>13. FoldInv(after, taken)
    BY <2>5, <2>9, <2>10, <2>11, <2>12 DEF FoldInv
  <2> QED BY <2>13 DEF after
<1> QED BY <1>4, <1>5

LEMMA FoldKeeps ==
  ASSUME rows \in Seq(AlertRow), NEW A, A \subseteq DOMAIN rows, NEW base, FoldInv(base, {})
  PROVE  FoldInv(MapThenFoldSet(AddNotification, base, LAMBDA r : r, Latest, A), A)
<1> DEFINE f == CHOOSE f : IsFold(f, A, base)
           Without == {n \in Nat : \E T \in SUBSET A : Cardinality(T) = n /\ ~FoldInv(f[T], T)}
<1>1. IsFiniteSet(A) /\ \A T \in SUBSET A : /\ IsFiniteSet(T) /\ Cardinality(T) \in Nat
                                            /\ Cardinality(T) = 0 <=> T = {}
  <2>1. DOMAIN rows = 1..Len(rows) /\ Len(rows) \in Nat
    OBVIOUS
  <2>2. IsFiniteSet(1..Len(rows))
    BY <2>1, FS_Interval
  <2> QED BY <2>1, <2>2, FS_Subset, FS_CardinalityType, FS_EmptySet
<1>2. \A T \in SUBSET A : T # {} => Latest(T) \in T
  BY <1>1, LatestIsOne
<1>3. IsFold(f, A, base)
  <2>1. IsFiniteSet(A)
    BY <1>1
  <2>2. \E g : IsFold(g, A, base)
    BY <1>2, <2>1, FoldExists
  <2> QED BY <2>2, Zenon
<1>4. MapThenFoldSet(AddNotification, base, LAMBDA r : r, Latest, A) = f[A]
  BY Zenon DEF MapThenFoldSet, IsFold
<1> HIDE DEF f
<1>5. Without = {}
  <2> SUFFICES ASSUME Without # {} PROVE FALSE
    OBVIOUS
  <2>1. PICK n \in Without : \A m \in Without : n <= m
    <3>1. Without \in SUBSET Nat
      OBVIOUS
    <3> HIDE DEF Without
    <3> QED BY <3>1, LeastOf
  <2>2. PICK T \in SUBSET A : Cardinality(T) = n /\ ~FoldInv(f[T], T)
    OBVIOUS
  <2>3. CASE T = {}
    <3>1. f[T] = base
      BY <1>3, <2>3 DEF IsFold
    <3> QED BY <2>2, <2>3, <3>1
  <2>4. CASE T # {}
    <3> DEFINE U == T \ {Latest(T)}
    <3>1. Latest(T) \in T /\ U \in SUBSET A
      BY <1>2, <2>4
    <3>2. Cardinality(U) = n - 1 /\ Cardinality(U) \in Nat /\ n \in Nat
      BY <1>1, <2>2, <3>1, FS_RemoveElement
    <3>3. n - 1 \notin Without
      <4>1. ~(n <= n - 1)
        BY <3>2
      <4> HIDE DEF Without
      <4> QED BY <2>1, <4>1
    <3>4. FoldInv(f[U], U)
      BY <3>1, <3>2, <3>3
    <3>5. f[T] = AddNotification(Latest(T), f[U])
      BY <1>3, <2>4 DEF IsFold
    <3> QED BY <2>2, <3>1, <3>4, <3>5, AddKeeps
  <2> QED BY <2>3, <2>4
<1>6. Cardinality(A) \in Nat /\ A \in SUBSET A
  BY <1>1
<1> QED BY <1>4, <1>5, <1>6

-----------------------------------------------------------------------------
\* What is accounted for stays accounted for, while rows are neither stamped nor committed.
AccountedThen(t, answer) ==
  \A r \in DOMAIN rows' :
    rows'[r].committed /\ AlertKind(r)' # {} /\ settings'.on /\ began' < rows'[r].at
      /\ rows'[r].at <= t
    => r \in told' \cup late' \cup cut' \cup crowded' \cup answer
ReachedThen(t) ==
  t <= began' \/ \E r \in DOMAIN rows' : rows'[r].committed /\ t <= rows'[r].at

LEMMA RowsTyped ==
  ASSUME AlertTyped
  PROVE  /\ DOMAIN rows = 1..Len(rows) /\ Len(rows) \in Nat
         /\ \A r \in DOMAIN rows : rows[r] \in AlertRow /\ rows[r].at \in Int /\ r \in Nat
<1>1. rows \in Seq(AlertRow)
  BY DEF AlertTyped
<1>2. DOMAIN rows = 1..Len(rows) /\ Len(rows) \in Nat /\ \A r \in DOMAIN rows : rows[r] \in AlertRow
  BY <1>1
<1> QED BY <1>2 DEF AlertRow

LEMMA AccountKept ==
  ASSUME AlertTyped, UNCHANGED <<rows, settings, late>>,
         began \in Int, began' \in Int, began <= began',
         told \subseteq told', cut \subseteq cut', crowded \subseteq crowded'
  PROVE  /\ \A t \in Int : \A a, b : Accounted(t, a) /\ a \subseteq told' \cup b => AccountedThen(t, b)
         /\ \A t \in Int : Reached(t) => ReachedThen(t)
<1>1. \A r \in DOMAIN rows : rows[r].at \in Int
  BY RowsTyped
<1>2. \A r : AlertKind(r)' = AlertKind(r)
  BY DEF AlertKind
<1>3. ASSUME NEW t \in Int, NEW a, NEW b, Accounted(t, a), a \subseteq told' \cup b
      PROVE  AccountedThen(t, b)
  <2> SUFFICES ASSUME NEW r \in DOMAIN rows, rows[r].committed, AlertKind(r)' # {}, settings.on,
                      began' < rows[r].at, rows[r].at <= t
               PROVE  r \in told' \cup late' \cup cut' \cup crowded' \cup b
    BY DEF AccountedThen
  <2>1. began < rows[r].at
    BY <1>1
  <2>2. r \in told \cup late \cup cut \cup crowded \cup a
    BY <1>2, <1>3, <2>1 DEF Accounted
  <2> QED BY <1>3, <2>2
<1>4. ASSUME NEW t \in Int, Reached(t) PROVE ReachedThen(t)
  BY <1>4 DEF Reached, ReachedThen
<1> QED BY <1>3, <1>4

\* Polls are sent with the cursor, and given up.
LEMMA PollsTyped ==
  ASSUME AlertTyped
  PROVE  /\ polls \in Seq(AlertPoll)
         /\ \A i \in DOMAIN polls : /\ polls[i] \in AlertPoll /\ polls[i].since \in Int
                                    /\ cursor \in Int /\ began \in Int /\ began <= clock + skew
                                    /\ Answered(polls[i]) => polls[i].answer \in SUBSET Nat
<1>1. polls \in Seq(AlertPoll)
  BY DEF AlertTyped
<1>2. ASSUME NEW i \in DOMAIN polls
      PROVE  polls[i] \in AlertPoll /\ polls # <<>>
  BY <1>1
<1> QED BY <1>1, <1>2 DEF AlertTyped, AlertPoll, Answered

LEMMA PollsKept ==
  ASSUME AlertInv, UNCHANGED <<rows, settings, late, cursor, began, told, cut, crowded>>,
         altered' \in BOOLEAN, ~altered' => ~altered,
         \A j \in DOMAIN polls' :
           \/ \E k \in DOMAIN polls : polls'[j] = polls[k]
           \/ cursor \in Int /\ cursor # NoCursor /\ polls'[j].since = cursor
                             /\ polls'[j].answer = NoAnswer
  PROVE  CursorReached' /\ NothingSkipped'
<1>1. AlertTyped /\ CursorReached /\ NothingSkipped
  BY DEF AlertInv
<1>2. \A t : (Reached(t) <=> ReachedThen(t)) /\ \A a : Accounted(t, a) <=> AccountedThen(t, a)
  <2>1. \A r : AlertKind(r)' = AlertKind(r)
    BY DEF AlertKind
  <2> QED BY <2>1 DEF Reached, ReachedThen, Accounted, AccountedThen
<1>3. \A j \in DOMAIN polls' :
        /\ Reached(polls'[j].since)
        /\ Answered(polls'[j]) =>
             \A r \in polls'[j].answer : r \in DOMAIN rows /\ rows[r].committed
        /\ ~altered => /\ Accounted(polls'[j].since, {})
                       /\ Answered(polls'[j]) =>
                            \A r \in polls'[j].answer : Accounted(rows[r].at, polls'[j].answer)
  <2> SUFFICES ASSUME NEW j \in DOMAIN polls'
               PROVE  /\ Reached(polls'[j].since)
                      /\ Answered(polls'[j]) =>
                           \A r \in polls'[j].answer : r \in DOMAIN rows /\ rows[r].committed
                      /\ ~altered => /\ Accounted(polls'[j].since, {})
                                     /\ Answered(polls'[j]) => \A r \in polls'[j].answer :
                                          Accounted(rows[r].at, polls'[j].answer)
    OBVIOUS
  <2>1. CASE \E k \in DOMAIN polls : polls'[j] = polls[k]
    BY <1>1, <2>1 DEF CursorReached, NothingSkipped
  <2>2. CASE cursor \in Int /\ cursor # NoCursor /\ polls'[j].since = cursor
                            /\ polls'[j].answer = NoAnswer
    BY <1>1, <2>2 DEF CursorReached, NothingSkipped, Answered
  <2> QED BY <2>1, <2>2
<1>4. CursorReached'
  <2>1. cursor' # NoCursor => ReachedThen(cursor')
    BY <1>1, <1>2 DEF CursorReached
  <2>2. \A j \in DOMAIN polls' :
          /\ ReachedThen(polls'[j].since)
          /\ Answered(polls'[j]) =>
               \A r \in polls'[j].answer : r \in DOMAIN rows' /\ rows'[r].committed
    BY <1>2, <1>3
  <2> QED BY <2>1, <2>2 DEF CursorReached, Reached, ReachedThen, Answered
<1>5. NothingSkipped'
  <2> SUFFICES ASSUME ~altered' PROVE NothingSkipped'
    BY DEF NothingSkipped
  <2>1. cursor' # NoCursor => AccountedThen(cursor', {})
    BY <1>1, <1>2 DEF NothingSkipped
  <2>2. \A j \in DOMAIN polls' :
          /\ AccountedThen(polls'[j].since, {})
          /\ Answered(polls'[j]) =>
               \A r \in polls'[j].answer : AccountedThen(rows'[r].at, polls'[j].answer)
    BY <1>2, <1>3
  <2> QED BY <2>1, <2>2 DEF NothingSkipped, Accounted, AccountedThen, Answered
<1> QED BY <1>4, <1>5

LEMMA PollKeeps ==
  ASSUME AlertInv, Poll \/ \E i \in DOMAIN polls : FailPoll(i)
  PROVE  AlertInv'
<1>1. AlertTyped /\ polls \in Seq(AlertPoll)
  BY DEF AlertInv, AlertTyped
<1>2. CASE Poll
  <2>1. cursor \in Int /\ cursor # NoCursor
    BY <1>1, <1>2, AlertAssumption DEF Poll, AlertTyped
  <2> DEFINE p == [since |-> cursor, answer |-> NoAnswer]
  <2>2. p \in AlertPoll /\ p.since = cursor /\ p.answer = NoAnswer
    BY <2>1 DEF AlertPoll
  <2>3. polls' = Append(polls, p)
    BY <1>2 DEF Poll, SendPoll
  <2> HIDE DEF p
  <2>4. polls' \in Seq(AlertPoll) /\ \A j \in DOMAIN polls' :
           (\E k \in DOMAIN polls : polls'[j] = polls[k]) \/ polls'[j] = p
    BY <1>1, <2>2, <2>3
  <2>5. AlertTyped'
    BY <1>1, <1>2, <2>1, <2>4 DEF Poll, AlertTyped
  <2> QED BY <1>1, <1>2, <2>1, <2>2, <2>4, <2>5, PollsKept DEF Poll, AlertInv, AlertTyped
<1>3. ASSUME NEW i \in DOMAIN polls, FailPoll(i) PROVE AlertInv'
  <2>1. polls' = RemoveAt(polls, i)
    BY <1>3 DEF FailPoll
  <2>2. polls' \in Seq(AlertPoll) /\ \A j \in DOMAIN polls' : \E k \in DOMAIN polls :
                                       polls'[j] = polls[k]
    BY <1>1, <2>1, Removed, RemovedElement
  <2>3. polls # <<>>
    BY <1>1
  <2>4. AlertTyped'
    BY <1>1, <1>3, <2>2, <2>3 DEF FailPoll, AlertTyped
  <2> QED BY <1>1, <1>3, <2>2, <2>4, PollsKept DEF FailPoll, AlertInv, AlertTyped
<1> QED BY <1>2, <1>3

LEMMA FromFunction ==
  ASSUME NEW S, NEW n \in Nat, NEW f \in [1..n -> S]
  PROVE  f \in Seq(S) /\ Len(f) = n
OBVIOUS

\* The list is opened, closed and marked as read.
LEMMA MarkedFine ==
  ASSUME CentreFine(centre), NEW inbox \in Seq(Entry),
         DOMAIN inbox = DOMAIN centre.inbox, Len(inbox) = Len(centre.inbox),
         \A i \in DOMAIN inbox : inbox[i].row = centre.inbox[i].row
  PROVE  /\ CentreFine(Shown([centre EXCEPT !.inbox = inbox]))
         /\ Shown([centre EXCEPT !.inbox = inbox]).seen = centre.seen
<1> DEFINE between == [centre EXCEPT !.inbox = inbox]
           badge == Unread(inbox)
           list == IF centre.open THEN inbox ELSE <<>>
           then == Shown(between)
<1>1. centre \in Centre /\ centre.open \in BOOLEAN /\ Unread(inbox) \in Nat
  BY UnreadCounts DEF CentreFine, Centre
<1>2. /\ between \in Centre /\ between.inbox = inbox /\ between.seen = centre.seen
      /\ between.open = centre.open
  BY <1>1 DEF Centre
<1> HIDE DEF between
<1>3. then = [between EXCEPT !.badge = badge, !.list = list]
  BY <1>2 DEF Shown
<1>4. badge \in Nat /\ list \in Seq(Entry) /\ (centre.open => list = inbox)
  BY <1>1
<1> HIDE DEF badge, list, then
<1>5. /\ then \in Centre /\ then.inbox = inbox /\ then.seen = centre.seen /\ then.open = centre.open
      /\ then.badge = badge /\ then.list = list
  BY <1>2, <1>3, <1>4 DEF Centre
<1>6. OnceEach(inbox) /\ Rows(inbox) = Rows(centre.inbox) /\ Len(inbox) <= MaxInbox
  BY DEF CentreFine, OnceEach, Rows
<1>7. CentreFine(then) /\ then.seen = centre.seen
  BY <1>4, <1>5, <1>6 DEF CentreFine, badge
<1> QED BY <1>7 DEF then, between

LEMMA CentreKeeps ==
  ASSUME AlertInv, NEW c, CentreTo(c), CentreFine(c), c.seen = centre.seen
  PROVE  AlertInv'
<1>1. AlertTyped'
  BY DEF AlertInv, AlertTyped, CentreTo
<1>2. CursorReached' /\ NothingSkipped'
  BY PollsKept DEF CentreTo, AlertInv, AlertTyped
<1> QED BY <1>1, <1>2 DEF AlertInv

LEMMA ListKeeps ==
  ASSUME AlertInv,
         OpenList \/ CloseList \/ MarkAllRead \/ \E i \in DOMAIN centre.list : MarkRead(i)
  PROVE  AlertInv'
<1>1. /\ CentreFine(centre) /\ centre \in Centre /\ centre.inbox \in Seq(Entry)
      /\ DOMAIN centre.inbox = 1..Len(centre.inbox) /\ Len(centre.inbox) \in Nat
      /\ \A i \in DOMAIN centre.inbox : centre.inbox[i] \in Entry
  <2>1. CentreFine(centre) /\ centre \in Centre /\ centre.inbox \in Seq(Entry)
    BY DEF AlertInv, AlertTyped, CentreFine, Centre
  <2> QED BY <2>1
<1>2. ASSUME OpenList PROVE AlertInv'
  <2> DEFINE c == [centre EXCEPT !.open = TRUE, !.list = centre.inbox]
  <2>1. /\ c \in Centre /\ c.inbox = centre.inbox /\ c.seen = centre.seen /\ c.open = TRUE
        /\ c.list = centre.inbox /\ c.badge = centre.badge
    BY <1>1 DEF Centre
  <2>2. CentreTo(c)
    BY <1>2 DEF OpenList
  <2> HIDE DEF c
  <2>3. CentreFine(c)
    BY <1>1, <2>1 DEF CentreFine
  <2> QED BY <2>1, <2>2, <2>3, CentreKeeps
<1>3. ASSUME CloseList PROVE AlertInv'
  <2> DEFINE c == [centre EXCEPT !.open = FALSE, !.list = <<>>]
  <2>1. /\ c \in Centre /\ c.inbox = centre.inbox /\ c.seen = centre.seen /\ c.open = FALSE
        /\ c.badge = centre.badge
    <3>1. <<>> \in Seq(Entry)
      OBVIOUS
    <3> QED BY <1>1, <3>1 DEF Centre
  <2>2. CentreTo(c)
    BY <1>3 DEF CloseList
  <2> HIDE DEF c
  <2>3. CentreFine(c)
    BY <1>1, <2>1 DEF CentreFine
  <2> QED BY <2>1, <2>2, <2>3, CentreKeeps
<1>4. ASSUME MarkAllRead PROVE AlertInv'
  <2> DEFINE read == [i \in DOMAIN centre.inbox |-> [centre.inbox[i] EXCEPT !.read = TRUE]]
  <2>1. \A i \in DOMAIN centre.inbox : /\ [centre.inbox[i] EXCEPT !.read = TRUE] \in Entry
                                       /\ read[i].row = centre.inbox[i].row
    BY <1>1 DEF Entry
  <2>2. read \in Seq(Entry) /\ DOMAIN read = DOMAIN centre.inbox /\ Len(read) = Len(centre.inbox)
    <3> DEFINE n == Len(centre.inbox)
    <3>1. n \in Nat /\ DOMAIN centre.inbox = 1..n
      BY <1>1
    <3>2. read \in [1..n -> Entry] /\ DOMAIN read = DOMAIN centre.inbox
      BY <2>1, <3>1
    <3> HIDE DEF n, read
    <3>3. read \in Seq(Entry) /\ Len(read) = n
      BY <3>1, <3>2, FromFunction
    <3> QED BY <3>2, <3>3 DEF n
  <2>3. CentreTo(Shown([centre EXCEPT !.inbox = read]))
    BY <1>4 DEF MarkAllRead
  <2> HIDE DEF read
  <2> QED BY <1>1, <2>1, <2>2, <2>3, MarkedFine, CentreKeeps
<1>5. ASSUME NEW i \in DOMAIN centre.list, MarkRead(i) PROVE AlertInv'
  <2>1. PICK j \in DOMAIN centre.inbox :
               CentreTo(Shown([centre EXCEPT !.inbox[j].read = TRUE]))
    BY <1>5 DEF MarkRead
  <2> DEFINE read == [centre.inbox EXCEPT ![j].read = TRUE]
  <2>2. CentreTo(Shown([centre EXCEPT !.inbox = read]))
    BY <2>1, Zenon
  <2>3. read \in Seq(Entry) /\ DOMAIN read = DOMAIN centre.inbox /\ Len(read) = Len(centre.inbox)
        /\ \A k \in DOMAIN centre.inbox : read[k].row = centre.inbox[k].row
    <3>1. read = [k \in DOMAIN centre.inbox |->
                    IF k = j THEN [centre.inbox[j] EXCEPT !.read = TRUE] ELSE centre.inbox[k]]
      BY <1>1
    <3>2. \A k \in DOMAIN centre.inbox : read[k] \in Entry /\ read[k].row = centre.inbox[k].row
      BY <1>1, <3>1 DEF Entry
    <3> DEFINE n == Len(centre.inbox)
    <3>3. n \in Nat /\ DOMAIN centre.inbox = 1..n
      BY <1>1
    <3>4. read \in [1..n -> Entry] /\ DOMAIN read = DOMAIN centre.inbox
      BY <3>1, <3>2, <3>3
    <3> HIDE DEF n, read
    <3>5. read \in Seq(Entry) /\ Len(read) = n
      BY <3>3, <3>4, FromFunction
    <3> QED BY <3>2, <3>4, <3>5 DEF n
  <2> HIDE DEF read
  <2> QED BY <1>1, <2>2, <2>3, MarkedFine, CentreKeeps
<1> QED BY <1>2, <1>3, <1>4, <1>5

LEMMA QuietKeeps ==
  ASSUME AlertInv, TickClock \/ StopPolling \/ \E s \in SettingsSet : ChangeSettings(s)
  PROVE  AlertInv'
<1>1. AlertTyped
  BY DEF AlertInv
<1>2. ASSUME TickClock PROVE AlertInv'
  <2>1. AlertTyped'
    BY <1>1, <1>2 DEF AlertTyped, TickClock, centreVars
  <2> QED BY <1>1, <1>2, <2>1, PollsKept DEF TickClock, centreVars, AlertInv, AlertTyped
<1>3. ASSUME StopPolling PROVE AlertInv'
  <2>1. AlertTyped'
    BY <1>1, <1>3, ClearedFine DEF AlertTyped, StopPolling
  <2> QED BY <1>1, <1>3, <2>1, PollsKept DEF StopPolling, AlertInv, AlertTyped
<1>4. ASSUME NEW s \in SettingsSet, ChangeSettings(s) PROVE AlertInv'
  <2>1. AlertTyped'
    BY <1>1, <1>4 DEF AlertTyped, ChangeSettings
  <2>2. CursorReached'
    BY <1>4 DEF AlertInv, CursorReached, ChangeSettings, Reached, Answered
  <2> QED BY <1>4, <2>1, <2>2 DEF AlertInv, NothingSkipped, ChangeSettings
<1> QED BY <1>2, <1>3, <1>4

-----------------------------------------------------------------------------
\* Rows are stamped and committed.
LEMMA StampKeeps ==
  ASSUME AlertInv, NEW source \in Source, NEW marks \in SUBSET Mark, StampRow(source, marks)
  PROVE  AlertInv'
<1> DEFINE row == [at |-> clock, source |-> source, marks |-> marks, committed |-> FALSE]
           n == Len(rows)
<1>1. AlertTyped /\ CursorReached /\ NothingSkipped
  BY DEF AlertInv
<1>2. row \in AlertRow /\ ~row.committed /\ rows \in Seq(AlertRow) /\ n \in Nat
  BY <1>1 DEF AlertRow, AlertTyped
<1>3. rows' = Append(rows, row) /\ UNCHANGED <<clock, settings, late>> /\ UNCHANGED centreVars
  BY DEF StampRow
<1> HIDE DEF row
<1>4. /\ rows' \in Seq(AlertRow) /\ DOMAIN rows' = DOMAIN rows \cup {n + 1}
      /\ n + 1 \notin DOMAIN rows
      /\ rows'[n + 1] = row /\ \A r \in DOMAIN rows : rows'[r] = rows[r]
  BY <1>2, <1>3
<1>5. AlertTyped'
  BY <1>1, <1>3, <1>4 DEF AlertTyped, centreVars
<1> HIDE DEF n
<1>6. \A t : Reached(t) => ReachedThen(t)
  BY <1>3, <1>4 DEF Reached, ReachedThen, centreVars
<1>7. \A t, a : Accounted(t, a) => AccountedThen(t, a)
  <2>1. \A r \in DOMAIN rows : AlertKind(r)' = AlertKind(r)
    BY <1>3, <1>4 DEF AlertKind
  <2>2. \A r \in DOMAIN rows' : rows'[r].committed => r \in DOMAIN rows
    BY <1>2, <1>4
  <2> QED BY <1>3, <1>4, <2>1, <2>2 DEF Accounted, AccountedThen, centreVars
<1>8. UNCHANGED <<cursor, polls, altered>>
  BY <1>3 DEF centreVars
<1>9. \A i \in DOMAIN polls : Answered(polls[i]) =>
        \A r \in polls[i].answer : /\ r \in DOMAIN rows' /\ rows'[r].committed
                                   /\ rows'[r].at = rows[r].at
  BY <1>1, <1>4 DEF CursorReached
<1>10. CursorReached'
  <2>1. cursor' # NoCursor => ReachedThen(cursor')
    BY <1>1, <1>6, <1>8 DEF CursorReached
  <2>2. \A i \in DOMAIN polls' : ReachedThen(polls'[i].since)
    BY <1>1, <1>6, <1>8 DEF CursorReached
  <2> QED BY <1>8, <1>9, <2>1, <2>2 DEF CursorReached, Reached, ReachedThen, Answered
<1>11. NothingSkipped'
  <2> SUFFICES ASSUME ~altered PROVE NothingSkipped'
    BY <1>8 DEF NothingSkipped
  <2>1. cursor' # NoCursor => AccountedThen(cursor', {})
    BY <1>1, <1>7, <1>8 DEF NothingSkipped
  <2>2. \A i \in DOMAIN polls' :
          /\ AccountedThen(polls'[i].since, {})
          /\ Answered(polls'[i]) =>
               \A r \in polls'[i].answer : AccountedThen(rows'[r].at, polls'[i].answer)
    BY <1>1, <1>7, <1>8, <1>9 DEF NothingSkipped
  <2> QED BY <2>1, <2>2 DEF NothingSkipped, Accounted, AccountedThen, Answered
<1> QED BY <1>5, <1>10, <1>11 DEF AlertInv

\* A row that is committed behind the cursor, or behind what a poll asks with or was answered, is
\* late.
LEMMA CommitKeeps ==
  ASSUME AlertInv, NEW r \in DOMAIN rows, CommitRow(r)
  PROVE  AlertInv'
<1> DEFINE row == [rows[r] EXCEPT !.committed = TRUE]
<1>1. AlertTyped /\ CursorReached /\ NothingSkipped
  BY DEF AlertInv
<1>2. /\ rows \in Seq(AlertRow) /\ DOMAIN rows = 1..Len(rows) /\ Len(rows) \in Nat
      /\ \A q \in DOMAIN rows : rows[q] \in AlertRow /\ rows[q].at \in Int
  BY <1>1, RowsTyped DEF AlertTyped
<1>3. /\ row \in AlertRow /\ row.committed /\ row.at = rows[r].at /\ row.marks = rows[r].marks
  BY <1>2 DEF AlertRow
<1>4. /\ ~rows[r].committed /\ rows' = [rows EXCEPT ![r].committed = TRUE]
      /\ UNCHANGED <<clock, settings>> /\ UNCHANGED centreVars
      /\ late' = IF \E s \in DOMAIN rows : rows[s].committed /\ rows[s].at >= rows[r].at
                 THEN late \cup {r} ELSE late
  BY DEF CommitRow
<1>5. rows' = [rows EXCEPT ![r] = row]
  BY <1>4
<1> HIDE DEF row
<1>6. /\ rows' \in Seq(AlertRow) /\ DOMAIN rows' = DOMAIN rows
      /\ rows'[r] = row /\ \A q \in DOMAIN rows : q # r => rows'[q] = rows[q]
  BY <1>2, <1>3, <1>5
<1>7. \A q \in DOMAIN rows : /\ rows'[q].at = rows[q].at /\ rows'[q].marks = rows[q].marks
                             /\ rows[q].committed => rows'[q].committed
                             /\ q # r /\ rows'[q].committed => rows[q].committed
  BY <1>3, <1>6
<1>8. AlertTyped'
  BY <1>1, <1>4, <1>6 DEF AlertTyped, centreVars
<1>9. \A t : Reached(t) => ReachedThen(t)
  BY <1>4, <1>6, <1>7 DEF Reached, ReachedThen, centreVars
<1>10. UNCHANGED <<cursor, began, polls, altered, told, cut, crowded>>
  BY <1>4 DEF centreVars
<1>11. ASSUME NEW t \in Int, began \in Int, Reached(t), NEW a, Accounted(t, a)
       PROVE  AccountedThen(t, a)
  <2> SUFFICES ASSUME NEW q \in DOMAIN rows', rows'[q].committed, AlertKind(q)' # {}, settings.on,
                      began < rows'[q].at, rows'[q].at <= t
               PROVE  q \in told \cup late' \cup cut \cup crowded \cup a
    BY <1>4, <1>10 DEF AccountedThen
  <2>1. q \in DOMAIN rows /\ rows'[q].at = rows[q].at /\ AlertKind(q) # {}
    BY <1>4, <1>6, <1>7 DEF AlertKind
  <2>2. CASE q = r
    <3>1. ~(t <= began)
      BY <1>2, <1>11, <2>1
    <3>2. PICK s \in DOMAIN rows : rows[s].committed /\ t <= rows[s].at
      BY <1>11, <3>1 DEF Reached
    <3>3. rows[s].at >= rows[r].at
      BY <1>2, <1>11, <2>1, <2>2, <3>2
    <3>4. r \in late'
      BY <1>4, <3>2, <3>3
    <3> QED BY <2>2, <3>4
  <2>3. CASE q # r
    <3>1. q \in told \cup late \cup cut \cup crowded \cup a
      BY <1>7, <1>11, <2>1, <2>3 DEF Accounted
    <3> QED BY <1>4, <3>1
  <2> QED BY <2>2, <2>3
<1>12. \A i \in DOMAIN polls : Answered(polls[i]) =>
         \A q \in polls[i].answer : /\ q \in DOMAIN rows /\ q \in DOMAIN rows'
                                    /\ rows[q].committed /\ rows'[q].committed
                                    /\ rows'[q].at = rows[q].at /\ rows[q].at \in Int
                                    /\ Reached(rows[q].at)
  <2>1. \A i \in DOMAIN polls : Answered(polls[i]) =>
         \A q \in polls[i].answer : q \in DOMAIN rows /\ rows[q].committed
    BY <1>1 DEF CursorReached
  <2>2. \A q \in DOMAIN rows : rows[q].committed => Reached(rows[q].at)
    BY <1>2 DEF Reached
  <2> QED BY <1>2, <1>6, <1>7, <2>1, <2>2
<1>13. CursorReached'
  <2>1. cursor' # NoCursor => ReachedThen(cursor')
    BY <1>1, <1>9, <1>10 DEF CursorReached
  <2>2. \A i \in DOMAIN polls' : ReachedThen(polls'[i].since)
    BY <1>1, <1>9, <1>10 DEF CursorReached
  <2> QED BY <1>10, <1>12, <2>1, <2>2 DEF CursorReached, Reached, ReachedThen, Answered
<1>14. NothingSkipped'
  <2> SUFFICES ASSUME ~altered PROVE NothingSkipped'
    BY <1>10 DEF NothingSkipped
  <2>1. ASSUME cursor' # NoCursor PROVE AccountedThen(cursor', {})
    <3>1. cursor \in Int /\ began \in Int
      BY <1>1, <1>10, <2>1 DEF AlertTyped
    <3>2. Reached(cursor) /\ Accounted(cursor, {})
      BY <1>1, <1>10, <2>1 DEF CursorReached, NothingSkipped
    <3>3. AccountedThen(cursor, {})
      BY <1>11, <3>1, <3>2
    <3> QED BY <1>10, <3>3
  <2>2. ASSUME NEW i \in DOMAIN polls
        PROVE  /\ AccountedThen(polls[i].since, {})
               /\ Answered(polls[i]) =>
                    \A q \in polls[i].answer : AccountedThen(rows'[q].at, polls[i].answer)
    <3>1. polls[i].since \in Int /\ began \in Int
      BY <1>1, PollsTyped
    <3>2. /\ Reached(polls[i].since) /\ Accounted(polls[i].since, {})
          /\ Answered(polls[i]) =>
               \A q \in polls[i].answer : Accounted(rows[q].at, polls[i].answer)
      BY <1>1 DEF CursorReached, NothingSkipped
    <3> QED BY <1>11, <1>12, <3>1, <3>2
  <2> QED BY <1>10, <2>1, <2>2 DEF NothingSkipped, Accounted, AccountedThen, Answered
<1> QED BY <1>8, <1>13, <1>14 DEF AlertInv

-----------------------------------------------------------------------------
\* The feed answers with rows that are committed, and with all of them that are alerts, but for those
\* it had no room for or did not read.
LEMMA FeedKnows ==
  ASSUME AlertTyped, NEW since \in Int, settings.on, settings.marks # {}
  PROVE  /\ Feed(since) \subseteq DOMAIN rows /\ \A r \in Feed(since) : rows[r].committed
         /\ \A r \in DOMAIN rows :
              rows[r].committed /\ AlertKind(r) # {} /\ since < rows[r].at =>
                r \in Feed(since) \cup (Alerts(since) \ Feed(since)) \cup RowsLeft(since)
<1>1. \A r \in DOMAIN rows : rows[r].source \in Source /\ rows[r].at \in Int
  BY RowsTyped DEF AlertRow
<1>2. Feed(since) = LastOf(Limit, Alerts(since))
  BY DEF Feed
<1>3. LastOf(Limit, Alerts(since)) \subseteq Alerts(since)
  BY DEF LastOf
<1>4. \A source \in Source : First(RowLimit, Since(source, since)) \subseteq Since(source, since)
  BY DEF First
<1>5. \A source \in Source : \A r \in Since(source, since) : r \in DOMAIN rows /\ rows[r].committed
  BY DEF Since
<1>6. \A r \in RowsRead(since) : r \in DOMAIN rows /\ rows[r].committed
  BY <1>4, <1>5 DEF RowsRead
<1>7. Alerts(since) \subseteq RowsRead(since)
  BY DEF Alerts
<1>8. ASSUME NEW r \in DOMAIN rows, rows[r].committed, AlertKind(r) # {}, since < rows[r].at
      PROVE  r \in Alerts(since) \cup RowsLeft(since)
  <2>1. r \in Since(rows[r].source, since) /\ rows[r].source \in Source
    BY <1>1, <1>8 DEF Since
  <2>2. r \in UNION {Since(source, since) : source \in Source}
    BY <2>1, Zenon
  <2>3. r \in RowsRead(since) \/ r \in RowsLeft(since)
    BY <2>2, Zenon DEF RowsLeft
  <2> QED BY <1>8, <2>3 DEF Alerts
<1> QED BY <1>2, <1>3, <1>6, <1>7, <1>8

LEMMA AnswerPollKeeps ==
  ASSUME AlertInv, NEW i \in DOMAIN polls, AnswerPoll(i)
  PROVE  AlertInv'
<1> DEFINE since == polls[i].since
           feed == Feed(since)
           p == [polls[i] EXCEPT !.answer = feed]
<1>1. AlertTyped /\ CursorReached /\ NothingSkipped
  BY DEF AlertInv
<1>2. /\ polls \in Seq(AlertPoll) /\ DOMAIN polls = 1..Len(polls) /\ polls[i] \in AlertPoll
      /\ since \in Int /\ cursor \in Int /\ began \in Int
  BY <1>1, PollsTyped
<1>3. /\ UNCHANGED <<clock, skew, rows, settings, polling, cursor, centre, told, began, late, altered,
                     turns>>
      /\ polls' = [polls EXCEPT ![i].answer = Feed(polls[i].since)]
      /\ IF settings.on /\ settings.marks # {}
         THEN /\ cut' = cut \cup (Alerts(polls[i].since) \ Feed(polls[i].since))
              /\ crowded' = crowded \cup RowsLeft(polls[i].since)
         ELSE UNCHANGED <<cut, crowded>>
  BY DEF AnswerPoll
<1>4. /\ settings.on /\ settings.marks # {} =>
           /\ feed \subseteq DOMAIN rows /\ \A r \in feed : rows[r].committed
           /\ \A r \in DOMAIN rows :
                rows[r].committed /\ AlertKind(r) # {} /\ since < rows[r].at =>
                  r \in feed \cup (Alerts(since) \ feed) \cup RowsLeft(since)
      /\ ~(settings.on /\ settings.marks # {}) => feed \in {Disabled, {}}
  <2>1. ~(settings.on /\ settings.marks # {}) => feed \in {Disabled, {}}
    BY DEF Feed
  <2> HIDE DEF since
  <2> QED BY <1>1, <1>2, <2>1, FeedKnows
<1>5. /\ cut \subseteq cut' /\ crowded \subseteq crowded'
      /\ settings.on /\ settings.marks # {} =>
           Alerts(since) \ feed \subseteq cut' /\ RowsLeft(since) \subseteq crowded'
  BY <1>3
<1>6. feed \in (SUBSET Nat) \cup {NoAnswer, Disabled}
  BY <1>1, <1>4, RowsTyped
<1> HIDE DEF feed
<1>7. p \in AlertPoll /\ p.since = since /\ p.answer = feed
  BY <1>2, <1>6 DEF AlertPoll
<1>8. polls' = [polls EXCEPT ![i] = p]
  BY <1>3 DEF feed
<1> HIDE DEF p
<1>9. /\ polls' \in Seq(AlertPoll) /\ DOMAIN polls' = DOMAIN polls /\ polls'[i] = p
      /\ \A j \in DOMAIN polls : j # i => polls'[j] = polls[j]
  BY <1>2, <1>7, <1>8
<1>10. AlertTyped'
  BY <1>1, <1>2, <1>3, <1>9 DEF AlertTyped
<1>11. /\ \A t \in Int : \A a, b : Accounted(t, a) /\ a \subseteq told' \cup b => AccountedThen(t, b)
       /\ \A t \in Int : Reached(t) => ReachedThen(t)
  <2>1. UNCHANGED <<rows, settings, late>> /\ began' = began /\ told' = told
    BY <1>3
  <2>2. told \subseteq told' /\ began \in Int /\ began' \in Int /\ began <= began'
    BY <1>2, <2>1
  <2> QED BY <1>1, <1>5, <2>1, <2>2, AccountKept
<1>12. CursorReached'
  <2>1. cursor' # NoCursor => ReachedThen(cursor')
    BY <1>1, <1>2, <1>3, <1>11 DEF CursorReached
  <2>2. ASSUME NEW j \in DOMAIN polls
        PROVE  /\ ReachedThen(polls'[j].since)
               /\ Answered(polls'[j]) =>
                    \A r \in polls'[j].answer : r \in DOMAIN rows /\ rows[r].committed
    <3>1. CASE j = i
      <4>1. ReachedThen(since)
        BY <1>1, <1>2, <1>11 DEF CursorReached
      <4>2. ASSUME Answered(p), NEW r \in feed PROVE r \in DOMAIN rows /\ rows[r].committed
        BY <1>4, <1>7, <4>2 DEF Answered
      <4> QED BY <1>7, <1>9, <3>1, <4>1, <4>2
    <3>2. CASE j # i
      <4>1. polls'[j] = polls[j] /\ polls[j].since \in Int
        BY <1>1, <1>9, <3>2, PollsTyped
      <4> QED BY <1>1, <1>11, <4>1 DEF CursorReached
    <3> QED BY <3>1, <3>2
  <2> QED BY <1>3, <1>9, <2>1, <2>2 DEF CursorReached, Reached, ReachedThen, Answered
<1>13. NothingSkipped'
  <2> SUFFICES ASSUME ~altered PROVE NothingSkipped'
    BY <1>3 DEF NothingSkipped
  <2>1. cursor' # NoCursor => AccountedThen(cursor', {})
    BY <1>1, <1>2, <1>3, <1>11 DEF NothingSkipped
  <2>2. ASSUME NEW j \in DOMAIN polls
        PROVE  /\ AccountedThen(polls'[j].since, {})
               /\ Answered(polls'[j]) =>
                    \A r \in polls'[j].answer : AccountedThen(rows'[r].at, polls'[j].answer)
    <3>1. CASE j = i
      <4>1. Accounted(since, {}) /\ AccountedThen(since, {})
        BY <1>1, <1>2, <1>11 DEF NothingSkipped
      <4>2. ASSUME NEW t \in Int, settings.on, settings.marks # {} PROVE AccountedThen(t, feed)
        <5> SUFFICES ASSUME NEW r \in DOMAIN rows, rows[r].committed, AlertKind(r) # {},
                            began < rows[r].at
                     PROVE  r \in told \cup late \cup cut' \cup crowded' \cup feed
          BY <1>3 DEF AccountedThen, AlertKind
        <5>1. rows[r].at \in Int
          BY <1>1, RowsTyped
        <5>2. CASE since < rows[r].at
          BY <1>4, <1>5, <4>2, <5>2
        <5>3. CASE ~(since < rows[r].at)
          <6>1. rows[r].at <= since
            BY <1>2, <5>1, <5>3
          <6>2. r \in told \cup late \cup cut \cup crowded
            BY <4>1, <4>2, <6>1 DEF Accounted
          <6> QED BY <1>5, <6>2
        <5> QED BY <5>2, <5>3
      <4>3. ASSUME Answered(p), NEW r \in feed PROVE AccountedThen(rows'[r].at, feed)
        <5>1. settings.on /\ settings.marks # {}
          BY <1>4, <1>7, <4>3 DEF Answered
        <5>2. r \in DOMAIN rows /\ rows[r].at \in Int
          BY <1>1, <1>4, <4>3, <5>1, RowsTyped
        <5> QED BY <1>3, <4>2, <5>1, <5>2
      <4> QED BY <1>7, <1>9, <3>1, <4>1, <4>3
    <3>2. CASE j # i
      <4>1. polls'[j] = polls[j] /\ polls[j].since \in Int
        BY <1>1, <1>9, <3>2, PollsTyped
      <4>2. AccountedThen(polls[j].since, {})
        BY <1>1, <1>11, <4>1 DEF NothingSkipped
      <4>3. ASSUME Answered(polls[j]), NEW r \in polls[j].answer
            PROVE  AccountedThen(rows'[r].at, polls[j].answer)
        <5>1. r \in DOMAIN rows /\ Accounted(rows[r].at, polls[j].answer)
          BY <1>1, <4>3 DEF CursorReached, NothingSkipped
        <5>2. rows[r].at \in Int /\ rows'[r].at = rows[r].at
          BY <1>1, <1>3, <5>1, RowsTyped
        <5> QED BY <1>11, <5>1, <5>2
      <4> QED BY <4>1, <4>2, <4>3
    <3> QED BY <3>1, <3>2
  <2> QED BY <1>9, <2>1, <2>2 DEF NothingSkipped, Accounted, AccountedThen, Answered
<1> QED BY <1>10, <1>12, <1>13 DEF AlertInv

\* The browser takes the alerts of an answer: it moves the cursor to one of them at most, and all of
\* them have been shown then.
LEMMA ReceivePollKeeps ==
  ASSUME AlertInv, NEW i \in DOMAIN polls, ReceivePoll(i)
  PROVE  AlertInv'
<1> DEFINE answer == polls[i].answer
           state == [centre |-> centre, told |-> told, cursor |-> cursor]
           fold == MapThenFoldSet(AddNotification, state, LAMBDA r : r, Latest, answer)
           after == IF answer = Disabled THEN state ELSE fold
<1>1. AlertTyped /\ CursorReached /\ NothingSkipped
  BY DEF AlertInv
<1>2. /\ answer # NoAnswer /\ polls' = RemoveAt(polls, i)
      /\ UNCHANGED <<clock, skew, rows, settings, polling, began, late, cut, crowded, altered,
                     turns>>
      /\ centre' = after.centre /\ told' = after.told /\ cursor' = after.cursor
  BY DEF ReceivePoll
<1>3. /\ polls \in Seq(AlertPoll) /\ polls[i] \in AlertPoll /\ polls[i].since \in Int
      /\ cursor \in Int /\ began \in Int /\ cursor # NoCursor /\ rows \in Seq(AlertRow)
  BY <1>1, PollsTyped, AlertAssumption DEF AlertTyped
<1>4. FoldInv(state, {})
  <2>1. centre \in Centre /\ told \in SUBSET Nat
    BY <1>1 DEF AlertTyped, CentreFine
  <2> QED BY <1>1, <1>3, <2>1 DEF FoldInv, AlertTyped
<1> DEFINE taken == IF answer = Disabled THEN {} ELSE answer
<1>5. FoldInv(after, taken) /\ taken \subseteq DOMAIN rows
  <2>1. CASE answer = Disabled
    BY <1>4, <2>1
  <2>2. CASE answer # Disabled
    <3>1. answer \subseteq DOMAIN rows
      BY <1>1, <1>2, <1>3, <2>2, PollsTyped DEF CursorReached, Answered
    <3> HIDE DEF answer, state
    <3>2. FoldInv(fold, answer)
      BY <1>3, <1>4, <3>1, FoldKeeps
    <3> QED BY <2>2, <3>1, <3>2
  <2> QED BY <2>1, <2>2
<1> HIDE DEF after, state
<1>6. /\ CentreFine(centre') /\ told' \in SUBSET Nat /\ centre'.seen \subseteq told'
      /\ told \cup taken \subseteq told' /\ cursor' \in Int
      /\ cursor' = cursor \/ \E r \in taken : cursor' = rows[r].at
  BY <1>2, <1>5 DEF FoldInv
<1>7. polls' \in Seq(AlertPoll) /\ \A j \in DOMAIN polls' : \E k \in DOMAIN polls :
                                     polls'[j] = polls[k]
  BY <1>2, <1>3, Removed, RemovedElement
<1>8. AlertTyped'
  <2>1. began <= clock + skew
    BY <1>1, PollsTyped
  <2> QED BY <1>1, <1>2, <1>3, <1>6, <1>7, <2>1 DEF AlertTyped, CentreFine
<1>9. /\ \A t \in Int : \A a, b : Accounted(t, a) /\ a \subseteq told' \cup b => AccountedThen(t, b)
      /\ \A t \in Int : Reached(t) => ReachedThen(t)
  <2>1. UNCHANGED <<rows, settings, late, began, cut, crowded>>
    BY <1>2
  <2>2. told \subseteq told' /\ began \in Int /\ began' \in Int /\ began <= began'
    BY <1>3, <1>6, <2>1
  <2> QED BY <1>1, <2>1, <2>2, AccountKept
<1>10. \A r \in taken : /\ rows[r].at \in Int /\ Reached(rows[r].at)
                        /\ ~altered => Accounted(rows[r].at, taken)
  <2> SUFFICES ASSUME NEW r \in taken
               PROVE  /\ rows[r].at \in Int /\ Reached(rows[r].at)
                      /\ ~altered => Accounted(rows[r].at, taken)
    OBVIOUS
  <2>1. answer # Disabled /\ taken = answer /\ Answered(polls[i])
    BY <1>2 DEF Answered
  <2>2. rows[r].at \in Int /\ rows[r].committed /\ r \in DOMAIN rows
    BY <1>1, <1>5, <2>1, RowsTyped DEF CursorReached
  <2>3. Reached(rows[r].at)
    BY <2>2 DEF Reached
  <2> QED BY <1>1, <2>1, <2>2, <2>3 DEF NothingSkipped
<1> HIDE DEF taken, answer
<1>11. CursorReached'
  <2>1. ReachedThen(cursor')
    <3>1. Reached(cursor')
      BY <1>1, <1>3, <1>6, <1>10 DEF CursorReached
    <3> QED BY <1>6, <1>9, <3>1
  <2>2. ASSUME NEW j \in DOMAIN polls'
        PROVE  /\ ReachedThen(polls'[j].since)
               /\ Answered(polls'[j]) =>
                    \A r \in polls'[j].answer : r \in DOMAIN rows /\ rows[r].committed
    <3>1. PICK k \in DOMAIN polls : polls'[j] = polls[k]
      BY <1>7
    <3> QED BY <1>1, <1>9, <3>1, PollsTyped DEF CursorReached
  <2> QED BY <1>2, <2>1, <2>2 DEF CursorReached, Reached, ReachedThen, Answered
<1>12. NothingSkipped'
  <2> SUFFICES ASSUME ~altered PROVE NothingSkipped'
    BY <1>2 DEF NothingSkipped
  <2>1. AccountedThen(cursor', {})
    <3>1. CASE cursor' = cursor
      BY <1>1, <1>3, <1>9, <3>1 DEF NothingSkipped
    <3>2. ASSUME NEW r \in taken, cursor' = rows[r].at PROVE AccountedThen(cursor', {})
      <4>1. taken \subseteq told' \cup {}
        BY <1>6
      <4> QED BY <1>9, <1>10, <3>2, <4>1
    <3> QED BY <1>6, <3>1, <3>2
  <2>2. ASSUME NEW j \in DOMAIN polls'
        PROVE  /\ AccountedThen(polls'[j].since, {})
               /\ Answered(polls'[j]) =>
                    \A r \in polls'[j].answer : AccountedThen(rows'[r].at, polls'[j].answer)
    <3>1. PICK k \in DOMAIN polls : polls'[j] = polls[k]
      BY <1>7
    <3>2. AccountedThen(polls[k].since, {})
      BY <1>1, <1>9, PollsTyped DEF NothingSkipped
    <3>3. ASSUME Answered(polls[k]), NEW r \in polls[k].answer
          PROVE  AccountedThen(rows'[r].at, polls[k].answer)
      <4>1. r \in DOMAIN rows /\ Accounted(rows[r].at, polls[k].answer)
        BY <1>1, <3>3 DEF CursorReached, NothingSkipped
      <4>2. rows[r].at \in Int /\ rows'[r].at = rows[r].at
        BY <1>1, <1>2, <4>1, RowsTyped
      <4> QED BY <1>9, <4>1, <4>2
    <3> QED BY <3>1, <3>2, <3>3
  <2> QED BY <2>1, <2>2 DEF NothingSkipped, Accounted, AccountedThen, Answered
<1> QED BY <1>8, <1>11, <1>12 DEF AlertInv

\* Polling starts anew, at an instant no earlier than before: a poll that is still under way is as
\* well accounted for.
LEMMA StartPollingKeeps ==
  ASSUME AlertInv, NEW config \in SettingsSet, StartPolling(config)
  PROVE  AlertInv'
<1> DEFINE p == [since |-> clock + skew, answer |-> NoAnswer]
<1>1. AlertTyped /\ CursorReached /\ NothingSkipped
  BY DEF AlertInv
<1>2. /\ cursor' = clock + skew /\ began' = clock + skew
      /\ centre' = Cleared /\ altered' = (altered /\ polls # <<>>)
      /\ polling' \in BOOLEAN /\ (polls' = polls \/ polls' = Append(polls, p))
      /\ UNCHANGED <<clock, skew, rows, settings, told, late, cut, crowded>>
  BY DEF StartPolling, SendPoll
<1>3. clock + skew \in Int /\ polls \in Seq(AlertPoll) /\ altered \in BOOLEAN
  BY <1>1 DEF AlertTyped
<1>4. p \in AlertPoll /\ p.since = began' /\ p.answer = NoAnswer
  BY <1>2, <1>3 DEF AlertPoll
<1> HIDE DEF p
<1>5. /\ polls' \in Seq(AlertPoll)
      /\ \A j \in DOMAIN polls' : (\E k \in DOMAIN polls : polls'[j] = polls[k]) \/ polls'[j] = p
  BY <1>2, <1>3, <1>4
<1>6. AlertTyped'
  <2>1. CentreFine(Cleared) /\ Cleared.seen = {}
    BY ClearedFine
  <2>2. CentreFine(centre') /\ centre'.seen \subseteq told'
    BY <1>2, <2>1
  <2>3. cursor' \in Int /\ began' \in Int /\ began' <= clock' + skew'
    BY <1>2, <1>3
  <2> QED BY <1>1, <1>2, <1>5, <2>2, <2>3 DEF AlertTyped, CentreFine
<1>7. \A a : AccountedThen(began', a) /\ ReachedThen(began')
  <2>1. \A r \in DOMAIN rows : rows[r].at \in Int
    BY <1>1, RowsTyped
  <2> QED BY <1>2, <1>3, <2>1 DEF AccountedThen, ReachedThen
<1>8. ASSUME NEW j \in DOMAIN polls'
      PROVE  /\ ReachedThen(polls'[j].since)
             /\ Answered(polls'[j]) =>
                  \A r \in polls'[j].answer : r \in DOMAIN rows' /\ rows'[r].committed
             /\ ~altered' =>
                  /\ AccountedThen(polls'[j].since, {})
                  /\ Answered(polls'[j]) =>
                       \A r \in polls'[j].answer : AccountedThen(rows'[r].at, polls'[j].answer)
  <2>1. CASE polls'[j] = p
    BY <1>4, <1>7, <2>1 DEF Answered
  <2>2. ASSUME NEW k \in DOMAIN polls, polls'[j] = polls[k]
        PROVE  /\ ReachedThen(polls'[j].since)
               /\ Answered(polls'[j]) =>
                    \A r \in polls'[j].answer : r \in DOMAIN rows' /\ rows'[r].committed
               /\ ~altered' =>
                    /\ AccountedThen(polls'[j].since, {})
                    /\ Answered(polls'[j]) =>
                         \A r \in polls'[j].answer : AccountedThen(rows'[r].at, polls'[j].answer)
    <3>1. /\ polls[k].since \in Int /\ began \in Int /\ began <= began' /\ began' \in Int
          /\ polls # <<>>
      BY <1>1, <1>2, <1>3, PollsTyped
    <3>2. /\ \A t \in Int : \A a : Accounted(t, a) => AccountedThen(t, a)
          /\ \A t \in Int : Reached(t) => ReachedThen(t)
      <4>1. /\ \A t \in Int : \A a, b : Accounted(t, a) /\ a \subseteq told' \cup b =>
                                      AccountedThen(t, b)
            /\ \A t \in Int : Reached(t) => ReachedThen(t)
        BY <1>1, <1>2, <3>1, AccountKept
      <4>2. ASSUME NEW t \in Int, NEW a, Accounted(t, a) PROVE AccountedThen(t, a)
        <5>1. a \subseteq told' \cup a
          OBVIOUS
        <5> QED BY <4>1, <4>2, <5>1
      <4> QED BY <4>1, <4>2
    <3>3. /\ ReachedThen(polls[k].since)
          /\ Answered(polls[k]) =>
               \A r \in polls[k].answer : r \in DOMAIN rows /\ rows[r].committed
      BY <1>1, <3>1, <3>2 DEF CursorReached
    <3>4. ASSUME ~altered'
          PROVE  /\ AccountedThen(polls[k].since, {})
                 /\ Answered(polls[k]) =>
                      \A r \in polls[k].answer : AccountedThen(rows'[r].at, polls[k].answer)
      <4>1. ~altered
        BY <1>2, <3>1, <3>4
      <4>2. AccountedThen(polls[k].since, {})
        BY <1>1, <3>1, <3>2, <4>1 DEF NothingSkipped
      <4>3. ASSUME Answered(polls[k]), NEW r \in polls[k].answer
            PROVE  AccountedThen(rows'[r].at, polls[k].answer)
        <5>1. r \in DOMAIN rows /\ Accounted(rows[r].at, polls[k].answer)
          BY <1>1, <3>3, <4>1, <4>3 DEF NothingSkipped
        <5>2. rows[r].at \in Int /\ rows'[r].at = rows[r].at
          BY <1>1, <1>2, <5>1, RowsTyped
        <5> QED BY <3>2, <5>1, <5>2
      <4> QED BY <4>2, <4>3
    <3> QED BY <1>2, <2>2, <3>3, <3>4
  <2> QED BY <1>5, <2>1, <2>2
<1>9. CursorReached'
  BY <1>2, <1>7, <1>8 DEF CursorReached, Reached, ReachedThen, Answered
<1>10. NothingSkipped'
  BY <1>2, <1>7, <1>8 DEF NothingSkipped, Accounted, AccountedThen, Answered
<1> QED BY <1>6, <1>9, <1>10 DEF AlertInv

LEMMA AlertStep == AlertInv /\ [AlertNext]_alertVars => AlertInv'
<1> SUFFICES ASSUME AlertInv, [AlertNext]_alertVars PROVE AlertInv'
  OBVIOUS
<1>1. CASE UNCHANGED alertVars
  <2>1. AlertTyped'
    BY <1>1 DEF alertVars, AlertInv, AlertTyped
  <2> QED BY <1>1, <2>1, PollsKept DEF alertVars, AlertInv, AlertTyped
<1>2. ASSUME NEW source \in Source, NEW marks \in SUBSET Mark, StampRow(source, marks)
      PROVE  AlertInv'
  BY <1>2, StampKeeps
<1>3. ASSUME NEW r \in DOMAIN rows, CommitRow(r) PROVE AlertInv'
  BY <1>3, CommitKeeps
<1>4. CASE TickClock \/ StopPolling \/ \E s \in SettingsSet : ChangeSettings(s)
  BY <1>4, QuietKeeps
<1>5. CASE Poll \/ \E i \in DOMAIN polls : FailPoll(i)
  BY <1>5, PollKeeps
<1>6. ASSUME NEW i \in DOMAIN polls, AnswerPoll(i) PROVE AlertInv'
  BY <1>6, AnswerPollKeeps
<1>7. ASSUME NEW i \in DOMAIN polls, ReceivePoll(i) PROVE AlertInv'
  BY <1>7, ReceivePollKeeps
<1>8. ASSUME NEW config \in SettingsSet, StartPolling(config) PROVE AlertInv'
  BY <1>8, StartPollingKeeps
<1>9. CASE OpenList \/ CloseList \/ MarkAllRead \/ \E i \in DOMAIN centre.list : MarkRead(i)
  BY <1>9, ListKeeps
<1> QED BY <1>1, <1>2, <1>3, <1>4, <1>5, <1>6, <1>7, <1>8, <1>9 DEF AlertNext

LEMMA AlertsHold == AlertSpec => []AlertInv
<1> QED BY AlertsInitially, AlertStep, PTL DEF AlertSpec

\* The alert feed and the browser's cursor: whatever rows commit late, polls overlap or outlive the
\* polling that sent them, and answers leave out, an alert the cursor has passed has been shown,
\* unless it is one of those NoAlertSkipped names.
THEOREM AlertsNotSkipped == AlertSpec => []NoAlertSkipped
<1>1. AlertInv => NoAlertSkipped
  BY DEF AlertInv, NothingSkipped, Accounted, NoAlertSkipped
<1> QED BY <1>1, AlertsHold, PTL

\* The notification centre: whatever answers overlap, an alert is in the inbox once, the inbox keeps
\* its limit, what is remembered as seen is what it holds, and badge and list show it.
THEOREM CentreStaysRight == AlertSpec => []CentreAgrees
<1>1. ASSUME AlertInv PROVE CentreAgrees
  <2>1. CentreFine(centre)
    BY <1>1 DEF AlertInv, AlertTyped
  <2>2. IsInjective([i \in DOMAIN centre.inbox |-> centre.inbox[i].row])
    BY <2>1 DEF CentreFine, OnceEach, IsInjective
  <2> QED BY <2>1, <2>2 DEF CentreFine, Rows, CentreAgrees
<1> QED BY <1>1, AlertsHold, PTL
=============================================================================
