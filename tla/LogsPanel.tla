----------------------------- MODULE LogsPanel ------------------------------
(***************************************************************************)
(* LogsPanel (internal/tui/panels/logs.go): the log tail, which follows    *)
(* new logs unless the user has scrolled up.  The pump fills the store,    *)
(* the ticks of the program refresh the panel from it, the user scrolls    *)
(* and filters, the window changes its size and another service becomes    *)
(* the active one, in any order.                                           *)
(*                                                                         *)
(* An entry is known by its timestamp.  `query` says whether the filter    *)
(* holds a text, which some entries match and others do not.  The viewport *)
(* is a component of the bubbles library: it shows `height` of its `rows`  *)
(* lines from `offset` on.                                                 *)
(***************************************************************************)
EXTENDS Naturals, Sequences, FiniteSets

CONSTANTS Services,       \* names of services
          AllServices,      \* the empty name: all services are shown
          LogCap,         \* how many logs of a service the store keeps
          MaxTime,        \* bound: the last timestamp
          PanelHeights    \* the heights the window gives the panel

LogsBounds ==
    /\ AllServices \notin Services
    /\ LogCap \in Nat \ {0}
    /\ MaxTime \in Nat
    /\ PanelHeights \subseteq Nat

ASSUME LogsAssumption == LogsBounds

Times == 1 .. MaxTime

VARIABLES
    logs,      \* the store: the newest logs of each service, as they came
    logService,   \* service
    typing,    \* filtering: keys go to the filter
    query,     \* the filter is not empty
    auto,      \* autoScroll
    lines,     \* the timestamps of the lines the viewport holds
    rows,      \* vp: how many lines that is, at least one once it was filled
    offset,    \* vp.YOffset
    height,    \* vp.Height
    resized    \* history: the size has changed since the last refresh

view == << typing, query, auto, lines, rows, offset, height, resized >>
logsPanelVars == << logs, logService, view >>

Entry == [time : Times, hit : BOOLEAN]

Ring(s) == INSTANCE Window WITH Values <- Entry, Cap <- LogCap, window <- logs[s]

LogsPanelInit ==
    /\ logs = [s \in Services |-> << >>]
    /\ logService = AllServices
    /\ typing = FALSE
    /\ query = FALSE
    /\ auto = TRUE
    /\ lines = {}
    /\ rows = 0
    /\ offset = 0
    /\ height = 0
    /\ resized = FALSE

-----------------------------------------------------------------------------
(* viewport: its last offset, and whether it is there.                     *)
LastOffset(n, h) == IF n > h THEN n - h ELSE 0
AtBottom == offset >= LastOffset(rows, height)

(* The entries of the services shown that pass the filter.                 *)
Matching(srv, q) ==
    {e.time : e \in {x \in UNION {{logs[s][i] : i \in DOMAIN logs[s]} : s \in
                         IF srv = AllServices THEN Services ELSE {srv}} : q => x.hit}}

(* A mutated form: the lines are replaced and the viewport stays. *)
RefreshInPlace(srv, q) ==
    /\ lines' = Matching(srv, q)
    /\ rows' = IF lines' = {} THEN 1 ELSE Cardinality(lines')
    /\ offset' = IF offset > rows' - 1 THEN LastOffset(rows', height) ELSE offset
    /\ resized' = FALSE
    /\ UNCHANGED << auto, height >>

(* refresh: the lines are replaced.  A tail that is followed goes to the   *)
(* bottom, and so does an offset past the new lines.                       *)
RefreshLogs(srv, q) ==
    /\ lines' = Matching(srv, q)
    /\ rows' = IF lines' = {} THEN 1 ELSE Cardinality(lines')
    /\ offset' = IF auto \/ offset > rows' - 1 THEN LastOffset(rows', height) ELSE offset
    /\ resized' = FALSE
    /\ UNCHANGED << auto, height >>

(* The pump: PushLog of a log that may be older than those before it.  A   *)
(* timestamp may come again when neither store nor panel holds it.         *)
PushLog ==
    /\ \E s \in Services, e \in Entry :
          /\ \A r \in Services : \A i \in DOMAIN logs[r] : logs[r][i].time # e.time
          /\ e.time \notin lines
          /\ logs' = [logs EXCEPT ![s] = Ring(s)!Slide(@, e)]
    /\ UNCHANGED << logService, view >>

LogsTick ==
    /\ RefreshLogs(logService, query)
    /\ UNCHANGED << logs, logService, typing, query >>

LogsServiceChanged ==
    /\ \E s \in Services : logService' = s /\ RefreshLogs(s, query)
    /\ UNCHANGED << logs, typing, query >>

(* SetSize: two lines are kept for the filter and the status.              *)
SetSize ==
    /\ \E h \in PanelHeights \ {0} : height' = IF h > 3 THEN h - 2 ELSE 1
    /\ resized' = TRUE
    /\ UNCHANGED << logs, logService, typing, query, auto, lines, rows, offset >>

-----------------------------------------------------------------------------
(* Keys while the filter has the focus.                                    *)
TypeFilter ==
    /\ typing
    /\ query' \in BOOLEAN
    /\ RefreshLogs(logService, query')
    /\ UNCHANGED << logs, logService, typing >>

EscFilter ==
    /\ typing
    /\ typing' = FALSE
    /\ query' = FALSE
    /\ RefreshLogs(logService, FALSE)
    /\ UNCHANGED << logs, logService >>

EnterFilter ==
    /\ typing
    /\ typing' = FALSE
    /\ UNCHANGED << logs, logService, query, auto, lines, rows, offset, height, resized >>

(* Keys while the lines have it.                                           *)
Slash ==
    /\ ~ typing
    /\ typing' = TRUE
    /\ UNCHANGED << logs, logService, query, auto, lines, rows, offset, height, resized >>

(* A mutated form: the tail is followed from the next refresh on.          *)
JumpLater ==
    /\ ~ typing
    /\ auto' = TRUE
    /\ UNCHANGED << logs, logService, typing, query, lines, rows, offset, height, resized >>

JumpToBottom ==
    /\ ~ typing
    /\ auto' = TRUE
    /\ offset' = LastOffset(rows, height)
    /\ UNCHANGED << logs, logService, typing, query, lines, rows, height, resized >>

(* A mutated form: being at the bottom is told from having scrolled to the *)
(* very last line.                                                         *)
ScrollStrict(o) ==
    /\ offset' = o
    /\ auto' = (o + 1 >= rows)
    /\ UNCHANGED << logs, logService, typing, query, lines, rows, height, resized >>

(* Whatever else reaches the panel is the viewport's: it scrolls, or not,  *)
(* and where it ends up decides whether the tail is followed.  While the   *)
(* filter has the focus the cursor's blinking still gets here.             *)
Scroll(o) ==
    /\ offset' = o
    /\ auto' = (o >= LastOffset(rows, height))
    /\ UNCHANGED << logs, logService, typing, query, lines, rows, height, resized >>

ScrollKey == ~ typing /\ \E o \in 0 .. LastOffset(rows, height) : Scroll(o)
OtherMsg == Scroll(offset)

Keys == TypeFilter \/ EscFilter \/ EnterFilter \/ Slash \/ JumpToBottom \/ ScrollKey
LogsPanelNext == PushLog \/ LogsTick \/ LogsServiceChanged \/ SetSize \/ Keys \/ OtherMsg

LogsPanelSpec == LogsPanelInit /\ [][LogsPanelNext]_logsPanelVars

(* The program's loop re-arms its tick at every tick.                      *)
LogsPanelFairSpec == LogsPanelSpec /\ WF_logsPanelVars(LogsTick)

-----------------------------------------------------------------------------
(* Type invariant of the panel and of the store it reads.                  *)
LogsPanelTypeOK ==
    /\ logs \in [Services -> Seq(Entry)]
    /\ logService \in Services \cup {AllServices}
    /\ typing \in BOOLEAN /\ query \in BOOLEAN /\ auto \in BOOLEAN /\ resized \in BOOLEAN
    /\ lines \subseteq Times
    /\ rows \in Nat /\ offset \in Nat /\ height \in Nat

(* While the panel says auto-scroll is on, its last line is on the screen, *)
(* through refreshes, filters that come and go, changes of the service and *)
(* scrolling; only a new size of the window may hide it until the next     *)
(* refresh (logs.go:18, "Auto-scrolls to the bottom").                     *)
AutoIsAtBottom == auto /\ ~ resized => AtBottom

(* Auto-scroll is paused only by a user who scrolls up, or by a message    *)
(* that finds the window resized and not yet refreshed (logs.go:110, "If   *)
(* user scrolled up beyond the bottom, pause autoscroll").                 *)
PausedByScrollingUp == [][auto /\ ~ auto' => offset' < offset \/ resized]_logsPanelVars

(* What the store holds of the services shown is on the screen down to the *)
(* newest line.                                                            *)
TailIsShown == lines = Matching(logService, query) /\ AtBottom

(* A tail that is followed is brought up to date, however logs arrive and  *)
(* whatever else the user does, or its following ends.                     *)
TailIsFollowed == auto ~> TailIsShown \/ ~ auto
=============================================================================
