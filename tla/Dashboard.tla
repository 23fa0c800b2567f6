----------------------------- MODULE Dashboard ------------------------------
(***************************************************************************)
(* The TUI program (internal/tui/app.go) and the panels that keep a        *)
(* selection: Traces, Metrics and Services (internal/tui/panels).  One     *)
(* goroutine handles keys, ticks and messages one by one, while the pump   *)
(* fills the store the panels copy from at every refresh.  A command that  *)
(* a handler returns runs in a goroutine of its own and sends its message  *)
(* back whenever it gets there.                                            *)
(*                                                                         *)
(* Services are numbers in the order of their names; 0 is the empty name.  *)
(* A panel's rows are a list component of the bubbles library, with a      *)
(* cursor of its own beside the panel's `selected`.  Both count from 0.    *)
(* The Logs panel has a module of its own; here it has only its service.   *)
(***************************************************************************)
EXTENDS Naturals, Sequences, FiniteSetsExt, SequencesExt, Lists

CONSTANTS NumServices,    \* bound: services there may be
          Default,        \* the service the configuration names first, or 0
          TraceOrders,    \* the traces there may be, [id, service], as their start
                          \* times may order them, newest first
          MetricOrder,    \* the metrics there may be, by service and key
          Filters,        \* what texts in the metrics' filter may leave
          TraceLimit,     \* recentTraceLimit, 50
          MaxMessages     \* bound: messages on their way

NoService == 0
Names == 1 .. NumServices
AllTraces == UNION {Range(order) : order \in TraceOrders}
AllMetrics == Range(MetricOrder)

DashboardBounds ==
    /\ NumServices \in Nat /\ Default \in Nat
    /\ TraceOrders \subseteq Seq(AllTraces) /\ MetricOrder \in Seq(AllMetrics)
    /\ \A t \in AllTraces : t.service \in Names
    /\ \A m \in AllMetrics : m.service \in Names
    /\ Filters \subseteq SUBSET AllMetrics
    /\ TraceLimit \in Nat \ {0} /\ MaxMessages \in Nat \ {0}

ASSUME DashboardAssumption == DashboardBounds

Tabs == << "overview", "traces", "metrics", "logs", "services" >>
Panels == Range(Tabs)

VARIABLES
    known,     \* the store: the services it has heard of
    traces,    \* the store: the traces it holds
    metrics,   \* the store: the metrics it holds
    running,   \* the program has not been told to quit
    active,    \* the index of the tab shown
    service,   \* activeService
    inbox,     \* the services of ServiceChangedMsg on their way, or
               \* NoService where the command of Init has not run yet
    shown,     \* the service each panel is on: service, or active
    tp,        \* TracesPanel: list, selected, expanded, and the cursor's row
    mp,        \* MetricsPanel: all, vis, selected, query, typing, row
    sp         \* ServicesPanel: names, row

storeVars == << known, traces, metrics >>
panelVars == << tp, mp, sp >>
vars == << storeVars, running, active, service, inbox, shown, panelVars >>

Tab == Tabs[active + 1]

(* What the constructors leave.                                            *)
NewApp == active = 0 /\ service = Default

NewTraces == [list |-> << >>, selected |-> 0, expanded |-> FALSE, row |-> 0]

NewMetrics == [all |-> << >>, vis |-> << >>, selected |-> 0, query |-> AllMetrics,
               typing |-> FALSE, row |-> 0]

NewServices == [names |-> << >>, row |-> 0]

(* Overview and Services start on the first service, the others on all.    *)
NewOverview == [p \in Panels |-> IF p \in {"overview", "services"} THEN Default ELSE NoService]

(* runTUI and Init.  The first service is sent as a message too, by a      *)
(* command that has still to read which one it is.                         *)
Init ==
    /\ known = {} /\ traces = {} /\ metrics = {}
    /\ running = TRUE
    /\ NewApp
    /\ inbox = IF Default = NoService THEN << >> ELSE << NoService >>
    /\ shown = NewOverview
    /\ tp = NewTraces
    /\ mp = NewMetrics
    /\ sp = NewServices

-----------------------------------------------------------------------------
(* The list component.  New items leave the cursor where it was, though    *)
(* below the screen's last page it comes up to it; a key or a message      *)
(* leaves it on some item.                                                 *)
RowsAfterItems(row, n) == IF row < n THEN {row} ELSE 0 .. row
RowsAfterKey(n) == IF n = 0 THEN {0} ELSE 0 .. n - 1

(* Where x is in the sequence s, if it is.                                 *)
Places(s, Is(_)) == {i \in 0 .. Len(s) - 1 : Is(s[i + 1])}
First(places) == Min(places)

(* The services a panel reads, and what the store has of some services.    *)
TracesFor(services) == {t \in traces : t.service \in services}
MetricsFor(services) == {m \in metrics : m.service \in services}
Read(panel, sh) == IF sh[panel] = NoService THEN known ELSE {sh[panel]}

-----------------------------------------------------------------------------
(* TracesPanel.refresh: newest first, and on the trace that was selected.  *)
(* A root that arrives late gives its trace another start time; until then *)
(* that is the one of any of its spans.                                    *)
TraceLists(sh) ==
    {LET refs == Kept(order, TracesFor(Read("traces", sh)))
     IN  SubSeq(refs, 1, Min({TraceLimit, Len(refs)})) : order \in TraceOrders}

TraceOf(p) == IF p.selected < Len(p.list) THEN {p.list[p.selected + 1].id} ELSE {}

(* A mutated form: the row is kept, whatever is on it now. *)
TracesRefreshedInPlace(sh) ==
    UNION {{[tp EXCEPT !.list = refs, !.selected = r, !.row = r] :
                r \in RowsAfterItems(tp.row, Len(refs))} : refs \in TraceLists(sh)}

Showing(refs) ==
    LET found == Places(refs, LAMBDA t : t.id \in TraceOf(tp))
    IN  IF found # {}
        THEN {[tp EXCEPT !.list = refs, !.selected = First(found), !.row = First(found)]}
        ELSE {[tp EXCEPT !.list = refs, !.selected = 0, !.row = r] :
                  r \in RowsAfterItems(tp.row, Len(refs))}

TracesRefreshed(sh) == UNION {Showing(refs) : refs \in TraceLists(sh)}

(* MetricsPanel.applyFilter, which leaves `selected` alone.                *)
Filtered(p) ==
    LET vis == Kept(p.all, p.query)
    IN  {[p EXCEPT !.vis = vis, !.row = r] : r \in RowsAfterItems(p.row, Len(vis))}

MetricOf(p) == IF p.selected < Len(p.vis) THEN {p.vis[p.selected + 1]} ELSE {}

(* MetricsPanel.refresh: in order, and on the metric that was selected.    *)
MetricsRefreshed(sh) ==
    LET refs == Kept(MetricOrder, MetricsFor(Read("metrics", sh)))
        Reselected(p) ==
            LET found == Places(p.vis, LAMBDA m : m \in MetricOf(mp))
            IN  IF found = {} THEN p
                ELSE [p EXCEPT !.selected = First(found), !.row = First(found)]
    IN  {Reselected(p) : p \in Filtered([mp EXCEPT !.all = refs])}

(* ServicesPanel.refresh: the cursor goes back to the active service.      *)
ServicesRefreshed(sh) ==
    LET names == Kept([n \in Names |-> n], known)
        here == Places(names, LAMBDA n : n = sh["services"])
    IN  {[names |-> names, row |-> r] :
             r \in IF here = {} THEN RowsAfterItems(sp.row, Len(names)) ELSE here}

Refresh(sh) ==
    /\ tp' \in TracesRefreshed(sh)
    /\ mp' \in MetricsRefreshed(sh)
    /\ sp' \in ServicesRefreshed(sh)

-----------------------------------------------------------------------------
(* The pump, which quitting ends.  A log makes its service known as well.  *)
Push ==
    /\ running
    /\ \/ /\ \E t \in AllTraces \ traces : traces' = traces \cup {t} /\ known' = known \cup {t.service}
          /\ UNCHANGED metrics
       \/ /\ \E m \in AllMetrics \ metrics : metrics' = metrics \cup {m} /\ known' = known \cup {m.service}
          /\ UNCHANGED traces
       \/ /\ \E s \in Names \ known : known' = known \cup {s}
          /\ UNCHANGED << traces, metrics >>
    /\ UNCHANGED << running, active, service, inbox, shown, panelVars >>

(* The command of Init, in its goroutine, reads activeService.             *)
InitCommand ==
    /\ running
    /\ \E i \in DOMAIN inbox : inbox[i] = NoService /\ inbox' = [inbox EXCEPT ![i] = service]
    /\ UNCHANGED << storeVars, running, active, service, shown, panelVars >>

(* AppModel.Update, message by message.                                    *)
Tick ==
    /\ running
    /\ Refresh(shown)
    /\ UNCHANGED << storeVars, running, active, service, inbox, shown >>

(* A mutated form: only the panel on the screen is told. *)
ServiceChangedHere(i) ==
    /\ running
    /\ inbox[i] # NoService
    /\ service' = inbox[i]
    /\ inbox' = RemoveAt(inbox, i)
    /\ shown' = [shown EXCEPT ![Tab] = inbox[i]]
    /\ Refresh(shown')
    /\ UNCHANGED << storeVars, running, active >>

Broadcast(s) == [p \in Panels |-> s]

ServiceChanged(i) ==
    /\ running
    /\ inbox[i] # NoService
    /\ service' = inbox[i]
    /\ inbox' = RemoveAt(inbox, i)
    /\ shown' = Broadcast(inbox[i])
    /\ Refresh(shown')
    /\ UNCHANGED << storeVars, running, active >>

(* resizePanels: the lists' pages change under their cursors.              *)
TracesResized(e) ==
    \E r \in RowsAfterItems(tp.row, Len(tp.list)) : tp' = [tp EXCEPT !.expanded = e, !.row = r]
MetricsResized == \E r \in RowsAfterItems(mp.row, Len(mp.vis)) : mp' = [mp EXCEPT !.row = r]
ServicesResized == \E r \in RowsAfterItems(sp.row, Len(sp.names)) : sp' = [sp EXCEPT !.row = r]
ResizePanels == TracesResized(tp.expanded) /\ MetricsResized /\ ServicesResized

WindowSize ==
    /\ running
    /\ ResizePanels
    /\ UNCHANGED << storeVars, running, active, service, inbox, shown >>

(* The keys the program takes for itself, also while a filter is typed.    *)
Quit ==
    /\ running
    /\ running' = FALSE
    /\ UNCHANGED << storeVars, active, service, inbox, shown, panelVars >>

ChangeTab ==
    /\ running
    /\ active' \in {(active + 1) % Len(Tabs), (active + Len(Tabs) - 1) % Len(Tabs)}
    /\ UNCHANGED << storeVars, running, service, inbox, shown, panelVars >>

-----------------------------------------------------------------------------
(* TracesPanel.Update.  Enter and Esc lay the panel out anew.              *)
TracesKey ==
    /\ \/ tp.list # << >> /\ TracesResized(~ tp.expanded)
       \/ tp.expanded /\ TracesResized(FALSE)
       \/ ~ tp.expanded /\ \E r \in RowsAfterKey(Len(tp.list)) :
              tp' = [tp EXCEPT !.row = r, !.selected = r]
    /\ UNCHANGED << mp, sp, shown, inbox >>

(* MetricsPanel.Update.  A message that is no key, the cursor's blinking,  *)
(* makes the panel look where its list is, also while a filter is typed.   *)
MetricsKey ==
    /\ \/ mp.typing /\ mp' \in Filtered([mp EXCEPT !.typing = FALSE, !.query = AllMetrics])
       \/ mp.typing /\ mp' = [mp EXCEPT !.typing = FALSE]
       \/ mp.typing /\ \E q \in Filters \cup {AllMetrics} : mp' \in Filtered([mp EXCEPT !.query = q])
       \/ ~ mp.typing /\ mp' = [mp EXCEPT !.typing = TRUE]
       \/ ~ mp.typing /\ \E r \in RowsAfterKey(Len(mp.vis)) :
              mp' = [mp EXCEPT !.row = r, !.selected = r]
       \/ mp' = [mp EXCEPT !.selected = mp.row]
    /\ UNCHANGED << tp, sp, shown, inbox >>

(* ServicesPanel.Update: Enter on another service makes it the active one  *)
(* here, and by a message everywhere else.                                 *)
Choose ==
    /\ sp.row < Len(sp.names)
    /\ LET next == sp.names[sp.row + 1] IN
         /\ next # shown["services"]
         /\ Len(inbox) < MaxMessages
         /\ shown' = [shown EXCEPT !["services"] = next]
         /\ inbox' = Append(inbox, next)
    /\ UNCHANGED panelVars

ServicesKey ==
    \/ Choose
    \/ /\ \E r \in RowsAfterKey(Len(sp.names)) : sp' = [sp EXCEPT !.row = r]
       /\ UNCHANGED << tp, mp, shown, inbox >>

(* Any other key or message goes to the panel on the screen.               *)
PanelKey ==
    /\ running
    /\ \/ Tab = "traces" /\ TracesKey
       \/ Tab = "metrics" /\ MetricsKey
       \/ Tab = "services" /\ ServicesKey
    /\ UNCHANGED << storeVars, running, active, service >>

Next ==
    \/ Push \/ InitCommand \/ Tick \/ WindowSize \/ Quit \/ ChangeTab \/ PanelKey
    \/ \E i \in DOMAIN inbox : ServiceChanged(i)

Spec == Init /\ [][Next]_vars

-----------------------------------------------------------------------------
(* Type invariant of the program, its messages and its panels.             *)
TypeOK ==
    /\ known \subseteq Names /\ traces \subseteq AllTraces /\ metrics \subseteq AllMetrics
    /\ running \in BOOLEAN /\ active \in 0 .. Len(Tabs) - 1
    /\ service \in Names \cup {Default} /\ inbox \in Seq(Names \cup {Default, NoService})
    /\ shown \in [Panels -> Names \cup {Default, NoService}]
    /\ tp \in [list : Seq(AllTraces), selected : Nat, expanded : BOOLEAN, row : Nat]
    /\ mp \in [all : Seq(AllMetrics), vis : Seq(AllMetrics), selected : Nat,
                query : SUBSET AllMetrics, typing : BOOLEAN, row : Nat]
    /\ sp \in [names : Seq(Names), row : Nat]

(* With no message on its way every panel and the top bar are on the same  *)
(* service, in whatever order the messages of several choices came         *)
(* (app.go:122, panel.go:7, "broadcast by the AppModel to every panel").   *)
PanelsAgree == inbox = << >> => \A p \in Panels : shown[p] = service

(* New rows leave the user on the trace and the metric that were selected, *)
(* the cursor's row with them, wherever they have moved, as long as those  *)
(* are still listed and the service is the same (traces.go:198, "Restore   *)
(* selection by traceID", metrics.go:161).                                 *)
SelectionSurvives ==
    [][/\ tp'.list # tp.list /\ shown'["traces"] = shown["traces"] =>
             \A id \in TraceOf(tp) :
                 (\E t \in Range(tp'.list) : t.id = id) =>
                     TraceOf(tp') = {id} /\ tp'.row = tp'.selected
       /\ mp'.all # mp.all /\ shown'["metrics"] = shown["metrics"] =>
             \A m \in MetricOf(mp) : m \in Range(mp'.vis) =>
                     MetricOf(mp') = {m} /\ mp'.row = mp'.selected]_vars
=============================================================================
