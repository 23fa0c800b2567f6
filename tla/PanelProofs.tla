----------------------------- MODULE PanelProofs ----------------------------
(***************************************************************************)
(* For any services, traces, metrics, filters and orders of the messages:  *)
(* the panels of the program agree on the service once no message is on    *)
(* its way, and a refresh leaves the user on what was selected.  For any   *)
(* logs and windows: while auto-scroll is on the newest line is on the     *)
(* screen, and only scrolling up or a resized window turns it off.         *)
(***************************************************************************)
EXTENDS Dashboard, LogsPanel, ListProofs, FiniteSetTheorems

(* The invariant: it is inductive with the types, which make the messages  *)
(* a sequence that a choice leaves with an element.                        *)
AppInv == TypeOK /\ PanelsAgree

-----------------------------------------------------------------------------
(* The rows a cursor may end on are numbers. *)
LEMMA RowsTyped ==
  ASSUME NEW row \in Nat, NEW n \in Nat
  PROVE  RowsAfterItems(row, n) \subseteq Nat /\ RowsAfterKey(n) \subseteq Nat
  BY DEF RowsAfterItems, RowsAfterKey

(* So are those of the panels as they are. *)
LEMMA PanelRowsTyped ==
  ASSUME TypeOK
  PROVE  /\ \A r \in RowsAfterItems(tp.row, Len(tp.list)) : r \in Nat
         /\ \A r \in RowsAfterKey(Len(tp.list)) : r \in Nat
         /\ \A r \in RowsAfterItems(mp.row, Len(mp.vis)) : r \in Nat
         /\ \A r \in RowsAfterKey(Len(mp.vis)) : r \in Nat
         /\ \A r \in RowsAfterItems(sp.row, Len(sp.names)) : r \in Nat
         /\ \A r \in RowsAfterKey(Len(sp.names)) : r \in Nat
<1>1. /\ tp.row \in Nat /\ mp.row \in Nat /\ sp.row \in Nat
      /\ Len(tp.list) \in Nat /\ Len(mp.vis) \in Nat /\ Len(sp.names) \in Nat
  BY DEF TypeOK
<1> QED
  BY <1>1, RowsTyped

(* The list of traces a refresh shows. *)
LEMMA TraceListsTyped ==
  ASSUME DashboardBounds, NEW sh, NEW order \in TraceOrders
  PROVE  LET refs == Kept(order, TracesFor(Read("traces", sh)))
         IN  SubSeq(refs, 1, Min({TraceLimit, Len(refs)})) \in Seq(AllTraces)
<1> DEFINE refs == Kept(order, TracesFor(Read("traces", sh)))
<1>1. refs \in Seq(AllTraces)
  BY KeptTyped DEF DashboardBounds
<1> HIDE DEF refs
<1> DEFINE few == {TraceLimit, Len(refs)}
<1>2. Min(few) \in 0 .. Len(refs)
  <2>1. few \in SUBSET Nat /\ few # {} /\ Len(refs) \in few /\ Len(refs) \in Nat
    BY <1>1 DEF DashboardBounds
  <2> HIDE DEF few
  <2>2. Min(few) \in few /\ Min(few) =< Len(refs)
    BY <2>1, LeastIsIn
  <2>3. Min(few) \in Nat
    BY <2>1, <2>2
  <2> QED
    BY <2>1, <2>2, <2>3
<1>3. SubSeq(refs, 1, Min(few)) \in Seq(AllTraces)
  <2> DEFINE n == Min(few)
  <2>1. n \in 0 .. Len(refs)
    BY <1>2
  <2> HIDE DEF n
  <2>2. SubSeq(refs, 1, n) \in Seq(AllTraces)
    BY <1>1, <2>1
  <2> QED
    BY <2>2 DEF n
<1> QED
  BY <1>3 DEF refs

(* The places found in a list are rows of it, and so is the first one. *)
LEMMA FirstPlace ==
  ASSUME NEW P \in SUBSET Nat, P # {}
  PROVE  First(P) \in P
  BY LeastIsIn DEF First

(* TracesPanel.refresh leaves the panel typed, and on its trace.           *)
LEMMA TracesRefreshedKeeps ==
  ASSUME DashboardBounds, TypeOK, NEW sh, NEW p \in TracesRefreshed(sh)
  PROVE  /\ p \in [list : Seq(AllTraces), selected : Nat, expanded : BOOLEAN, row : Nat]
         /\ \A id \in TraceOf(tp) :
               (\E t \in Range(p.list) : t.id = id) => TraceOf(p) = {id} /\ p.row = p.selected
<1>0. PICK refs \in TraceLists(sh) : p \in Showing(refs)
  BY DEF TracesRefreshed
<1> DEFINE found == {i \in 0 .. Len(refs) - 1 : refs[i + 1].id \in TraceOf(tp)}
<1>1. refs \in Seq(AllTraces) /\ Len(refs) \in Nat
  <2>1. TraceLists(sh) \subseteq Seq(AllTraces)
    BY TraceListsTyped, Zenon DEF TraceLists
  <2> QED
    BY <2>1
<1>2. Places(refs, LAMBDA t : t.id \in TraceOf(tp)) = found
  BY DEF Places
<1>3. tp \in [list : Seq(AllTraces), selected : Nat, expanded : BOOLEAN, row : Nat]
  BY DEF TypeOK
<1>4. found \in SUBSET Nat
  BY <1>1
<1>5. CASE found # {}
  <2>1. p = [tp EXCEPT !.list = refs, !.selected = First(found), !.row = First(found)]
    BY <1>0, <1>2, <1>5 DEF Showing
  <2>2. First(found) \in found /\ First(found) \in Nat
    BY <1>4, <1>5, FirstPlace
  <2>3. p \in [list : Seq(AllTraces), selected : Nat, expanded : BOOLEAN, row : Nat]
        /\ p.list = refs /\ p.selected = First(found) /\ p.row = First(found)
    BY <1>1, <1>3, <2>1, <2>2
  <2>4. ASSUME NEW id \in TraceOf(tp) PROVE TraceOf(p) = {id}
    <3>0. First(found) < Len(refs)
      BY <1>1, <2>2
    <3>1. TraceOf(p) = {refs[First(found) + 1].id}
      BY <2>3, <3>0 DEF TraceOf
    <3>2. refs[First(found) + 1].id \in TraceOf(tp)
      BY <2>2
    <3>3. TraceOf(tp) = {id}
      BY DEF TraceOf
    <3> QED
      BY <3>1, <3>2, <3>3
  <2> QED
    BY <2>3, <2>4
<1>6. CASE found = {}
  <2>1. PICK r \in RowsAfterItems(tp.row, Len(refs)) :
            p = [tp EXCEPT !.list = refs, !.selected = 0, !.row = r]
    BY <1>0, <1>2, <1>6 DEF Showing
  <2>2. r \in Nat
    BY <1>1, <1>3, RowsTyped
  <2>3. p \in [list : Seq(AllTraces), selected : Nat, expanded : BOOLEAN, row : Nat]
        /\ p.list = refs
    BY <1>1, <1>3, <2>1, <2>2
  <2>4. ASSUME NEW id \in TraceOf(tp), NEW t \in Range(p.list), t.id = id PROVE FALSE
    <3>1. PICK k \in 1 .. Len(refs) : refs[k] = t
      BY <1>1, <2>3, <2>4 DEF Range
    <3>2. k - 1 \in found
      BY <1>1, <2>4, <3>1
    <3> QED
      BY <1>6, <3>2
  <2> QED
    BY <2>3, <2>4
<1> QED
  BY <1>5, <1>6

(* applyFilter leaves the panel typed, and what it has and where it is.    *)
LEMMA FilteredKeeps ==
  ASSUME NEW p \in [all : Seq(AllMetrics), vis : Seq(AllMetrics), selected : Nat,
                    query : SUBSET AllMetrics, typing : BOOLEAN, row : Nat],
         NEW q \in Filtered(p)
  PROVE  /\ q \in [all : Seq(AllMetrics), vis : Seq(AllMetrics), selected : Nat,
                   query : SUBSET AllMetrics, typing : BOOLEAN, row : Nat]
         /\ q.all = p.all /\ q.selected = p.selected
<1> DEFINE vis == Kept(p.all, p.query)
<1>1. vis \in Seq(AllMetrics) /\ Len(vis) \in Nat
  BY KeptTyped
<1> HIDE DEF vis
<1>2. PICK r \in RowsAfterItems(p.row, Len(vis)) : q = [p EXCEPT !.vis = vis, !.row = r]
  BY DEF Filtered, vis
<1>3. r \in Nat
  BY <1>1, RowsTyped
<1> QED
  BY <1>1, <1>2, <1>3

(* MetricsPanel.refresh leaves the panel typed, and on its metric.         *)
LEMMA MetricsRefreshedKeeps ==
  ASSUME DashboardBounds, TypeOK, NEW sh, NEW p \in MetricsRefreshed(sh)
  PROVE  /\ p \in [all : Seq(AllMetrics), vis : Seq(AllMetrics), selected : Nat,
                   query : SUBSET AllMetrics, typing : BOOLEAN, row : Nat]
         /\ \A m \in MetricOf(mp) :
               m \in Range(p.vis) => MetricOf(p) = {m} /\ p.row = p.selected
<1> DEFINE Panel == [all : Seq(AllMetrics), vis : Seq(AllMetrics), selected : Nat,
                     query : SUBSET AllMetrics, typing : BOOLEAN, row : Nat]
           refs == Kept(MetricOrder, MetricsFor(Read("metrics", sh)))
           before == [mp EXCEPT !.all = refs]
           Found(q) == {i \in 0 .. Len(q.vis) - 1 : q.vis[i + 1] \in MetricOf(mp)}
<1>1. refs \in Seq(AllMetrics)
  BY KeptTyped DEF DashboardBounds
<1> HIDE DEF refs
<1>2. before \in Panel
  BY <1>1 DEF TypeOK
<1>3. PICK q \in Filtered(before) :
          p = IF Found(q) = {} THEN q
              ELSE [q EXCEPT !.selected = First(Found(q)), !.row = First(Found(q))]
  BY DEF MetricsRefreshed, Places, refs
<1>4. q \in Panel
  BY <1>2, FilteredKeeps
<1>5. Found(q) \in SUBSET Nat /\ Len(q.vis) \in Nat
  BY <1>4
<1>6. CASE Found(q) # {}
  <2>1. First(Found(q)) \in Found(q) /\ First(Found(q)) \in Nat
    BY <1>5, <1>6, FirstPlace
  <2>2. p \in Panel /\ p.vis = q.vis /\ p.selected = First(Found(q)) /\ p.row = p.selected
    BY <1>3, <1>4, <1>6, <2>1
  <2>3. ASSUME NEW m \in MetricOf(mp) PROVE MetricOf(p) = {m}
    <3>1. First(Found(q)) < Len(q.vis)
      BY <1>5, <2>1
    <3>2. MetricOf(p) = {q.vis[First(Found(q)) + 1]}
      BY <2>2, <3>1 DEF MetricOf
    <3>3. q.vis[First(Found(q)) + 1] \in MetricOf(mp)
      BY <2>1
    <3>4. MetricOf(mp) = {m}
      BY DEF MetricOf
    <3> QED
      BY <3>2, <3>3, <3>4
  <2> QED
    BY <2>2, <2>3
<1>7. CASE Found(q) = {}
  <2>1. p = q
    BY <1>3, <1>7
  <2>2. ASSUME NEW m \in MetricOf(mp), m \in Range(p.vis) PROVE FALSE
    <3>1. PICK k \in 1 .. Len(q.vis) : q.vis[k] = m
      BY <1>4, <2>1, <2>2 DEF Range
    <3>2. k - 1 \in Found(q)
      BY <1>5, <3>1
    <3> QED
      BY <1>7, <3>2
  <2> QED
    BY <1>4, <2>1, <2>2
<1> QED
  BY <1>6, <1>7

(* ServicesPanel.refresh leaves the panel typed. *)
LEMMA ServicesRefreshedTyped ==
  ASSUME DashboardBounds, TypeOK, NEW sh, NEW p \in ServicesRefreshed(sh)
  PROVE  p \in [names : Seq(Names), row : Nat]
<1> DEFINE names == Kept([n \in Names |-> n], known)
           here == {i \in 0 .. Len(names) - 1 : names[i + 1] = sh["services"]}
<1>1. names \in Seq(Names) /\ Len(names) \in Nat
  <2>1. [n \in Names |-> n] \in Seq(Names)
    BY DEF DashboardBounds, Names
  <2> QED
    BY <2>1, KeptTyped
<1> HIDE DEF names
<1>2. PICK r \in IF here = {} THEN RowsAfterItems(sp.row, Len(names)) ELSE here :
          p = [names |-> names, row |-> r]
  BY DEF ServicesRefreshed, Places, names
<1>3. r \in Nat
  <2>1. sp.row \in Nat
    BY DEF TypeOK
  <2> QED
    BY <1>1, <2>1, RowsTyped
<1> QED
  BY <1>1, <1>2, <1>3

-----------------------------------------------------------------------------
(* What the constructors leave, with the first service's message on its    *)
(* way if there is one.                                                    *)
LEMMA AppInit == DashboardBounds /\ Init => AppInv
<1> SUFFICES ASSUME DashboardBounds, Init PROVE AppInv
  OBVIOUS
<1>1. active \in 0 .. Len(Tabs) - 1
  BY DEF Init, NewApp, Tabs
<1>2. inbox \in Seq(Names \cup {Default, NoService}) /\ service \in Names \cup {Default}
  <2>1. << >> \in Seq(Names \cup {Default, NoService})
        /\ << NoService >> \in Seq(Names \cup {Default, NoService})
    OBVIOUS
  <2> QED
    BY <2>1 DEF Init, NewApp
<1>3. shown \in [Panels -> Names \cup {Default, NoService}]
  BY DEF Init, NewOverview
<1>4. /\ tp \in [list : Seq(AllTraces), selected : Nat, expanded : BOOLEAN, row : Nat]
      /\ mp \in [all : Seq(AllMetrics), vis : Seq(AllMetrics), selected : Nat,
                 query : SUBSET AllMetrics, typing : BOOLEAN, row : Nat]
      /\ sp \in [names : Seq(Names), row : Nat]
  <2>1. << >> \in Seq(AllTraces) /\ << >> \in Seq(AllMetrics) /\ << >> \in Seq(Names)
    OBVIOUS
  <2> QED
    BY <2>1 DEF Init, NewTraces, NewMetrics, NewServices
<1>5. TypeOK
  BY <1>1, <1>2, <1>3, <1>4 DEF Init, TypeOK
<1>6. PanelsAgree
  BY DEF Init, NewApp, NewOverview, PanelsAgree
<1> QED
  BY <1>5, <1>6 DEF AppInv

(* Every step of the program keeps the invariant. *)
LEMMA AppNext == DashboardBounds /\ AppInv /\ [Next]_vars => AppInv'
<1> SUFFICES ASSUME DashboardBounds, AppInv, [Next]_vars PROVE AppInv'
  OBVIOUS
<1> USE DEF AppInv
<1>1. CASE Push
  <2>1. known' \subseteq Names /\ traces' \subseteq AllTraces /\ metrics' \subseteq AllMetrics
    BY <1>1 DEF Push, TypeOK, DashboardBounds
  <2> QED
    BY <1>1, <2>1 DEF Push, panelVars, TypeOK, PanelsAgree
<1>2. CASE InitCommand
  <2>1. PICK i \in DOMAIN inbox : inbox' = [inbox EXCEPT ![i] = service]
    BY <1>2 DEF InitCommand
  <2>2. inbox' \in Seq(Names \cup {Default, NoService}) /\ inbox' # << >>
    BY <2>1 DEF TypeOK
  <2> QED
    BY <1>2, <2>2 DEF InitCommand, storeVars, panelVars, TypeOK, PanelsAgree
<1>3. ASSUME NEW sh, Refresh(sh)
      PROVE  /\ tp' \in [list : Seq(AllTraces), selected : Nat, expanded : BOOLEAN, row : Nat]
             /\ mp' \in [all : Seq(AllMetrics), vis : Seq(AllMetrics), selected : Nat,
                         query : SUBSET AllMetrics, typing : BOOLEAN, row : Nat]
             /\ sp' \in [names : Seq(Names), row : Nat]
  BY <1>3, TracesRefreshedKeeps, MetricsRefreshedKeeps, ServicesRefreshedTyped DEF Refresh
<1>4. CASE Tick
  <2>1. Refresh(shown)
    BY <1>4 DEF Tick
  <2> QED
    BY <1>3, <1>4, <2>1 DEF Tick, storeVars, TypeOK, PanelsAgree
<1>5. ASSUME NEW i \in DOMAIN inbox, ServiceChanged(i) PROVE AppInv'
  <2>1. inbox[i] \in Names \cup {Default}
    BY <1>5 DEF ServiceChanged, TypeOK
  <2>2. inbox' \in Seq(Names \cup {Default, NoService})
    BY <1>5, RemoveAtTyped DEF ServiceChanged, TypeOK
  <2>3. shown' \in [Panels -> Names \cup {Default, NoService}] /\ \A p \in Panels : shown'[p] = service'
    BY <1>5, <2>1 DEF ServiceChanged, Broadcast
  <2>4. Refresh(shown')
    BY <1>5 DEF ServiceChanged
  <2> QED
    BY <1>3, <1>5, <2>1, <2>2, <2>3, <2>4 DEF ServiceChanged, storeVars, TypeOK, PanelsAgree
<1>6. ASSUME NEW e \in BOOLEAN, TracesResized(e)
      PROVE  tp' \in [list : Seq(AllTraces), selected : Nat, expanded : BOOLEAN, row : Nat]
  <2>1. PICK r \in RowsAfterItems(tp.row, Len(tp.list)) :
            tp' = [tp EXCEPT !.expanded = e, !.row = r]
    BY <1>6 DEF TracesResized
  <2>2. r \in Nat /\ tp \in [list : Seq(AllTraces), selected : Nat, expanded : BOOLEAN, row : Nat]
    BY PanelRowsTyped DEF TypeOK
  <2> QED
    BY <2>1, <2>2
<1>7. CASE WindowSize
  <2>1. tp' \in [list : Seq(AllTraces), selected : Nat, expanded : BOOLEAN, row : Nat]
    BY <1>6, <1>7 DEF WindowSize, ResizePanels, TypeOK
  <2>2. mp' \in [all : Seq(AllMetrics), vis : Seq(AllMetrics), selected : Nat,
                query : SUBSET AllMetrics, typing : BOOLEAN, row : Nat]
    BY <1>7, PanelRowsTyped DEF WindowSize, ResizePanels, MetricsResized, TypeOK
  <2>3. sp' \in [names : Seq(Names), row : Nat]
    BY <1>7, PanelRowsTyped DEF WindowSize, ResizePanels, ServicesResized, TypeOK
  <2> QED
    BY <1>7, <2>1, <2>2, <2>3 DEF WindowSize, storeVars, TypeOK, PanelsAgree
<1>8. CASE Quit
  BY <1>8 DEF Quit, storeVars, panelVars, TypeOK, PanelsAgree
<1>9. CASE ChangeTab
  <2>1. active' \in 0 .. Len(Tabs) - 1
    BY <1>9 DEF ChangeTab, TypeOK, Tabs
  <2> QED
    BY <1>9, <2>1 DEF ChangeTab, storeVars, panelVars, TypeOK, PanelsAgree
<1>10. CASE PanelKey
  <2>1. CASE TracesKey
    <3>1. CASE \E e \in BOOLEAN : TracesResized(e)
      BY <1>6, <1>10, <2>1, <3>1 DEF PanelKey, TracesKey, storeVars, TypeOK, PanelsAgree
    <3>2. CASE \E r \in RowsAfterKey(Len(tp.list)) : tp' = [tp EXCEPT !.row = r, !.selected = r]
      <4>1. tp' \in [list : Seq(AllTraces), selected : Nat, expanded : BOOLEAN, row : Nat]
        BY <3>2, PanelRowsTyped DEF TypeOK
      <4> QED
        BY <1>10, <2>1, <4>1 DEF PanelKey, TracesKey, storeVars, TypeOK, PanelsAgree
    <3> QED
      BY <2>1, <3>1, <3>2 DEF TracesKey, TypeOK
  <2>2. CASE MetricsKey
    <3> DEFINE Panel == [all : Seq(AllMetrics), vis : Seq(AllMetrics), selected : Nat,
                         query : SUBSET AllMetrics, typing : BOOLEAN, row : Nat]
    <3>0. mp \in Panel
      BY DEF TypeOK
    <3>1. ASSUME NEW b \in Panel, mp' \in Filtered(b) PROVE mp' \in Panel
      BY <3>1, FilteredKeeps
    <3>2. ASSUME NEW r \in RowsAfterKey(Len(mp.vis)), mp' = [mp EXCEPT !.row = r, !.selected = r]
          PROVE  mp' \in Panel
      BY <3>0, <3>2, PanelRowsTyped
    <3>3. [mp EXCEPT !.typing = FALSE, !.query = AllMetrics] \in Panel
          /\ \A q \in Filters \cup {AllMetrics} : [mp EXCEPT !.query = q] \in Panel
      BY <3>0 DEF DashboardBounds
    <3>4. /\ [mp EXCEPT !.typing = FALSE] \in Panel /\ [mp EXCEPT !.typing = TRUE] \in Panel
          /\ [mp EXCEPT !.selected = mp.row] \in Panel
      BY <3>0
    <3> HIDE DEF Panel
    <3>5. mp' \in Panel
      BY <2>2, <3>1, <3>2, <3>3, <3>4 DEF MetricsKey
    <3> QED
      BY <1>10, <2>2, <3>5 DEF PanelKey, MetricsKey, storeVars, TypeOK, PanelsAgree, Panel
  <2>3. CASE Choose
    <3>1. sp.names[sp.row + 1] \in Names
      BY <2>3 DEF Choose, TypeOK
    <3>2. /\ shown' \in [Panels -> Names \cup {Default, NoService}]
          /\ inbox' \in Seq(Names \cup {Default, NoService}) /\ inbox' # << >>
      <4>1. inbox \in Seq(Names \cup {Default, NoService})
            /\ inbox' = Append(inbox, sp.names[sp.row + 1])
        BY <2>3 DEF Choose, TypeOK
      <4>2. shown' \in [Panels -> Names \cup {Default, NoService}]
        BY <2>3, <3>1 DEF Choose, TypeOK
      <4> QED
        BY <3>1, <4>1, <4>2
    <3> QED
      BY <1>10, <2>3, <3>2 DEF PanelKey, Choose, storeVars, panelVars, TypeOK, PanelsAgree
  <2>4. CASE \E r \in RowsAfterKey(Len(sp.names)) : sp' = [sp EXCEPT !.row = r]
             /\ UNCHANGED << tp, mp, shown, inbox >>
    <3>1. sp' \in [names : Seq(Names), row : Nat]
      BY <2>4, PanelRowsTyped DEF TypeOK
    <3> QED
      BY <1>10, <2>4, <3>1 DEF PanelKey, storeVars, TypeOK, PanelsAgree
  <2> QED
    BY <1>10, <2>1, <2>2, <2>3, <2>4 DEF PanelKey, ServicesKey
<1>11. CASE UNCHANGED vars
  BY <1>11 DEF vars, storeVars, panelVars, TypeOK, PanelsAgree
<1> QED
  BY <1>1, <1>2, <1>4, <1>5, <1>7, <1>8, <1>9, <1>10, <1>11 DEF Next

(* A step that gives a panel another list leaves it on what was selected.  *)
LEMMA SelectionStep ==
  ASSUME DashboardBounds, AppInv, [Next]_vars
  PROVE  /\ tp'.list # tp.list /\ shown'["traces"] = shown["traces"] =>
               \A id \in TraceOf(tp) :
                   (\E t \in Range(tp'.list) : t.id = id) =>
                       TraceOf(tp') = {id} /\ tp'.row = tp'.selected
         /\ mp'.all # mp.all /\ shown'["metrics"] = shown["metrics"] =>
               \A m \in MetricOf(mp) : m \in Range(mp'.vis) =>
                       MetricOf(mp') = {m} /\ mp'.row = mp'.selected
<1>1. CASE \E sh : Refresh(sh)
  BY <1>1, TracesRefreshedKeeps, MetricsRefreshedKeeps DEF Refresh, AppInv
<1>2. CASE ~ \E sh : Refresh(sh)
  <2>1. Push \/ InitCommand \/ WindowSize \/ Quit \/ ChangeTab \/ PanelKey \/ UNCHANGED vars
    BY <1>2 DEF Next, Tick, ServiceChanged
  <2>2. ASSUME NEW e, TracesResized(e) PROVE tp'.list = tp.list
    BY <2>2 DEF TracesResized, AppInv, TypeOK
  <2>3. ASSUME NEW p, NEW q \in Filtered(p),
               p \in [all : Seq(AllMetrics), vis : Seq(AllMetrics), selected : Nat,
                      query : SUBSET AllMetrics, typing : BOOLEAN, row : Nat]
        PROVE  q.all = p.all
    BY <2>3, FilteredKeeps
  <2>4. tp'.list = tp.list
    <3>1. CASE TracesKey
      BY <2>2, <3>1 DEF TracesKey, AppInv, TypeOK
    <3>2. CASE WindowSize
      BY <2>2, <3>2 DEF WindowSize, ResizePanels
    <3> QED
      BY <2>1, <3>1, <3>2 DEF Push, InitCommand, Quit, ChangeTab, PanelKey, MetricsKey,
         ServicesKey, Choose, vars, panelVars
  <2>5. mp'.all = mp.all
    <3>1. CASE MetricsKey
      <4>1. ASSUME NEW q \in Filters \cup {AllMetrics}, mp' \in Filtered([mp EXCEPT !.query = q])
            PROVE  mp'.all = mp.all
        <5>1. [mp EXCEPT !.query = q] \in
                 [all : Seq(AllMetrics), vis : Seq(AllMetrics), selected : Nat,
                  query : SUBSET AllMetrics, typing : BOOLEAN, row : Nat]
              /\ [mp EXCEPT !.query = q].all = mp.all
          BY DEF AppInv, TypeOK, DashboardBounds
        <5> QED
          BY <2>3, <4>1, <5>1
      <4>2. ASSUME mp' \in Filtered([mp EXCEPT !.typing = FALSE, !.query = AllMetrics])
            PROVE  mp'.all = mp.all
        <5>1. [mp EXCEPT !.typing = FALSE, !.query = AllMetrics] \in
                 [all : Seq(AllMetrics), vis : Seq(AllMetrics), selected : Nat,
                  query : SUBSET AllMetrics, typing : BOOLEAN, row : Nat]
              /\ [mp EXCEPT !.typing = FALSE, !.query = AllMetrics].all = mp.all
          BY DEF AppInv, TypeOK
        <5> QED
          BY <2>3, <4>2, <5>1
      <4>3. /\ [mp EXCEPT !.typing = FALSE].all = mp.all /\ [mp EXCEPT !.typing = TRUE].all = mp.all
            /\ [mp EXCEPT !.selected = mp.row].all = mp.all
            /\ \A r : [mp EXCEPT !.row = r, !.selected = r].all = mp.all
        BY DEF AppInv, TypeOK
      <4> QED
        BY <3>1, <4>1, <4>2, <4>3 DEF MetricsKey
    <3>2. CASE WindowSize
      BY <3>2 DEF WindowSize, ResizePanels, MetricsResized, AppInv, TypeOK
    <3> QED
      BY <2>1, <3>1, <3>2 DEF Push, InitCommand, Quit, ChangeTab, PanelKey, TracesKey,
         ServicesKey, Choose, vars, panelVars
  <2> QED
    BY <2>4, <2>5
<1> QED
  BY <1>1, <1>2

-----------------------------------------------------------------------------
(* The program and its panels keep their types (app.go, panels/*.go).      *)
THEOREM DashboardTyped == Spec => []TypeOK
  BY DashboardAssumption, AppInit, AppNext, PTL DEF Spec, AppInv

(* With no message on its way every panel and the top bar are on the same  *)
(* service (app.go:122, panel.go:7).                                       *)
THEOREM PanelsAlwaysAgree == Spec => []PanelsAgree
  BY DashboardAssumption, AppInit, AppNext, PTL DEF Spec, AppInv

(* A panel that is given another list stays on what was selected there, as *)
(* long as that is listed and the service is the same (traces.go:198,      *)
(* metrics.go:161).                                                        *)
THEOREM SelectionAlwaysSurvives == Spec => SelectionSurvives
<1>1. DashboardBounds /\ AppInv /\ [Next]_vars =>
        [/\ tp'.list # tp.list /\ shown'["traces"] = shown["traces"] =>
               \A id \in TraceOf(tp) :
                   (\E t \in Range(tp'.list) : t.id = id) =>
                       TraceOf(tp') = {id} /\ tp'.row = tp'.selected
         /\ mp'.all # mp.all /\ shown'["metrics"] = shown["metrics"] =>
               \A m \in MetricOf(mp) : m \in Range(mp'.vis) =>
                       MetricOf(mp') = {m} /\ mp'.row = mp'.selected]_vars
  BY SelectionStep
<1> QED
  BY <1>1, DashboardAssumption, AppInit, AppNext, PTL DEF Spec, SelectionSurvives

-----------------------------------------------------------------------------
(* The invariant: it is inductive with the types, which make the offsets   *)
(* numbers that can be compared.                                           *)
LogsInv == LogsPanelTypeOK /\ AutoIsAtBottom

(* A viewport's last offset is a number. *)
LEMMA LastOffsetTyped ==
  ASSUME NEW n \in Nat, NEW h \in Nat
  PROVE  LastOffset(n, h) \in Nat
  BY DEF LastOffset

(* A push keeps the store's logs of a service entries. *)
LEMMA SlideTyped ==
  ASSUME LogsBounds, NEW s \in Services, NEW w \in Seq(Entry), NEW e \in Entry
  PROVE  Ring(s)!Slide(w, e) \in Seq(Entry)
<1>1. CASE Len(w) < LogCap
  BY <1>1 DEF Ring!Slide
<1>2. CASE ~ (Len(w) < LogCap)
  <2>1. w # << >> /\ Tail(w) \in Seq(Entry)
    BY <1>2 DEF LogsBounds
  <2> QED
    BY <1>2, <2>1 DEF Ring!Slide
<1> QED
  BY <1>1, <1>2

(* What is shown are timestamps of logs the store holds. *)
LEMMA MatchingTyped ==
  ASSUME logs \in [Services -> Seq(Entry)], NEW srv \in Services \cup {AllServices},
         NEW q \in BOOLEAN
  PROVE  Matching(srv, q) \subseteq Times
<1> DEFINE S == IF srv = AllServices THEN Services ELSE {srv}
           held == UNION {{logs[s][i] : i \in DOMAIN logs[s]} : s \in S}
<1>1. S \subseteq Services
  OBVIOUS
<1>2. \A x \in held : x \in Entry
  BY <1>1
<1>3. \A x \in held : x.time \in Times
  <2> HIDE DEF held
  <2> QED
    BY <1>2 DEF Entry
<1>4. Matching(srv, q) = {e.time : e \in {x \in held : q => x.hit}}
  BY DEF Matching
<1> QED
  <2> HIDE DEF held
  <2> QED
    BY <1>3, <1>4

(* A refresh leaves the viewport typed, and at its bottom if it follows.   *)
LEMMA RefreshKeeps ==
  ASSUME LogsBounds, LogsInv, NEW srv \in Services \cup {AllServices}, NEW q \in BOOLEAN,
         RefreshLogs(srv, q)
  PROVE  /\ lines' \subseteq Times
         /\ rows' \in Nat /\ offset' \in Nat /\ height' \in Nat
         /\ auto' = auto /\ resized' = FALSE
         /\ AutoIsAtBottom'
<1>1. lines' \subseteq Times
  BY MatchingTyped DEF LogsInv, LogsPanelTypeOK, RefreshLogs
<1>2. rows' \in Nat
  <2>1. IsFiniteSet(Times)
    BY FS_Interval DEF LogsBounds, Times
  <2>2. Cardinality(lines') \in Nat
    BY <1>1, <2>1, FS_Subset, FS_CardinalityType
  <2>3. rows' = 1 \/ rows' = Cardinality(lines')
    BY DEF RefreshLogs, Cardinality, Cardinality
  <2> QED
    BY <2>2, <2>3
<1>3. height' = height /\ height \in Nat /\ auto' = auto /\ resized' = FALSE
  BY DEF LogsInv, LogsPanelTypeOK, RefreshLogs
<1>4. LastOffset(rows', height) \in Nat
  BY <1>2, <1>3, LastOffsetTyped
<1>5. offset' \in Nat
  BY <1>4 DEF LogsInv, LogsPanelTypeOK, RefreshLogs
<1>6. auto => offset' >= LastOffset(rows', height')
  BY <1>3, <1>4 DEF RefreshLogs
<1> QED
  BY <1>1, <1>2, <1>3, <1>5, <1>6 DEF AutoIsAtBottom, AtBottom

(* A new panel is empty, and so at its bottom. *)
LEMMA LogsInit == LogsPanelInit => LogsInv
<1> SUFFICES ASSUME LogsPanelInit PROVE LogsInv
  OBVIOUS
<1>1. LogsPanelTypeOK
  <2>1. << >> \in Seq(Entry)
    OBVIOUS
  <2>2. logs \in [Services -> Seq(Entry)]
    BY <2>1 DEF LogsPanelInit
  <2>3. lines \subseteq Times /\ rows \in Nat /\ offset \in Nat /\ height \in Nat
    BY DEF LogsPanelInit
  <2>4. logService \in Services \cup {AllServices}
    BY DEF LogsPanelInit
  <2>5. typing \in BOOLEAN /\ query \in BOOLEAN /\ auto \in BOOLEAN /\ resized \in BOOLEAN
    BY DEF LogsPanelInit
  <2> QED
    BY <2>2, <2>3, <2>4, <2>5 DEF LogsPanelTypeOK
<1>2. AtBottom
  BY DEF LogsPanelInit, AtBottom, LastOffset
<1> QED
  BY <1>1, <1>2 DEF LogsInv, AutoIsAtBottom

(* Every step keeps the invariant. *)
LEMMA LogsNext == LogsBounds /\ LogsInv /\ [LogsPanelNext]_logsPanelVars => LogsInv'
<1> SUFFICES ASSUME LogsBounds, LogsInv, [LogsPanelNext]_logsPanelVars
             PROVE  LogsInv'
  OBVIOUS
<1> USE DEF LogsInv
<1>1. CASE PushLog
  <2>1. PICK s \in Services, e \in Entry : logs' = [logs EXCEPT ![s] = Ring(s)!Slide(@, e)]
    BY <1>1 DEF PushLog
  <2>2. logs' \in [Services -> Seq(Entry)]
    BY <2>1, SlideTyped DEF LogsPanelTypeOK
  <2> QED
    BY <1>1, <2>2 DEF PushLog, view, LogsPanelTypeOK, AutoIsAtBottom, AtBottom
<1>2. CASE LogsTick
  <2>1. RefreshLogs(logService, query) /\ logService \in Services \cup {AllServices} /\ query \in BOOLEAN
    BY <1>2 DEF LogsTick, LogsPanelTypeOK
  <2> QED
    BY <1>2, <2>1, RefreshKeeps DEF LogsTick, LogsPanelTypeOK
<1>3. CASE LogsServiceChanged
  <2>1. PICK s \in Services : logService' = s /\ RefreshLogs(s, query)
    BY <1>3 DEF LogsServiceChanged
  <2>2. query \in BOOLEAN
    BY DEF LogsPanelTypeOK
  <2> QED
    BY <1>3, <2>1, <2>2, RefreshKeeps DEF LogsServiceChanged, LogsPanelTypeOK
<1>4. CASE SetSize
  <2>1. PICK h \in PanelHeights \ {0} : height' = IF h > 3 THEN h - 2 ELSE 1
    BY <1>4 DEF SetSize
  <2>2. height' \in Nat
    BY <2>1 DEF LogsBounds
  <2> QED
    BY <1>4, <2>2 DEF SetSize, LogsPanelTypeOK, AutoIsAtBottom
<1>5. CASE TypeFilter
  <2>1. RefreshLogs(logService, query') /\ logService \in Services \cup {AllServices} /\ query' \in BOOLEAN
    BY <1>5 DEF TypeFilter, LogsPanelTypeOK
  <2> QED
    BY <1>5, <2>1, RefreshKeeps DEF TypeFilter, LogsPanelTypeOK
<1>6. CASE EscFilter
  <2>1. RefreshLogs(logService, FALSE) /\ logService \in Services \cup {AllServices}
    BY <1>6 DEF EscFilter, LogsPanelTypeOK
  <2> QED
    BY <1>6, <2>1, RefreshKeeps DEF EscFilter, LogsPanelTypeOK
<1>7. CASE EnterFilter
  BY <1>7 DEF EnterFilter, LogsPanelTypeOK, AutoIsAtBottom, AtBottom
<1>8. CASE Slash
  BY <1>8 DEF Slash, LogsPanelTypeOK, AutoIsAtBottom, AtBottom
<1>9. CASE JumpToBottom
  <2>1. LastOffset(rows, height) \in Nat
    BY LastOffsetTyped DEF LogsPanelTypeOK
  <2> QED
    BY <1>9, <2>1 DEF JumpToBottom, LogsPanelTypeOK, AutoIsAtBottom, AtBottom
<1>10. ASSUME NEW o \in Nat, Scroll(o)
       PROVE  LogsInv'
  BY <1>10 DEF Scroll, LogsPanelTypeOK, AutoIsAtBottom, AtBottom
<1>11. CASE ScrollKey
  <2>1. \A o \in 0 .. LastOffset(rows, height) : o \in Nat
    BY LastOffsetTyped DEF LogsPanelTypeOK
  <2> QED
    BY <1>10, <1>11, <2>1 DEF ScrollKey
<1>12. CASE OtherMsg
  BY <1>10, <1>12 DEF OtherMsg, LogsPanelTypeOK
<1>13. CASE UNCHANGED logsPanelVars
  BY <1>13 DEF logsPanelVars, view, LogsPanelTypeOK, AutoIsAtBottom, AtBottom
<1> QED
  BY <1>1, <1>2, <1>3, <1>4, <1>5, <1>6, <1>7, <1>8, <1>9, <1>11, <1>12, <1>13 DEF LogsPanelNext, Keys

(* A step that pauses auto-scroll scrolls up, or meets a resized window.   *)
LEMMA PausingStep ==
  ASSUME LogsInv, LogsPanelNext, auto, ~ auto'
  PROVE  offset' < offset \/ resized
<1>1. PICK o \in Nat : Scroll(o)
  <2>1. \A o \in 0 .. LastOffset(rows, height) : o \in Nat
    BY LastOffsetTyped DEF LogsInv, LogsPanelTypeOK
  <2>2. ScrollKey \/ OtherMsg
    BY DEF LogsPanelNext, Keys, PushLog, view, LogsTick, LogsServiceChanged,
           RefreshLogs, SetSize, TypeFilter, EscFilter, EnterFilter,
           Slash, JumpToBottom
  <2> QED
    BY <2>1, <2>2 DEF ScrollKey, OtherMsg, LogsInv, LogsPanelTypeOK
<1>2. LastOffset(rows, height) \in Nat /\ offset \in Nat
  BY LastOffsetTyped DEF LogsInv, LogsPanelTypeOK
<1>3. offset' = o /\ ~ (o >= LastOffset(rows, height))
  BY <1>1 DEF Scroll
<1> QED
  BY <1>2, <1>3 DEF LogsInv, AutoIsAtBottom, AtBottom

-----------------------------------------------------------------------------
(* The panel keeps its types (NewLogs and every handler of logs.go).       *)
THEOREM LogsPanelTyped == LogsPanelSpec => []LogsPanelTypeOK
<1> USE LogsAssumption
<1>1. LogsInv /\ [LogsPanelNext]_logsPanelVars => LogsInv'
  BY LogsNext
<1>2. LogsInv => LogsPanelTypeOK
  BY DEF LogsInv
<1> QED
  BY <1>1, <1>2, LogsInit, PTL DEF LogsPanelSpec

(* While auto-scroll is on, and the window has its size since the last     *)
(* refresh, the last line is on the screen (logs.go:18, 155).              *)
THEOREM AutoScrollIsAtBottom == LogsPanelSpec => []AutoIsAtBottom
<1> USE LogsAssumption
<1>1. LogsInv /\ [LogsPanelNext]_logsPanelVars => LogsInv'
  BY LogsNext
<1>2. LogsInv => AutoIsAtBottom
  BY DEF LogsInv
<1> QED
  BY <1>1, <1>2, LogsInit, PTL DEF LogsPanelSpec

(* Only a user who scrolls up, or a window that was resized, pauses it     *)
(* (logs.go:110).                                                          *)
THEOREM AutoScrollIsKept == LogsPanelSpec => PausedByScrollingUp
<1> USE LogsAssumption
<1>1. LogsInv /\ [LogsPanelNext]_logsPanelVars => LogsInv'
  BY LogsNext
<1>2. LogsInv /\ [LogsPanelNext]_logsPanelVars =>
          [auto /\ ~ auto' => offset' < offset \/ resized]_logsPanelVars
  BY PausingStep DEF logsPanelVars, view
<1> QED
  BY <1>1, <1>2, LogsInit, PTL DEF LogsPanelSpec, PausedByScrollingUp
=============================================================================
