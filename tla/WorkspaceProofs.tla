-------------------------- MODULE WorkspaceProofs --------------------------
(***************************************************************************)
(* No saved edit of the workspace is lost, although layouts are read in    *)
(* pieces, for any number of pages, handlers and edits.                    *)
(***************************************************************************)
EXTENDS Workspace, TLAPS

Requests == [kind : {"load", "save"}, client : Clients, layout : Layout]

Revisions ==
  [theme : SUBSET Edits, widgets : SUBSET Edits, by : Clients \cup {None}]

\* A handler at work serves a request, and one about to log has saved.
Serving ==
  \A h \in Handlers :
    /\ pc[h] # "idle" => job[h] \in Requests
    /\ pc[h] = "record" => seen[h].revision \in 2..MaxRevision

\* The tables hold the newest revision.
TablesNewest ==
  /\ Len(history) \in 1..MaxRevision
  /\ row.revision = Len(history)
  /\ row.theme = history[Len(history)].theme
  /\ widgets = history[Len(history)].widgets

TypeInv == TypeOK /\ Serving /\ TablesNewest

\* A layout with some of its parts replaced is a layout.
LEMMA LayoutUpdates ==
  \A l \in Layout :
    /\ \A r \in 0..MaxRevision : [l EXCEPT !.revision = r] \in Layout
    /\ \A r \in 0..MaxRevision, t \in SUBSET Edits :
         [l EXCEPT !.revision = r, !.theme = t] \in Layout
    /\ \A w \in SUBSET Edits : [l EXCEPT !.widgets = w] \in Layout
    /\ \A t, w \in SUBSET Edits :
         [l EXCEPT !.theme = t, !.widgets = w] \in Layout
BY DEF Layout

LEMMA InitTypeInv == Init => TypeInv
<1> SUFFICES ASSUME Init PROVE TypeInv
  OBVIOUS
<1> USE WorkspaceAssumption DEF WorkspaceAssumption
<1>1. NoLayout \in Layout
  BY DEF NoLayout, Layout
<1>2. history \in Seq(Revisions) /\ Len(history) = 1
  BY DEF Init, Revisions
<1>3. TypeOK
  BY <1>1, <1>2 DEF Init, TypeOK, Revisions
<1>4. Serving
  BY DEF Init, Serving
<1>5. TablesNewest
  BY <1>2 DEF Init, TablesNewest
<1> QED BY <1>3, <1>4, <1>5 DEF TypeInv

LEMMA ReceiveTypes ==
  ASSUME TypeInv, NEW h \in Handlers, NEW c \in Clients,
         NEW kind \in {"load", "save"}, NEW layout \in Layout,
         Receive(h, c, kind, layout),
         local' \in [Clients -> Layout], waiting' \in [Clients -> SUBSET Handlers],
         author' = author
  PROVE  TypeInv'
<1>1. [kind |-> kind, client |-> c, layout |-> layout] \in Requests
  BY DEF Requests
<1>2. UNCHANGED <<row, widgets, audit, seen, history, failed>>
  BY DEF Receive, tables
<1>3. job' \in [Handlers -> Requests \cup {None}]
  BY <1>1 DEF Receive, TypeInv, TypeOK, Requests
<1>4. pc' \in [Handlers -> {"idle", "commit", "record", "read_row",
                            "read_widgets", "ready", "rejected"}]
  BY DEF Receive, TypeInv, TypeOK
<1>5. TypeOK'
  BY <1>2, <1>3, <1>4 DEF TypeInv, TypeOK, Requests
<1>6. Serving'
  BY <1>1, <1>2 DEF Receive, TypeInv, TypeOK, Serving
<1>7. TablesNewest'
  BY <1>2 DEF TypeInv, TablesNewest
<1> QED BY <1>5, <1>6, <1>7 DEF TypeInv

\* A handler goes on without touching the tables.
LEMMA HandlerTypes ==
  ASSUME TypeInv, NEW h \in Handlers,
         NEW label \in {"read_row", "read_widgets", "ready", "rejected"},
         pc[h] # "idle", GoTo(h, label),
         NEW layout \in Layout, job' = job \/ job' = [job EXCEPT ![h].layout = layout],
         NEW read \in Layout, seen' = [seen EXCEPT ![h] = read],
         UNCHANGED <<row, widgets, pages, history>>,
         audit' \subseteq 2..MaxRevision, failed' \subseteq 2..MaxRevision
  PROVE  TypeInv'
<1>1. job[h] \in Requests
  BY DEF TypeInv, Serving
<1>2. job' \in [Handlers -> Requests \cup {None}] /\ job'[h] \in Requests
  <2>1. CASE job' = job
    BY <1>1, <2>1 DEF TypeInv, TypeOK, Requests
  <2>2. CASE job' = [job EXCEPT ![h].layout = layout]
    <3>1. [job[h] EXCEPT !.layout = layout] \in Requests
      BY <1>1 DEF Requests
    <3> QED BY <2>2, <3>1 DEF TypeInv, TypeOK, Requests
  <2> QED BY <2>1, <2>2
<1>3. pc' \in [Handlers -> {"idle", "commit", "record", "read_row",
                            "read_widgets", "ready", "rejected"}]
  BY DEF GoTo, TypeInv, TypeOK
<1>4. seen' \in [Handlers -> Layout]
  BY DEF TypeInv, TypeOK
<1>5. TypeOK'
  BY <1>2, <1>3, <1>4 DEF pages, TypeInv, TypeOK, Requests
<1>6. Serving'
  <2> SUFFICES ASSUME NEW g \in Handlers
               PROVE  /\ pc'[g] # "idle" => job'[g] \in Requests
                      /\ pc'[g] = "record" => seen'[g].revision \in 2..MaxRevision
    BY DEF Serving
  <2>1. CASE g = h
    BY <1>2, <2>1 DEF GoTo, TypeInv, TypeOK
  <2>2. CASE g # h
    <3>1. pc'[g] = pc[g] /\ job'[g] = job[g] /\ seen'[g] = seen[g]
      BY <2>2 DEF GoTo, TypeInv, TypeOK
    <3> QED BY <3>1 DEF TypeInv, Serving
  <2> QED BY <2>1, <2>2
<1>7. TablesNewest'
  BY DEF TypeInv, TablesNewest
<1> QED BY <1>5, <1>6, <1>7 DEF TypeInv

\* What a commit adds to the history, and what it leaves.
LEMMA CommitHistory ==
  ASSUME TypeInv, NEW h \in Handlers, Commit(h)
  PROVE  /\ job[h] \in Requests
         /\ history' \in Seq(Revisions)
         /\ Len(history) \in 1..(MaxRevision - 1)
         /\ Len(history') = Len(history) + 1
         /\ \A r \in 1..Len(history) : history'[r] = history[r]
         /\ history'[Len(history')].theme = job[h].layout.theme
         /\ history'[Len(history')].widgets = job[h].layout.widgets
         /\ job[h].layout.revision = Len(history)
<1> DEFINE saved == [theme |-> job[h].layout.theme,
                     widgets |-> job[h].layout.widgets, by |-> job[h].client]
<1>1. job[h] \in Requests
  BY DEF Commit, TypeInv, Serving
<1>2. saved \in Revisions
  BY <1>1 DEF Requests, Layout, Revisions
<1>3. history \in Seq(Revisions) /\ history' = Append(history, saved)
  BY DEF Commit, TypeInv, TypeOK, Revisions
<1>4. saved.theme = job[h].layout.theme /\ saved.widgets = job[h].layout.widgets
  OBVIOUS
<1>5. Len(history) \in 1..(MaxRevision - 1)
  BY WorkspaceAssumption DEF WorkspaceAssumption, Commit, TypeInv, TablesNewest
<1>6. job[h].layout.revision = Len(history)
  BY DEF Commit, Current, TypeInv, TablesNewest
<1> HIDE DEF saved
<1>7. history' \in Seq(Revisions) /\ Len(history') = Len(history) + 1
  BY <1>2, <1>3
<1>8. \A r \in 1..Len(history) : history'[r] = history[r]
  BY <1>2, <1>3
<1>9. history'[Len(history')] = saved
  BY <1>2, <1>3
<1> QED BY <1>1, <1>4, <1>5, <1>6, <1>7, <1>8, <1>9

LEMMA CommitTypes ==
  ASSUME TypeInv, NEW h \in Handlers, Commit(h)
  PROVE  TypeInv'
<1> USE WorkspaceAssumption DEF WorkspaceAssumption
<1>1. job[h].layout \in Layout /\ job' = job
  BY CommitHistory DEF Requests, Commit
<1>2. row.revision + 1 \in 2..MaxRevision /\ row.revision + 1 = Len(history')
  BY CommitHistory DEF TypeInv, TablesNewest
<1>3. row'.revision = row.revision + 1 /\ row'.theme = job[h].layout.theme
  BY DEF Commit
<1>4. row' \in [revision : 1..MaxRevision, theme : SUBSET Edits]
  <2>1. row.revision + 1 \in 1..MaxRevision
    BY <1>2
  <2>2. job[h].layout.theme \in SUBSET Edits
    BY <1>1 DEF Layout
  <2> QED BY <2>1, <2>2 DEF Commit
<1>5. widgets' \in SUBSET Edits
  BY <1>1 DEF Commit, Layout
<1>6. seen' \in [Handlers -> Layout] /\ seen'[h].revision = row.revision + 1
      /\ \A g \in Handlers \ {h} : seen'[g] = seen[g]
  <2>1. [seen[h] EXCEPT !.revision = row.revision + 1] \in Layout
    <3>1. seen[h] \in Layout /\ row.revision + 1 \in 0..MaxRevision
      BY <1>2 DEF TypeInv, TypeOK
    <3> QED BY <3>1, LayoutUpdates
  <2> QED BY <2>1 DEF Commit, TypeInv, TypeOK, Layout
<1>7. pc' \in [Handlers -> {"idle", "commit", "record", "read_row",
                            "read_widgets", "ready", "rejected"}]
      /\ pc'[h] = "record" /\ \A g \in Handlers \ {h} : pc'[g] = pc[g]
  BY DEF Commit, GoTo, TypeInv, TypeOK
<1>8. TypeOK'
  BY <1>1, <1>4, <1>5, <1>6, <1>7, CommitHistory
     DEF Commit, pages, TypeInv, TypeOK, Revisions
<1>9. Serving'
  BY <1>1, <1>2, <1>6, <1>7, CommitHistory DEF TypeInv, Serving
<1>10. TablesNewest'
  <2>1. Len(history') \in 1..MaxRevision
    BY CommitHistory
  <2>2. widgets' = job[h].layout.widgets
    BY DEF Commit
  <2> QED BY <1>2, <1>3, <2>1, <2>2, CommitHistory DEF TablesNewest
<1> QED BY <1>8, <1>9, <1>10 DEF TypeInv

LEMMA RespondTypes ==
  ASSUME TypeInv, NEW h \in Handlers, Respond(h)
  PROVE  TypeInv'
<1>1. job[h] \in Requests
  BY DEF Respond, Finish, TypeInv, Serving
<1>2. local' \in [Clients -> Layout] /\ waiting' \in [Clients -> SUBSET Handlers]
  BY <1>1 DEF Respond, Finish, TypeInv, TypeOK, Requests
<1>3. NoLayout \in Layout
  BY WorkspaceAssumption DEF WorkspaceAssumption, NoLayout, Layout
<1>4. TypeOK'
  BY <1>2, <1>3 DEF Respond, Finish, GoTo, tables, TypeInv, TypeOK
<1>5. Serving'
  BY DEF Respond, Finish, GoTo, TypeInv, TypeOK, Serving
<1>6. TablesNewest'
  BY DEF Respond, tables, TypeInv, TablesNewest
<1> QED BY <1>4, <1>5, <1>6 DEF TypeInv

LEMMA EditTypes ==
  ASSUME TypeInv, NEW c \in Clients, NEW e \in Edits, Edit(c, e)
  PROVE  TypeInv'
<1>1. [local[c] EXCEPT !.theme = @ \cup ({e} \cap ThemeEdits),
                       !.widgets = @ \cup ({e} \cap WidgetEdits)] \in Layout
  <2>1. local[c] \in Layout
    BY DEF TypeInv, TypeOK
  <2>2. /\ local[c].theme \cup ({e} \cap ThemeEdits) \in SUBSET Edits
        /\ local[c].widgets \cup ({e} \cap WidgetEdits) \in SUBSET Edits
    BY <2>1 DEF Layout
  <2> QED BY <2>1, <2>2, LayoutUpdates
<1>2. local' \in [Clients -> Layout]
  BY <1>1 DEF Edit, TypeInv, TypeOK
<1>3. TypeOK'
  BY <1>2 DEF Edit, tables, frames, TypeInv, TypeOK
<1>4. Serving' /\ TablesNewest'
  BY DEF Edit, tables, frames, TypeInv, Serving, TablesNewest
<1> QED BY <1>3, <1>4 DEF TypeInv

LEMMA StepTypes == TypeInv /\ [Next]_vars => TypeInv'
<1> SUFFICES ASSUME TypeInv, [Next]_vars PROVE TypeInv'
  OBVIOUS
<1> USE WorkspaceAssumption DEF WorkspaceAssumption
<1>n. NoLayout \in Layout
  BY DEF NoLayout, Layout
<1>1. ASSUME NEW c \in Clients, NEW h \in Handlers, Mount(c, h) PROVE TypeInv'
  <2>1. local' \in [Clients -> Layout] /\ waiting' \in [Clients -> SUBSET Handlers]
    BY <1>1, <1>n DEF Mount, TypeInv, TypeOK
  <2> QED BY <1>1, <1>n, <2>1, ReceiveTypes DEF Mount
<1>2. ASSUME NEW c \in Clients, NEW h \in Handlers, Save(c, h) PROVE TypeInv'
  <2>1. local[c] \in Layout /\ local' \in [Clients -> Layout]
        /\ waiting' \in [Clients -> SUBSET Handlers]
    BY <1>2 DEF Save, TypeInv, TypeOK
  <2> QED BY <1>2, <2>1, ReceiveTypes DEF Save
<1>3. ASSUME NEW c \in Clients, NEW h \in Handlers, GiveUp(c, h) PROVE TypeInv'
  <2>1. TypeOK'
    BY <1>3 DEF GiveUp, tables, frames, TypeInv, TypeOK
  <2>2. Serving' /\ TablesNewest'
    BY <1>3 DEF GiveUp, tables, frames, TypeInv, Serving, TablesNewest
  <2> QED BY <2>1, <2>2 DEF TypeInv
<1>4. ASSUME NEW h \in Handlers, RejectStale(h) PROVE TypeInv'
  BY <1>4, <1>n, HandlerTypes
     DEF RejectStale, Raise, tables, TypeInv, TypeOK
<1>5. ASSUME NEW h \in Handlers, Record(h) PROVE TypeInv'
  <2>1. audit' \subseteq 2..MaxRevision
    BY <1>5 DEF Record, TypeInv, TypeOK, Serving
  <2>2. seen[h] \in Layout /\ seen' = [seen EXCEPT ![h] = seen[h]]
    BY <1>5 DEF Record, TypeInv, TypeOK
  <2> QED
    BY <1>5, <2>1, <2>2, HandlerTypes DEF Record, TypeInv, TypeOK
<1>6. ASSUME NEW h \in Handlers, ReadRow(h) PROVE TypeInv'
  <2> DEFINE read == [seen[h] EXCEPT !.revision = row.revision, !.theme = row.theme]
  <2>1. read \in Layout
    <3>1. seen[h] \in Layout /\ row.revision \in 0..MaxRevision /\ row.theme \in SUBSET Edits
      BY DEF TypeInv, TypeOK
    <3> QED BY <3>1, LayoutUpdates
  <2>2. seen' = [seen EXCEPT ![h] = read]
    BY <1>6 DEF ReadRow, TypeInv, TypeOK, Layout
  <2> HIDE DEF read
  <2> QED
    BY <1>6, <2>1, <2>2, HandlerTypes DEF ReadRow, tables, TypeInv, TypeOK
<1>7. ASSUME NEW h \in Handlers, ReadWidgets(h) PROVE TypeInv'
  <2> DEFINE read == [seen[h] EXCEPT !.widgets = widgets]
  <2>1. read \in Layout
    <3>1. seen[h] \in Layout /\ widgets \in SUBSET Edits
      BY DEF TypeInv, TypeOK
    <3> QED BY <3>1, LayoutUpdates
  <2>2. seen' = [seen EXCEPT ![h] = read]
    BY <1>7 DEF ReadWidgets, TypeInv, TypeOK, Layout
  <2> HIDE DEF read
  <2> QED
    BY <1>7, <2>1, <2>2, HandlerTypes DEF ReadWidgets, tables, TypeInv, TypeOK
<1>8. ASSUME NEW h \in Handlers, Fail(h) PROVE TypeInv'
  <2>1. failed' \subseteq 2..MaxRevision
    BY <1>8 DEF Fail, TypeInv, TypeOK, Serving
  <2> QED
    BY <1>8, <1>n, <2>1, HandlerTypes DEF Fail, Raise, tables, TypeInv, TypeOK
<1>9. ASSUME UNCHANGED vars PROVE TypeInv'
  <2>1. TypeOK'
    BY <1>9 DEF vars, tables, frames, pages, TypeInv, TypeOK
  <2>2. Serving' /\ TablesNewest'
    BY <1>9 DEF vars, tables, frames, pages, TypeInv, Serving, TablesNewest
  <2> QED BY <2>1, <2>2 DEF TypeInv
<1> QED
  BY <1>1, <1>2, <1>3, <1>4, <1>5, <1>6, <1>7, <1>8, <1>9, EditTypes,
     CommitTypes, RespondTypes DEF Next, HandlerStep

\* Tables, handlers and pages hold values of their types.
THEOREM WorkspaceTypes == Spec => []TypeOK
<1>1. TypeInv => TypeOK
  BY DEF TypeInv
<1> QED BY <1>1, InitTypeInv, StepTypes, PTL DEF Spec

---------------------------------------------------------------------------
(* The invariant.  hist stands for a history, now or after a step; p, j    *)
(* and s for a handler's place, request and reads.                         *)

\* No revision has less than an earlier one.
Growing(hist) ==
  \A r, s \in 1..Len(hist) : r <= s =>
    /\ hist[r].theme \subseteq hist[s].theme
    /\ hist[r].widgets \subseteq hist[s].widgets

\* A layout has all of the revision it claims to be based on.
Based(l, hist) ==
  l.revision > 0 =>
    /\ l.revision <= Len(hist)
    /\ hist[l.revision].theme \subseteq l.theme
    /\ hist[l.revision].widgets \subseteq l.widgets

\* What is read is the theme of the revision it names, and the widgets of that
\* or a later one.
ReadRevision(s, hist) ==
  s.revision \in 1..Len(hist) /\ s.theme = hist[s.revision].theme

ReadLayout(s, hist) ==
  /\ ReadRevision(s, hist)
  /\ \E r \in s.revision..Len(hist) : s.widgets = hist[r].widgets

\* The layout a request brought is the revision after the one it is based on.
SavedNext(j, hist) ==
  /\ j.layout.revision + 1 \in 1..Len(hist)
  /\ hist[j.layout.revision + 1].theme = j.layout.theme
  /\ hist[j.layout.revision + 1].widgets = j.layout.widgets

Handled(p, j, s, hist) ==
  /\ p # "idle" => Based(j.layout, hist)
  /\ p = "read_widgets" => ReadRevision(s, hist)
  /\ p = "ready" => ReadLayout(s, hist)
  /\ p \in {"record", "read_row", "read_widgets", "ready"} /\ j.kind = "save" =>
       SavedNext(j, hist)
  /\ p \in {"read_widgets", "ready"} /\ j.kind = "save" =>
       s.revision >= j.layout.revision + 1

PagesBased == \A c \in Clients : Based(local[c], history)

HandlersSound == \A h \in Handlers : Handled(pc[h], job[h], seen[h], history)

WorkspaceInv == TypeInv /\ Growing(history) /\ PagesBased /\ HandlersSound

---------------------------------------------------------------------------
(* What holds of a history holds of its continuations.                     *)

LEMMA BasedStays ==
  ASSUME NEW hist, NEW more, Len(hist) \in Nat, Len(more) \in Nat,
         Len(hist) <= Len(more), \A r \in 1..Len(hist) : more[r] = hist[r],
         NEW l \in Layout, Based(l, hist)
  PROVE  Based(l, more)
<1> SUFFICES ASSUME l.revision > 0 PROVE Based(l, more)
  BY DEF Based
<1>1. l.revision \in Nat
  BY WorkspaceAssumption DEF WorkspaceAssumption, Layout
<1>2. l.revision \in 1..Len(hist) /\ l.revision <= Len(more)
  BY <1>1 DEF Based
<1>3. more[l.revision] = hist[l.revision]
  BY <1>2
<1> QED BY <1>2, <1>3 DEF Based

LEMMA HandledStays ==
  ASSUME NEW hist, NEW more, Len(hist) \in Nat, Len(more) \in Nat,
         Len(hist) <= Len(more), \A r \in 1..Len(hist) : more[r] = hist[r],
         NEW p, NEW j, NEW s \in Layout, p # "idle" => j \in Requests,
         Handled(p, j, s, hist)
  PROVE  Handled(p, j, s, more)
<1>1. p # "idle" => Based(j.layout, more)
  BY BasedStays DEF Handled, Requests
<1>2. ReadRevision(s, hist) => ReadRevision(s, more)
  BY DEF ReadRevision
<1>3. ReadLayout(s, hist) => ReadLayout(s, more)
  <2> SUFFICES ASSUME ReadLayout(s, hist) PROVE ReadLayout(s, more)
    OBVIOUS
  <2>1. PICK r \in s.revision..Len(hist) : s.widgets = hist[r].widgets
    BY DEF ReadLayout
  <2>2. s.revision \in 1..Len(hist)
    BY DEF ReadLayout, ReadRevision
  <2>3. r \in 1..Len(hist) /\ r \in s.revision..Len(more)
    BY <2>1, <2>2
  <2>4. more[r] = hist[r]
    BY <2>3
  <2> QED BY <1>2, <2>1, <2>3, <2>4 DEF ReadLayout
<1>4. SavedNext(j, hist) => SavedNext(j, more)
  BY DEF SavedNext
<1> QED BY <1>1, <1>2, <1>3, <1>4 DEF Handled

\* What a handler has ready has all of the revision it names.
LEMMA ReadLayoutBased ==
  ASSUME NEW hist, Len(hist) \in Nat, Growing(hist), NEW s, ReadLayout(s, hist)
  PROVE  Based(s, hist)
<1>1. PICK r \in s.revision..Len(hist) : s.widgets = hist[r].widgets
  BY DEF ReadLayout
<1>2. s.revision \in 1..Len(hist) /\ s.theme = hist[s.revision].theme
  BY DEF ReadLayout, ReadRevision
<1>3. r \in 1..Len(hist) /\ s.revision <= r
  BY <1>1, <1>2
<1>4. hist[s.revision].widgets \subseteq hist[r].widgets
  BY <1>2, <1>3 DEF Growing
<1> QED BY <1>1, <1>2, <1>4 DEF Based

---------------------------------------------------------------------------
(* The invariant is inductive.                                             *)

LEMMA InitWorkspaceInv == Init => WorkspaceInv
<1> SUFFICES ASSUME Init PROVE WorkspaceInv
  OBVIOUS
<1>1. TypeInv
  BY InitTypeInv
<1>2. Growing(history)
  BY DEF Init, Growing
<1>3. PagesBased
  BY DEF Init, PagesBased, Based, NoLayout
<1>4. HandlersSound
  BY DEF Init, HandlersSound, Handled
<1> QED BY <1>1, <1>2, <1>3, <1>4 DEF WorkspaceInv

\* A step of one handler that saves nothing.
LEMMA HandlerPreserves ==
  ASSUME WorkspaceInv, TypeInv', NEW h \in Handlers, history' = history,
         \A g \in Handlers \ {h} :
           pc'[g] = pc[g] /\ job'[g] = job[g] /\ seen'[g] = seen[g],
         Handled(pc'[h], job'[h], seen'[h], history),
         \A c \in Clients : Based(local'[c], history)
  PROVE  WorkspaceInv'
<1>1. Growing(history)'
  BY DEF WorkspaceInv, Growing
<1>2. PagesBased'
  BY DEF PagesBased
<1>3. HandlersSound'
  <2> SUFFICES ASSUME NEW g \in Handlers
               PROVE  Handled(pc'[g], job'[g], seen'[g], history')
    BY DEF HandlersSound
  <2>1. CASE g = h
    BY <2>1
  <2>2. CASE g # h
    BY <2>2 DEF WorkspaceInv, HandlersSound
  <2> QED BY <2>1, <2>2
<1> QED BY <1>1, <1>2, <1>3 DEF WorkspaceInv

\* The others are where they were after a handler has gone on.
LEMMA OthersStay ==
  ASSUME TypeInv, NEW h \in Handlers, NEW label, GoTo(h, label),
         NEW read, seen' = seen \/ seen' = [seen EXCEPT ![h] = read],
         NEW request, job' = job \/ job' = [job EXCEPT ![h] = request]
  PROVE  /\ pc'[h] = label
         /\ \A g \in Handlers \ {h} :
              pc'[g] = pc[g] /\ job'[g] = job[g] /\ seen'[g] = seen[g]
<1>1. pc'[h] = label /\ \A g \in Handlers \ {h} : pc'[g] = pc[g]
  BY DEF GoTo, TypeInv, TypeOK
<1>2. \A g \in Handlers \ {h} : seen'[g] = seen[g]
  BY DEF TypeInv, TypeOK
<1>3. \A g \in Handlers \ {h} : job'[g] = job[g]
  BY DEF TypeInv, TypeOK
<1> QED BY <1>1, <1>2, <1>3

LEMMA ReceivePreserves ==
  ASSUME WorkspaceInv, TypeInv', NEW h \in Handlers, NEW c \in Clients,
         NEW kind \in {"load", "save"}, NEW layout \in Layout,
         Receive(h, c, kind, layout), Based(layout, history),
         \A d \in Clients : Based(local'[d], history)
  PROVE  WorkspaceInv'
<1> DEFINE request == [kind |-> kind, client |-> c, layout |-> layout]
           label == IF kind = "save" THEN "commit" ELSE "read_row"
<1>1. GoTo(h, label) /\ job' = [job EXCEPT ![h] = request] /\ seen' = seen
  BY DEF Receive, GoTo
<1>2. request.kind = kind /\ request.layout = layout
  OBVIOUS
<1>3. label \in {"commit", "read_row"} /\ (kind = "save" => label = "commit")
  OBVIOUS
<1> HIDE DEF request, label
<1>4. TypeInv
  BY DEF WorkspaceInv
<1>5. pc'[h] = label /\ \A g \in Handlers \ {h} :
        pc'[g] = pc[g] /\ job'[g] = job[g] /\ seen'[g] = seen[g]
  BY <1>1, <1>4, OthersStay
<1>6. job'[h] = request
  BY <1>1, <1>4 DEF TypeInv, TypeOK
<1>7. Handled(label, request, seen'[h], history)
  BY <1>2, <1>3 DEF Handled
<1>8. history' = history
  BY DEF Receive
<1> QED BY <1>5, <1>6, <1>7, <1>8, HandlerPreserves

LEMMA RaisePreserves ==
  ASSUME WorkspaceInv, TypeInv', NEW h \in Handlers, Raise(h),
         UNCHANGED <<local, history>>
  PROVE  WorkspaceInv'
<1>1. TypeInv
  BY DEF WorkspaceInv
<1>2. pc'[h] = "rejected" /\ \A g \in Handlers \ {h} :
        pc'[g] = pc[g] /\ job'[g] = job[g] /\ seen'[g] = seen[g]
  BY <1>1, OthersStay DEF Raise
<1>3. job'[h] = [job[h] EXCEPT !.layout = NoLayout]
  BY <1>1 DEF Raise, TypeInv, TypeOK
<1>4. job'[h] \in Requests
  BY <1>2 DEF TypeInv, Serving
<1>5. job'[h].layout.revision = 0
  <2>1. DOMAIN job[h] = {"kind", "client", "layout"}
    BY <1>3, <1>4 DEF Requests
  <2> QED BY <1>3, <2>1 DEF NoLayout
<1>6. Handled(pc'[h], job'[h], seen'[h], history)
  BY <1>2, <1>5 DEF Handled, Based
<1>7. \A c \in Clients : Based(local'[c], history)
  BY DEF WorkspaceInv, PagesBased
<1> QED BY <1>2, <1>6, <1>7, HandlerPreserves

LEMMA CommitPreserves ==
  ASSUME WorkspaceInv, TypeInv', NEW h \in Handlers, Commit(h)
  PROVE  WorkspaceInv'
<1> DEFINE n == Len(history)
<1>1. TypeInv /\ TypeOK
  BY DEF WorkspaceInv, TypeInv
<1>2. /\ job[h] \in Requests
      /\ n \in Nat \ {0}
      /\ Len(history') = n + 1
      /\ \A r \in 1..n : history'[r] = history[r]
      /\ history'[n + 1].theme = job[h].layout.theme
      /\ history'[n + 1].widgets = job[h].layout.widgets
      /\ job[h].layout.revision = n
  BY <1>1, CommitHistory, WorkspaceAssumption DEF WorkspaceAssumption
<1>3. Based(job[h].layout, history)
  BY DEF Commit, WorkspaceInv, HandlersSound, Handled
<1> HIDE DEF n
<1>4. /\ history[n].theme \subseteq history'[n + 1].theme
      /\ history[n].widgets \subseteq history'[n + 1].widgets
  BY <1>2, <1>3 DEF Based
<1>5. Growing(history')
  <2> SUFFICES ASSUME NEW r \in 1..(n + 1), NEW s \in 1..(n + 1), r <= s
               PROVE  /\ history'[r].theme \subseteq history'[s].theme
                      /\ history'[r].widgets \subseteq history'[s].widgets
    BY <1>2 DEF Growing
  <2>0. \A i, j \in 1..n : i <= j =>
          /\ history[i].theme \subseteq history[j].theme
          /\ history[i].widgets \subseteq history[j].widgets
    BY DEF WorkspaceInv, Growing, n
  <2>1. CASE s <= n
    <3>1. r \in 1..n /\ s \in 1..n
      BY <1>2, <2>1
    <3> QED BY <1>2, <2>0, <3>1
  <2>2. CASE s > n /\ r > n
    <3>1. r = s
      BY <1>2, <2>2
    <3> QED BY <3>1
  <2>3. CASE s > n /\ r <= n
    <3>1. s = n + 1 /\ r \in 1..n /\ n \in 1..n
      BY <1>2, <2>3
    <3>2. history'[r] = history[r]
      BY <1>2, <3>1
    <3>3. /\ history[r].theme \subseteq history[n].theme
          /\ history[r].widgets \subseteq history[n].widgets
      BY <2>0, <3>1
    <3> QED BY <1>4, <3>1, <3>2, <3>3
  <2> QED BY <1>2, <2>1, <2>2, <2>3
<1>6. n <= Len(history') /\ Len(history') \in Nat
  BY <1>2
<1>7. PagesBased'
  <2> SUFFICES ASSUME NEW c \in Clients PROVE Based(local'[c], history')
    BY DEF PagesBased
  <2>1. local' = local /\ local[c] \in Layout /\ Based(local[c], history)
    BY <1>1 DEF Commit, pages, TypeOK, WorkspaceInv, PagesBased
  <2> QED BY <1>2, <1>6, <2>1, BasedStays DEF n
<1>8. HandlersSound'
  <2> SUFFICES ASSUME NEW g \in Handlers
               PROVE  Handled(pc'[g], job'[g], seen'[g], history')
    BY DEF HandlersSound
  <2>1. CASE g = h
    <3>1. pc'[g] = "record" /\ job'[g] = job[h]
      BY <1>1, <2>1 DEF Commit, GoTo, TypeOK
    <3>2. Based(job[h].layout, history')
      BY <1>2, <1>3, <1>6, BasedStays DEF Requests, n
    <3>3. SavedNext(job[h], history')
      BY <1>2 DEF SavedNext
    <3> QED BY <3>1, <3>2, <3>3 DEF Handled
  <2>2. CASE g # h
    <3>1. pc'[g] = pc[g] /\ job'[g] = job[g] /\ seen'[g] = seen[g]
      BY <1>1, <2>2 DEF Commit, GoTo, TypeOK
    <3>2. Handled(pc[g], job[g], seen[g], history) /\ seen[g] \in Layout
          /\ (pc[g] # "idle" => job[g] \in Requests)
      BY <1>1 DEF WorkspaceInv, HandlersSound, TypeInv, TypeOK, Serving
    <3>3. Handled(pc[g], job[g], seen[g], history')
      BY <1>2, <1>6, <3>2, HandledStays DEF n
    <3> QED BY <3>1, <3>3
  <2> QED BY <2>1, <2>2
<1> QED BY <1>5, <1>7, <1>8 DEF WorkspaceInv, Growing

\* A handler goes on with its request, having read something or not.
LEMMA ReadingPreserves ==
  ASSUME WorkspaceInv, TypeInv', NEW h \in Handlers,
         NEW label \in {"read_row", "read_widgets", "ready"}, GoTo(h, label),
         NEW read \in Layout, seen' = [seen EXCEPT ![h] = read],
         UNCHANGED <<job, local, history>>,
         Handled(label, job[h], read, history)
  PROVE  WorkspaceInv'
<1>1. TypeInv
  BY DEF WorkspaceInv
<1>2. pc'[h] = label /\ \A g \in Handlers \ {h} :
        pc'[g] = pc[g] /\ job'[g] = job[g] /\ seen'[g] = seen[g]
  BY <1>1, OthersStay
<1>3. seen'[h] = read
  BY <1>1 DEF TypeInv, TypeOK
<1>4. \A c \in Clients : Based(local'[c], history)
  BY DEF WorkspaceInv, PagesBased
<1> QED BY <1>2, <1>3, <1>4, HandlerPreserves

LEMMA RecordPreserves ==
  ASSUME WorkspaceInv, TypeInv', NEW h \in Handlers, Record(h)
  PROVE  WorkspaceInv'
<1>1. seen[h] \in Layout /\ seen' = [seen EXCEPT ![h] = seen[h]]
  BY DEF Record, WorkspaceInv, TypeInv, TypeOK
<1>2. Handled("read_row", job[h], seen[h], history)
  BY DEF Record, WorkspaceInv, HandlersSound, Handled
<1> QED BY <1>1, <1>2, ReadingPreserves DEF Record, pages

LEMMA ReadRowPreserves ==
  ASSUME WorkspaceInv, TypeInv', NEW h \in Handlers, ReadRow(h)
  PROVE  WorkspaceInv'
<1> DEFINE read == [seen[h] EXCEPT !.revision = row.revision, !.theme = row.theme]
<1>1. seen[h] \in Layout /\ row.revision \in 0..MaxRevision
      /\ row.theme \in SUBSET Edits
  BY DEF WorkspaceInv, TypeInv, TypeOK
<1>2. read \in Layout
  BY <1>1, LayoutUpdates
<1>3. read.revision = row.revision /\ read.theme = row.theme
  BY <1>1 DEF Layout
<1>4. seen' = [seen EXCEPT ![h] = read]
  BY DEF ReadRow, WorkspaceInv, TypeInv, TypeOK, Layout
<1> HIDE DEF read
<1>5. read.revision = Len(history) /\ ReadRevision(read, history)
  BY <1>3 DEF ReadRevision, WorkspaceInv, TypeInv, TablesNewest
<1>6. Handled("read_row", job[h], seen[h], history)
  BY DEF ReadRow, WorkspaceInv, HandlersSound
<1>7. Handled("read_widgets", job[h], read, history)
  BY <1>5, <1>6 DEF Handled, SavedNext
<1> QED BY <1>2, <1>4, <1>7, ReadingPreserves DEF ReadRow, pages

LEMMA ReadWidgetsPreserves ==
  ASSUME WorkspaceInv, TypeInv', NEW h \in Handlers, ReadWidgets(h)
  PROVE  WorkspaceInv'
<1> DEFINE read == [seen[h] EXCEPT !.widgets = widgets]
<1>1. seen[h] \in Layout /\ widgets \in SUBSET Edits
  BY DEF WorkspaceInv, TypeInv, TypeOK
<1>2. read \in Layout
  BY <1>1, LayoutUpdates
<1>3. /\ read.revision = seen[h].revision
      /\ read.theme = seen[h].theme
      /\ read.widgets = widgets
  BY <1>1 DEF Layout
<1>4. seen' = [seen EXCEPT ![h] = read]
  BY DEF ReadWidgets, WorkspaceInv, TypeInv, TypeOK, Layout
<1> HIDE DEF read
<1>5. Handled("read_widgets", job[h], seen[h], history)
  BY DEF ReadWidgets, WorkspaceInv, HandlersSound
<1>6. ReadRevision(read, history)
  BY <1>3, <1>5 DEF Handled, ReadRevision
<1>7. Len(history) \in read.revision..Len(history)
  BY <1>6 DEF ReadRevision
<1>8. read.widgets = history[Len(history)].widgets
  BY <1>3 DEF WorkspaceInv, TypeInv, TablesNewest
<1>9. ReadLayout(read, history)
  BY <1>6, <1>7, <1>8 DEF ReadLayout
<1>10. Handled("ready", job[h], read, history)
  BY <1>3, <1>5, <1>9 DEF Handled
<1> QED BY <1>2, <1>4, <1>10, ReadingPreserves DEF ReadWidgets, pages

LEMMA RespondPreserves ==
  ASSUME WorkspaceInv, TypeInv', NEW h \in Handlers, Respond(h)
  PROVE  WorkspaceInv'
<1>1. TypeInv
  BY DEF WorkspaceInv
<1>2. pc'[h] = "idle" /\ \A g \in Handlers \ {h} :
        pc'[g] = pc[g] /\ job'[g] = job[g] /\ seen'[g] = seen[g]
  BY <1>1, OthersStay DEF Respond, Finish
<1>3. Handled(pc'[h], job'[h], seen'[h], history)
  BY <1>2 DEF Handled
<1>4. pc[h] = "ready" => Based(seen[h], history)
  <2>1. pc[h] = "ready" => ReadLayout(seen[h], history)
    BY DEF WorkspaceInv, HandlersSound, Handled
  <2>2. Len(history) \in Nat
    BY <1>1, WorkspaceAssumption DEF WorkspaceAssumption, TypeInv, TablesNewest
  <2> QED BY <2>1, <2>2, ReadLayoutBased DEF WorkspaceInv
<1>5. ASSUME NEW c \in Clients PROVE Based(local'[c], history)
  <2>1. Based(local[c], history)
    BY DEF WorkspaceInv, PagesBased
  <2>2. CASE Answered(h)
    <3>1. local'[c] = local[c] \/ local'[c] = seen[h]
      BY <1>1, <2>2 DEF Respond, TypeInv, TypeOK
    <3> QED BY <1>4, <2>1, <2>2, <3>1 DEF Answered
  <2>3. CASE ~Answered(h)
    BY <2>1, <2>3 DEF Respond
  <2> QED BY <2>2, <2>3
<1>6. history' = history
  BY DEF Respond
<1> QED BY <1>2, <1>3, <1>5, <1>6, HandlerPreserves

LEMMA EditPreserves ==
  ASSUME WorkspaceInv, TypeInv', NEW c \in Clients, NEW e \in Edits, Edit(c, e)
  PROVE  WorkspaceInv'
<1>1. TypeInv /\ local[c] \in Layout /\ Based(local[c], history)
  BY DEF WorkspaceInv, TypeInv, TypeOK, PagesBased
<1>2. /\ local'[c].revision = local[c].revision
      /\ local[c].theme \subseteq local'[c].theme
      /\ local[c].widgets \subseteq local'[c].widgets
  BY <1>1 DEF Edit, TypeInv, TypeOK, Layout
<1>3. Based(local'[c], history)
  BY <1>1, <1>2 DEF Based
<1>4. \A d \in Clients \ {c} : local'[d] = local[d]
  BY <1>1 DEF Edit, TypeInv, TypeOK
<1>5. PagesBased'
  BY <1>3, <1>4 DEF Edit, WorkspaceInv, PagesBased
<1>6. HandlersSound'
  BY DEF Edit, frames, WorkspaceInv, HandlersSound
<1>7. Growing(history)'
  BY DEF Edit, WorkspaceInv, Growing
<1> QED BY <1>5, <1>6, <1>7 DEF WorkspaceInv

LEMMA StepWorkspaceInv == WorkspaceInv /\ [Next]_vars => WorkspaceInv'
<1> SUFFICES ASSUME WorkspaceInv, [Next]_vars PROVE WorkspaceInv'
  OBVIOUS
<1>t. TypeInv /\ TypeInv'
  BY StepTypes DEF WorkspaceInv
<1>n. NoLayout \in Layout /\ Based(NoLayout, history)
  BY WorkspaceAssumption DEF WorkspaceAssumption, NoLayout, Layout, Based
<1>b. \A c \in Clients : local[c] \in Layout /\ Based(local[c], history)
  BY <1>t DEF TypeInv, TypeOK, WorkspaceInv, PagesBased
<1>1. ASSUME NEW c \in Clients, NEW h \in Handlers, Mount(c, h)
      PROVE  WorkspaceInv'
  <2>1. \A d \in Clients : local'[d] = local[d] \/ local'[d] = NoLayout
    BY <1>1, <1>t DEF Mount, TypeInv, TypeOK
  <2>2. \A d \in Clients : Based(local'[d], history)
    BY <1>n, <1>b, <2>1
  <2> QED BY <1>1, <1>t, <1>n, <2>2, ReceivePreserves DEF Mount
<1>2. ASSUME NEW c \in Clients, NEW h \in Handlers, Save(c, h)
      PROVE  WorkspaceInv'
  BY <1>2, <1>t, <1>b, ReceivePreserves DEF Save
<1>3. ASSUME UNCHANGED <<frames, local, history>> PROVE WorkspaceInv'
  BY <1>3, <1>t DEF frames, WorkspaceInv, PagesBased, HandlersSound, Growing
<1>4. ASSUME NEW h \in Handlers, RejectStale(h) \/ Fail(h) PROVE WorkspaceInv'
  BY <1>4, <1>t, RaisePreserves DEF RejectStale, Fail, pages
<1>5. ASSUME NEW h \in Handlers, HandlerStep(h) PROVE WorkspaceInv'
  BY <1>4, <1>5, <1>t, CommitPreserves, RecordPreserves, ReadRowPreserves,
     ReadWidgetsPreserves DEF HandlerStep
<1>6. ASSUME NEW c \in Clients, NEW h \in Handlers, GiveUp(c, h)
      PROVE  WorkspaceInv'
  BY <1>3, <1>6 DEF GiveUp
<1>7. ASSUME UNCHANGED vars PROVE WorkspaceInv'
  BY <1>3, <1>7 DEF vars, pages
<1> QED
  BY <1>t, <1>1, <1>2, <1>5, <1>6, <1>7, RespondPreserves, EditPreserves
     DEF Next

THEOREM WorkspaceSpecInv == Spec => []WorkspaceInv
BY InitWorkspaceInv, StepWorkspaceInv, PTL DEF Spec

---------------------------------------------------------------------------
(* What it says of the workspace.                                          *)

\* However loads, edits, saves, timeouts and failures interleave, and although
\* the answers of _envelope mix revisions, no save drops an edit that the
\* revision before it had.
THEOREM NothingLost == Spec => []NoLostUpdate
<1>1. WorkspaceInv => NoLostUpdate
  <2> SUFFICES ASSUME WorkspaceInv, NEW r \in 1..Len(history) - 1
               PROVE  Saved(r) \subseteq Saved(r + 1)
    BY DEF NoLostUpdate
  <2>1. Len(history) \in Nat
    BY WorkspaceAssumption
       DEF WorkspaceAssumption, WorkspaceInv, TypeInv, TablesNewest
  <2>2. r \in 1..Len(history) /\ r + 1 \in 1..Len(history) /\ r <= r + 1
    BY <2>1
  <2>3. /\ history[r].theme \subseteq history[r + 1].theme
        /\ history[r].widgets \subseteq history[r + 1].widgets
    BY <2>2 DEF WorkspaceInv, Growing
  <2> QED BY <2>3 DEF Saved
<1> QED BY <1>1, WorkspaceSpecInv, PTL

\* What _envelope answers is never older than the revision it names.
THEOREM ReadsNeverOlder == Spec => []NeverOlderThanRevision
<1>1. WorkspaceInv => NeverOlderThanRevision
  BY DEF WorkspaceInv, HandlersSound, Handled, ReadLayout, ReadRevision,
         NeverOlderThanRevision
<1> QED BY <1>1, WorkspaceSpecInv, PTL

\* The answer to a save has what was saved: reading it back after the commit
\* cannot go behind the handler's own revision.
THEOREM SavesShown == Spec => []SavedIsShown
<1>1. WorkspaceInv => SavedIsShown
  <2> SUFFICES ASSUME WorkspaceInv, NEW h \in Handlers,
                      pc[h] = "ready", job[h].kind = "save"
               PROVE  /\ job[h].layout.theme \subseteq seen[h].theme
                      /\ job[h].layout.widgets \subseteq seen[h].widgets
    BY DEF SavedIsShown
  <2> DEFINE mine == job[h].layout.revision + 1
             n == Len(history)
  <2>1. /\ ReadLayout(seen[h], history)
        /\ SavedNext(job[h], history)
        /\ seen[h].revision >= mine
    BY DEF WorkspaceInv, HandlersSound, Handled
  <2>2. n \in Nat
    BY WorkspaceAssumption
       DEF WorkspaceAssumption, WorkspaceInv, TypeInv, TablesNewest
  <2>3. PICK r \in seen[h].revision..n : seen[h].widgets = history[r].widgets
    BY <2>1 DEF ReadLayout
  <2>4. /\ seen[h].revision \in 1..n
        /\ seen[h].theme = history[seen[h].revision].theme
    BY <2>1 DEF ReadLayout, ReadRevision
  <2>5. /\ mine \in 1..n
        /\ history[mine].theme = job[h].layout.theme
        /\ history[mine].widgets = job[h].layout.widgets
    BY <2>1 DEF SavedNext
  <2> HIDE DEF mine
  <2>6. r \in 1..n /\ mine <= r /\ mine <= seen[h].revision
    BY <2>1, <2>2, <2>3, <2>4, <2>5
  <2>7. \A i, j \in 1..n : i <= j =>
          /\ history[i].theme \subseteq history[j].theme
          /\ history[i].widgets \subseteq history[j].widgets
    BY DEF WorkspaceInv, Growing
  <2> HIDE DEF n
  <2> QED BY <2>3, <2>4, <2>5, <2>6, <2>7
<1> QED BY <1>1, WorkspaceSpecInv, PTL

---------------------------------------------------------------------------
(* The event sink.                                                         *)

\* A handler about to log its save holds a revision that was saved.
RecordsOwn ==
  \A h \in Handlers : pc[h] = "record" =>
    seen[h].revision > 1 /\ seen[h].revision <= Len(history)

AuditInv == WorkspaceInv /\ RecordsOwn /\ RevisionsAudited

\* The revision of r is logged, lost, or about to be logged.
Accounted(r) ==
  \/ r \in audit \cup failed
  \/ \E h \in Handlers : pc[h] = "record" /\ seen[h].revision = r

LEMMA AuditedMeans ==
  RevisionsAudited <=>
    \A r \in 1..MaxRevision :
      /\ r \in audit => r > 1 /\ r <= Len(history)
      /\ r > 1 /\ r <= Len(history) => Accounted(r)
BY DEF RevisionsAudited, Accounted

LEMMA AuditedNext ==
  RevisionsAudited' <=>
    \A r \in 1..MaxRevision :
      /\ r \in audit' => r > 1 /\ r <= Len(history')
      /\ r > 1 /\ r <= Len(history') => Accounted(r)'
BY DEF RevisionsAudited, Accounted

\* Most steps neither save nor log.
LEMMA AuditKept ==
  ASSUME AuditInv, UNCHANGED <<audit, failed, history>>,
         \A g \in Handlers :
           /\ pc'[g] = "record" <=> pc[g] = "record"
           /\ pc[g] = "record" => seen'[g] = seen[g]
  PROVE  RecordsOwn' /\ RevisionsAudited'
<1>1. RecordsOwn'
  BY DEF AuditInv, RecordsOwn
<1>2. ASSUME NEW r \in 1..MaxRevision, Accounted(r) PROVE Accounted(r)'
  BY <1>2 DEF Accounted
<1> QED
  BY <1>1, <1>2, AuditedMeans, AuditedNext DEF AuditInv

LEMMA HandlerQuiet ==
  ASSUME AuditInv, UNCHANGED <<audit, failed, history>>, NEW h \in Handlers,
         pc[h] # "record", pc'[h] # "record",
         \A g \in Handlers \ {h} : pc'[g] = pc[g] /\ seen'[g] = seen[g]
  PROVE  RecordsOwn' /\ RevisionsAudited'
<1>1. \A g \in Handlers :
        /\ pc'[g] = "record" <=> pc[g] = "record"
        /\ pc[g] = "record" => seen'[g] = seen[g]
  OBVIOUS
<1> QED
  BY <1>1, AuditKept

LEMMA CommitAccounts ==
  ASSUME AuditInv, NEW h \in Handlers, Commit(h)
  PROVE  RecordsOwn' /\ RevisionsAudited'
<1> DEFINE n == Len(history)
<1>1. TypeInv /\ n \in Nat /\ n > 0 /\ row.revision = n
  BY WorkspaceAssumption
     DEF WorkspaceAssumption, AuditInv, WorkspaceInv, TypeInv, TablesNewest, TypeOK
<1>2. Len(history') = n + 1
  BY <1>1 DEF Commit, TypeInv, TypeOK
<1>3. /\ pc[h] = "commit" /\ pc'[h] = "record" /\ seen'[h].revision = n + 1
      /\ \A g \in Handlers \ {h} : pc'[g] = pc[g] /\ seen'[g] = seen[g]
      /\ audit' = audit /\ failed' = failed
  BY <1>1 DEF Commit, GoTo, TypeInv, TypeOK, Layout
<1> HIDE DEF n
<1>4. RecordsOwn'
  <2>1. ASSUME NEW g \in Handlers, pc'[g] = "record"
        PROVE  seen'[g].revision > 1 /\ seen'[g].revision <= n + 1
    <3>1. CASE g = h
      BY <1>1, <1>3, <3>1
    <3>2. CASE g # h
      <4>1. seen[g] \in Layout /\ seen'[g] = seen[g] /\ pc[g] = "record"
        BY <1>1, <1>3, <2>1, <3>2 DEF TypeInv, TypeOK
      <4>2. seen[g].revision > 1 /\ seen[g].revision <= n
        BY <4>1 DEF AuditInv, RecordsOwn, n
      <4>3. seen[g].revision \in Int
        BY <4>1 DEF Layout
      <4> QED
        BY <1>1, <4>1, <4>2, <4>3
    <3> QED
      BY <3>1, <3>2
  <2> QED
    BY <1>2, <2>1 DEF RecordsOwn
<1>5. ASSUME NEW r \in 1..MaxRevision
      PROVE  /\ r \in audit' => r > 1 /\ r <= Len(history')
             /\ r > 1 /\ r <= Len(history') => Accounted(r)'
  <2>1. /\ r \in audit => r > 1 /\ r <= n
        /\ r > 1 /\ r <= n => Accounted(r)
    BY AuditedMeans DEF AuditInv, n
  <2>2. r \in audit' => r > 1 /\ r <= Len(history')
    BY <1>1, <1>2, <1>3, <2>1
  <2>3. ASSUME r > 1, r <= n PROVE Accounted(r)'
    <3>1. CASE r \in audit \cup failed
      BY <1>3, <3>1 DEF Accounted
    <3>2. CASE \E g \in Handlers : pc[g] = "record" /\ seen[g].revision = r
      BY <1>3, <3>2 DEF Accounted
    <3> QED
      BY <2>1, <2>3, <3>1, <3>2 DEF Accounted
  <2>4. ASSUME r = n + 1 PROVE Accounted(r)'
    BY <1>3, <2>4 DEF Accounted
  <2> QED
    BY <1>1, <1>2, <2>2, <2>3, <2>4
<1> QED
  BY <1>4, <1>5, AuditedNext

\* Logging a save, or failing to, takes the handler's revision out of its hands.
LEMMA LeavesRecord ==
  ASSUME AuditInv, NEW h \in Handlers, pc[h] = "record", pc'[h] # "record",
         \A g \in Handlers \ {h} : pc'[g] = pc[g] /\ seen'[g] = seen[g],
         history' = history, audit \subseteq audit', failed \subseteq failed',
         audit' \subseteq audit \cup {seen[h].revision},
         seen[h].revision \in audit' \cup failed'
  PROVE  RecordsOwn' /\ RevisionsAudited'
<1>1. RecordsOwn'
  BY DEF AuditInv, RecordsOwn
<1>2. seen[h].revision > 1 /\ seen[h].revision <= Len(history)
  BY DEF AuditInv, RecordsOwn
<1>3. ASSUME NEW r \in 1..MaxRevision, Accounted(r) PROVE Accounted(r)'
  BY <1>3 DEF Accounted
<1>4. ASSUME NEW r \in 1..MaxRevision, r \in audit'
      PROVE  r > 1 /\ r <= Len(history)
  BY <1>2, <1>4, AuditedMeans DEF AuditInv
<1> QED
  BY <1>1, <1>3, <1>4, AuditedMeans, AuditedNext DEF AuditInv

LEMMA RecordAccounts ==
  ASSUME AuditInv, NEW h \in Handlers, Record(h)
  PROVE  RecordsOwn' /\ RevisionsAudited'
<1>1. TypeInv
  BY DEF AuditInv, WorkspaceInv
<1>2. /\ pc[h] = "record" /\ pc'[h] # "record"
      /\ \A g \in Handlers \ {h} : pc'[g] = pc[g] /\ seen'[g] = seen[g]
      /\ history' = history /\ failed' = failed
      /\ audit' = audit \cup {seen[h].revision}
  BY <1>1 DEF Record, GoTo, TypeInv, TypeOK
<1> QED
  BY <1>2, LeavesRecord

LEMMA FailAccounts ==
  ASSUME AuditInv, NEW h \in Handlers, Fail(h)
  PROVE  RecordsOwn' /\ RevisionsAudited'
<1>1. TypeInv
  BY DEF AuditInv, WorkspaceInv
<1>2. /\ pc'[h] # "record" /\ history' = history /\ audit' = audit
      /\ \A g \in Handlers \ {h} : pc'[g] = pc[g] /\ seen'[g] = seen[g]
      /\ failed' = failed \cup {r \in {seen[h].revision} : pc[h] = "record"}
  BY <1>1 DEF Fail, Raise, GoTo, tables, TypeInv, TypeOK
<1>3. CASE pc[h] = "record"
  BY <1>2, <1>3, LeavesRecord
<1>4. CASE pc[h] # "record"
  BY <1>2, <1>4, HandlerQuiet
<1> QED
  BY <1>3, <1>4

LEMMA StepAudit == AuditInv /\ [Next]_vars => AuditInv'
<1> SUFFICES ASSUME AuditInv, [Next]_vars PROVE AuditInv'
  OBVIOUS
<1>t. TypeInv /\ WorkspaceInv'
  BY StepWorkspaceInv DEF AuditInv, WorkspaceInv
<1>1. ASSUME NEW h \in Handlers, NEW c \in Clients, NEW kind, NEW layout,
             Receive(h, c, kind, layout)
      PROVE  RecordsOwn' /\ RevisionsAudited'
  <2>1. /\ pc[h] # "record" /\ pc'[h] # "record"
        /\ \A g \in Handlers \ {h} : pc'[g] = pc[g] /\ seen'[g] = seen[g]
        /\ UNCHANGED <<audit, failed, history>>
    BY <1>1, <1>t DEF Receive, tables, TypeInv, TypeOK
  <2> QED
    BY <2>1, HandlerQuiet
<1>2. ASSUME NEW h \in Handlers,
             RejectStale(h) \/ ReadRow(h) \/ ReadWidgets(h) \/ Respond(h)
      PROVE  RecordsOwn' /\ RevisionsAudited'
  <2>1. /\ pc[h] # "record" /\ pc'[h] # "record"
        /\ \A g \in Handlers \ {h} : pc'[g] = pc[g] /\ seen'[g] = seen[g]
        /\ UNCHANGED <<audit, failed, history>>
    BY <1>2, <1>t DEF RejectStale, Raise, ReadRow, ReadWidgets, Respond, Finish,
                      GoTo, tables, TypeInv, TypeOK
  <2> QED
    BY <2>1, HandlerQuiet
<1>3. ASSUME UNCHANGED <<tables, frames, history, failed>>
      PROVE  RecordsOwn' /\ RevisionsAudited'
  BY <1>3, AuditKept DEF tables, frames
<1>4. ASSUME NEW c \in Clients, NEW h \in Handlers, Mount(c, h) \/ Save(c, h)
      PROVE  RecordsOwn' /\ RevisionsAudited'
  BY <1>1, <1>4 DEF Mount, Save
<1>5. ASSUME NEW c \in Clients, \/ \E h \in Handlers : GiveUp(c, h)
                                \/ \E e \in Edits : Edit(c, e)
      PROVE  RecordsOwn' /\ RevisionsAudited'
  BY <1>3, <1>5 DEF GiveUp, Edit
<1>6. ASSUME UNCHANGED vars PROVE RecordsOwn' /\ RevisionsAudited'
  BY <1>3, <1>6 DEF vars
<1> QED
  BY <1>t, <1>2, <1>4, <1>5, <1>6, CommitAccounts, RecordAccounts, FailAccounts
     DEF Next, HandlerStep, AuditInv

LEMMA InitAudit == Init => AuditInv
<1> SUFFICES ASSUME Init PROVE AuditInv
  OBVIOUS
<1>1. WorkspaceInv
  BY InitWorkspaceInv
<1>2. Len(history) = 1 /\ audit = {} /\ \A h \in Handlers : pc[h] = "idle"
  BY DEF Init
<1>3. RecordsOwn
  BY <1>2 DEF RecordsOwn
<1>4. RevisionsAudited
  BY <1>2 DEF RevisionsAudited
<1> QED
  BY <1>1, <1>3, <1>4 DEF AuditInv

\* A revision that was saved is logged, or its handler failed between the commit
\* and the event sink, or has not come to it yet; nothing else is logged.
THEOREM SavesLogged == Spec => []RevisionsAudited
<1>1. AuditInv => RevisionsAudited
  BY DEF AuditInv
<1> QED BY <1>1, InitAudit, StepAudit, PTL DEF Spec

=============================================================================
