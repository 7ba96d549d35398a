----------------------------- MODULE Workspace -----------------------------
(***************************************************************************)
(* The shared Mission Control workspace: server/workspace/service.py and   *)
(* the web pages that load, edit and save it (index.html).                 *)
(*                                                                         *)
(* A layout is what its two tables hold, a theme and widgets; of each only *)
(* the edits that made it matter.  A step of a handler is one statement    *)
(* outside a transaction, or one transaction.  Resetting a layout to the   *)
(* defaults, which is meant to discard edits, is left out.                 *)
(***************************************************************************)
EXTENDS Integers, Sequences

CONSTANTS
  Clients,     \* open web pages
  Handlers,    \* concurrently running HTTP request handlers
  ThemeEdits,  \* changes users may make to a theme
  WidgetEdits, \* and to widgets
  MaxRevision, \* bound: revisions saved
  None

ASSUME WorkspaceAssumption ==
  /\ ThemeEdits \cap WidgetEdits = {}
  /\ None \notin Clients
  /\ MaxRevision \in Nat \ {0}

VARIABLES
  row,      \* the workspaces row: revision and theme
  widgets,  \* the workspace_widgets rows
  audit,    \* revisions the event sink has logged
  pc, job,  \* where each handler is, and the request it serves
  seen,     \* what the handler has read, as it will be sent
  local,    \* the layout each page shows, and the revision it is based on
  waiting,  \* handlers whose response each page awaits
  author,   \* history: who made each edit
  history,  \* history: the layout of each revision and who saved it
  failed    \* history: revisions whose handler failed after the commit

Edits == ThemeEdits \cup WidgetEdits

tables == <<row, widgets, audit>>
frames == <<pc, job, seen>>
pages == <<local, waiting, author>>
vars == <<tables, frames, pages, history, failed>>

NoLayout == [revision |-> 0, theme |-> {}, widgets |-> {}]

Init ==
  /\ row = [revision |-> 1, theme |-> {}]
  /\ widgets = {}
  /\ audit = {}
  /\ pc = [h \in Handlers |-> "idle"]
  /\ job = [h \in Handlers |-> None]
  /\ seen = [h \in Handlers |-> NoLayout]
  /\ local = [c \in Clients |-> NoLayout]
  /\ waiting = [c \in Clients |-> {}]
  /\ author = [e \in Edits |-> None]
  /\ history = <<[theme |-> {}, widgets |-> {}, by |-> None]>>
  /\ failed = {}

---------------------------------------------------------------------------
(* The pages.                                                              *)

Receive(h, c, kind, layout) ==
  /\ pc[h] = "idle"
  /\ pc' = [pc EXCEPT ![h] = IF kind = "save" THEN "commit" ELSE "read_row"]
  /\ job' = [job EXCEPT ![h] = [kind |-> kind, client |-> c, layout |-> layout]]
  /\ UNCHANGED <<tables, seen, history, failed>>

\* The page is opened or reloaded: it starts over from the defaults, forgets
\* what it was waiting for and loads the workspace.
Mount(c, h) ==
  /\ Receive(h, c, "load", NoLayout)
  /\ local' = [local EXCEPT ![c] = NoLayout]
  /\ waiting' = [waiting EXCEPT ![c] = {h}]
  /\ UNCHANGED author

Save(c, h) ==
  /\ \A g \in waiting[c] : job[g].kind # "save"
  /\ Receive(h, c, "save", local[c])
  /\ waiting' = [waiting EXCEPT ![c] = @ \cup {h}]
  /\ UNCHANGED <<local, author>>

Edit(c, e) ==
  /\ author[e] = None
  /\ author' = [author EXCEPT ![e] = c]
  /\ local' = [local EXCEPT ![c].theme = @ \cup ({e} \cap ThemeEdits),
                            ![c].widgets = @ \cup ({e} \cap WidgetEdits)]
  /\ UNCHANGED <<tables, frames, waiting, history, failed>>

\* requestJson aborts after its timeout; the handler runs on.
GiveUp(c, h) ==
  /\ h \in waiting[c]
  /\ waiting' = [waiting EXCEPT ![c] = @ \ {h}]
  /\ UNCHANGED <<tables, frames, local, author, history, failed>>

---------------------------------------------------------------------------
(* The handlers.                                                           *)

GoTo(h, label) == pc' = [pc EXCEPT ![h] = label]

\* Mutation: the revision is not compared.
CurrentAny(h) == row.revision >= job[h].layout.revision
Current(h) == row.revision = job[h].layout.revision

\* BEGIN IMMEDIATE to COMMIT of update_workspace.
Commit(h) ==
  LET layout == job[h].layout
  IN /\ pc[h] = "commit"
     /\ Current(h)
     /\ Len(history) < MaxRevision
     /\ row' = [revision |-> row.revision + 1, theme |-> layout.theme]
     /\ widgets' = layout.widgets
     /\ history' = Append(history, [theme |-> layout.theme,
                                    widgets |-> layout.widgets,
                                    by |-> job[h].client])
     /\ seen' = [seen EXCEPT ![h].revision = row.revision + 1]
     /\ GoTo(h, "record")
     /\ UNCHANGED <<audit, job, pages, failed>>

\* The handler raises; what it has read and was sent goes with it.
Raise(h) ==
  /\ GoTo(h, "rejected")
  /\ job' = [job EXCEPT ![h].layout = NoLayout]
  /\ seen' = [seen EXCEPT ![h] = NoLayout]

\* RevisionConflictError, a 409.
RejectStale(h) ==
  /\ pc[h] = "commit"
  /\ ~Current(h)
  /\ Raise(h)
  /\ UNCHANGED <<tables, pages, history, failed>>

\* Mutation: the event names the revision the request was based on.
RecordBase(h) ==
  /\ pc[h] = "record"
  /\ audit' = audit \cup {job[h].layout.revision}
  /\ GoTo(h, "read_row")
  /\ UNCHANGED <<row, widgets, job, seen, pages, history, failed>>

\* The event sink, in a transaction of its own.
Record(h) ==
  /\ pc[h] = "record"
  /\ audit' = audit \cup {seen[h].revision}
  /\ GoTo(h, "read_row")
  /\ UNCHANGED <<row, widgets, job, seen, pages, history, failed>>

\* _envelope selects the row, and then the widgets, outside a transaction.
ReadRow(h) ==
  /\ pc[h] = "read_row"
  /\ seen' = [seen EXCEPT ![h].revision = row.revision, ![h].theme = row.theme]
  /\ GoTo(h, "read_widgets")
  /\ UNCHANGED <<tables, job, pages, history, failed>>

\* Mutation: the revision is read after the layout.
ReadWidgetsAndRevision(h) ==
  /\ pc[h] = "read_widgets"
  /\ seen' = [seen EXCEPT ![h].widgets = widgets, ![h].revision = row.revision]
  /\ GoTo(h, "ready")
  /\ UNCHANGED <<tables, job, pages, history, failed>>

ReadWidgets(h) ==
  /\ pc[h] = "read_widgets"
  /\ seen' = [seen EXCEPT ![h].widgets = widgets]
  /\ GoTo(h, "ready")
  /\ UNCHANGED <<tables, job, pages, history, failed>>

\* A statement raises (a locked database) or the process dies.
Fail(h) ==
  /\ pc[h] \in {"commit", "record", "read_row", "read_widgets"}
  /\ Raise(h)
  /\ failed' = failed \cup {r \in {seen[h].revision} : pc[h] = "record"}
  /\ UNCHANGED <<tables, pages, history>>

\* The handler is done; its page awaits it no longer.
Finish(h) ==
  /\ pc[h] \in {"ready", "rejected"}
  /\ GoTo(h, "idle")
  /\ job' = [job EXCEPT ![h] = None]
  /\ seen' = [seen EXCEPT ![h] = NoLayout]
  /\ waiting' = [waiting EXCEPT ![job[h].client] = @ \ {h}]

Answered(h) == pc[h] = "ready" /\ h \in waiting[job[h].client]

\* Mutation: a page that is told of a conflict puts its layout under the newest
\* revision.
RespondRebasing(h) ==
  /\ Finish(h)
  /\ local' = [local EXCEPT ![job[h].client] =
       IF Answered(h) THEN seen[h]
       ELSE IF h \in waiting[job[h].client]
         THEN [@ EXCEPT !.revision = row.revision] ELSE @]
  /\ UNCHANGED <<tables, author, history, failed>>

\* The page shows the layout of a load or a save it still waits for.
Respond(h) ==
  /\ Finish(h)
  /\ local' = IF Answered(h) THEN [local EXCEPT ![job[h].client] = seen[h]]
              ELSE local
  /\ UNCHANGED <<tables, author, history, failed>>

HandlerStep(h) ==
  \/ Commit(h) \/ RejectStale(h) \/ Record(h)
  \/ ReadRow(h) \/ ReadWidgets(h) \/ Fail(h)

Next ==
  \/ \E c \in Clients :
       \/ \E h \in Handlers : Mount(c, h) \/ Save(c, h) \/ GiveUp(c, h)
       \/ \E e \in Edits : Edit(c, e)
  \/ \E h \in Handlers : HandlerStep(h) \/ Respond(h)

Spec == Init /\ [][Next]_vars

---------------------------------------------------------------------------
(* Properties.                                                             *)

Layout ==
  [revision : 0..MaxRevision, theme : SUBSET Edits, widgets : SUBSET Edits]

TypeOK ==
  /\ row \in [revision : 1..MaxRevision, theme : SUBSET Edits]
  /\ widgets \in SUBSET Edits
  /\ audit \subseteq 2..MaxRevision
  /\ pc \in [Handlers -> {"idle", "commit", "record", "read_row",
                           "read_widgets", "ready", "rejected"}]
  /\ job \in [Handlers -> [kind : {"load", "save"}, client : Clients,
                           layout : Layout] \cup {None}]
  /\ seen \in [Handlers -> Layout]
  /\ local \in [Clients -> Layout]
  /\ waiting \in [Clients -> SUBSET Handlers]
  /\ author \in [Edits -> Clients \cup {None}]
  /\ history \in Seq([theme : SUBSET Edits, widgets : SUBSET Edits,
                      by : Clients \cup {None}])
  /\ failed \subseteq 2..MaxRevision

Saved(r) == history[r].theme \cup history[r].widgets

\* "A conflicting edit from another client is not overwritten": whatever was
\* read in pieces, timed out, retried or failed half-way, a saved revision holds
\* every edit of the one before it.
NoLostUpdate ==
  \A r \in 1..Len(history) - 1 : Saved(r) \subseteq Saved(r + 1)

\* A response may mix two revisions, but never newer revision with older
\* content: an edit based on it conflicts rather than overwrites.
NeverOlderThanRevision ==
  \A h \in Handlers : pc[h] = "ready" =>
    /\ seen[h].theme = history[seen[h].revision].theme
    /\ \E r \in seen[h].revision..Len(history) :
         seen[h].widgets = history[r].widgets

\* A page that is told its layout was saved is shown that layout, and what was
\* saved since.
SavedIsShown ==
  \A h \in Handlers : pc[h] = "ready" /\ job[h].kind = "save" =>
    /\ job[h].layout.theme \subseteq seen[h].theme
    /\ job[h].layout.widgets \subseteq seen[h].widgets

\* Every revision is logged once its handler has gone on, unless it failed right
\* after the commit, and no revision is logged that was not saved.
RevisionsAudited ==
  \A r \in 1..MaxRevision :
    /\ r \in audit => r > 1 /\ r <= Len(history)
    /\ r > 1 /\ r <= Len(history) =>
         r \in audit \cup failed \cup
               {seen[h].revision : h \in {g \in Handlers : pc[g] = "record"}}

=============================================================================
