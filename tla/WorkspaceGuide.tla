--------------------------- MODULE WorkspaceGuide ---------------------------
(***************************************************************************)
(* Workspace with the configuration guide, whose proposals a page previews *)
(* and saves.  What the guide adds to the layout it read is left out.      *)
(***************************************************************************)
EXTENDS Workspace

CONSTANT Guides \* the pages whose user asks the guide

VARIABLE proposal \* what each customizer shows

InitGuide == Init /\ proposal = [c \in Clients |-> None]

Asking(c) == {h \in waiting[c] : job[h].kind = "guide"}

AskGuide(c, h) ==
  /\ c \in Guides
  /\ Asking(c) = {}
  /\ Receive(h, c, "guide", NoLayout)
  /\ waiting' = [waiting EXCEPT ![c] = @ \cup {h}]
  /\ UNCHANGED <<local, author, proposal>>

\* submitGuide shows the proposal, or the error instead.
RespondGuide(h) ==
  /\ Finish(h)
  /\ proposal' =
       IF h \in waiting[job[h].client]
         THEN [proposal EXCEPT ![job[h].client] =
                 IF Answered(h) THEN seen[h] ELSE None]
         ELSE proposal
  /\ UNCHANGED <<tables, local, author, history, failed>>

\* applyGuideProposal replaces theme and widgets and keeps the revision.
ApplyProposal(c) ==
  /\ proposal[c] # None
  /\ local' = [local EXCEPT ![c].theme = proposal[c].theme,
                            ![c].widgets = proposal[c].widgets]
  /\ UNCHANGED <<tables, frames, waiting, author, history, failed, proposal>>

\* The customizer is closed, by its user or after a save: the guide's answer is
\* forgotten, or will be.
CloseGuide(c) ==
  /\ c \in Guides
  /\ proposal' = [proposal EXCEPT ![c] = None]
  /\ waiting' = [waiting EXCEPT ![c] = @ \ Asking(c)]
  /\ UNCHANGED <<tables, frames, local, author, history, failed>>

\* The steps of Workspace; opening the page or a failed request of the guide
\* forgets the proposal.
PageStep(c) ==
  \/ \E h \in Handlers :
       \/ Mount(c, h) /\ proposal' = [proposal EXCEPT ![c] = None]
       \/ Save(c, h) /\ UNCHANGED proposal
       \/ GiveUp(c, h)
          /\ proposal' = [proposal EXCEPT ![c] = IF h \in Asking(c) THEN None ELSE @]
  \/ \E e \in Edits : Edit(c, e) /\ UNCHANGED proposal

NextGuide ==
  \/ \E c \in Clients :
       \/ PageStep(c) \/ ApplyProposal(c) \/ CloseGuide(c)
       \/ \E h \in Handlers : AskGuide(c, h)
  \/ \E h \in Handlers :
       \/ HandlerStep(h) /\ UNCHANGED proposal
       \/ /\ job[h] # None
          /\ IF job[h].kind = "guide" THEN RespondGuide(h)
             ELSE Respond(h) /\ UNCHANGED proposal

SpecGuide == InitGuide /\ [][NextGuide]_<<vars, proposal>>

\* docs/features/CUSTOMIZABLE_MISSION_CONTROL.md: "a conflicting edit from
\* another client is not overwritten".  A proposal may discard edits of the page
\* that applies it; nobody discards an edit of another client.
OthersEditsKept ==
  \A r \in 1..Len(history) - 1 : \A e \in Saved(r) \ Saved(r + 1) :
    author[e] = history[r + 1].by

=============================================================================
