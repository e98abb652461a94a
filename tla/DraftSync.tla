------------------------------ MODULE DraftSync ------------------------------
(***************************************************************************)
(* How the pages that edit one workflow keep its draft: useNodesSyncDraft, *)
(* useWorkflowRefreshDraft, the backup of useWorkflowRun, and              *)
(* WorkflowService.sync_draft_workflow.                                    *)
(*                                                                         *)
(* What a page or the draft holds is the set of the edits it contains,     *)
(* edits of the graph and edits of the features, and its hash is that set: *)
(* unique_hash covers both.  It leaves out the environment and             *)
(* conversation variables, and so does this module: a sync replaces them   *)
(* without a check.  A refresh replaces the graph of a page and its hash,  *)
(* and leaves its features.  Requests of a page overlap and end in any     *)
(* order; Flask answers each in a thread of its own.                       *)
(***************************************************************************)
EXTENDS Naturals, FiniteSets

CONSTANTS Pages,     \* browser tabs with the workflow open
          MaxEdits,  \* bound: edits
          MaxSyncs,  \* bound: requests that sync
          MaxFetches \* bound: requests that refresh

ASSUME BoundsAssumption ==
  MaxEdits \in Nat /\ MaxSyncs \in Nat /\ MaxFetches \in Nat

Edits == 1..MaxEdits
Graphs == SUBSET Edits
Causes == {"check raced", "refresh crossed", "backup restored",
           "features left", "lost"}

VARIABLES
  draft,     \* the graph and the features of the draft in the database
  canvas,    \* the graph and the features on each page
  hash,      \* syncWorkflowDraftHash: what the page thinks is the draft
  due,       \* debouncedSyncWorkflowDraft is to fire
  viewing,   \* a run or a version is shown: the page is read-only
  backup,    \* backupDraft, while viewing
  hidden,    \* the tab is in the background
  syncs,     \* POST requests that are open
  fetches,   \* GET requests that are open
  edits, syncsSent, fetchesSent,
  features,  \* the edits that are of the features
  undone,    \* history: edits some user has taken back
  causes     \* history: what went wrong so far

vars == <<draft, canvas, hash, due, viewing, backup, hidden, syncs, fetches,
          edits, syncsSent, fetchesSent, features, undone, causes>>

Sync == [no : 1..MaxSyncs, page : Pages, graph : Graphs, hash : Graphs,
         beacon : BOOLEAN, read : Graphs,
         st : {"sent", "checked", "written", "rejected", "answered"}]
Fetch == [no : 1..MaxFetches, page : Pages, served : BOOLEAN, graph : Graphs]

TypeOK ==
  /\ draft \in Graphs
  /\ canvas \in [Pages -> Graphs] /\ hash \in [Pages -> Graphs]
  /\ due \in [Pages -> BOOLEAN] /\ hidden \in [Pages -> BOOLEAN]
  /\ viewing \in [Pages -> BOOLEAN] /\ backup \in [Pages -> Graphs]
  /\ syncs \subseteq Sync /\ fetches \subseteq Fetch
  /\ edits \in 0..MaxEdits
  /\ syncsSent \in 0..MaxSyncs /\ fetchesSent \in 0..MaxFetches
  /\ features \subseteq Edits /\ undone \subseteq Edits
  /\ causes \subseteq Causes

(* The pages have loaded the draft, some in a tab in the background. *)
Init ==
  /\ draft = {}
  /\ canvas = [p \in Pages |-> {}] /\ hash = [p \in Pages |-> {}]
  /\ due = [p \in Pages |-> FALSE]
  /\ hidden \in [Pages -> BOOLEAN]
  /\ viewing = [p \in Pages |-> FALSE] /\ backup = [p \in Pages |-> {}]
  /\ syncs = {} /\ fetches = {}
  /\ edits = 0 /\ syncsSent = 0 /\ fetchesSent = 0
  /\ features = {} /\ undone = {} /\ causes = {}

pageVars == <<canvas, hash, due, viewing, backup, hidden>>
netVars == <<syncs, fetches, syncsSent, fetchesSent>>

-----------------------------------------------------------------------------
(* An edit of the graph or, by handleFeaturesChange, of the features       *)
(* changes the page and asks for a sync 5 s later.                         *)
Edit(p) ==
  /\ ~ viewing[p] /\ ~ hidden[p]
  /\ edits < MaxEdits /\ edits' = edits + 1
  /\ canvas' = [canvas EXCEPT ![p] = @ \cup {edits'}]
  /\ due' = [due EXCEPT ![p] = TRUE]
  /\ UNCHANGED <<draft, hash, viewing, backup, hidden, undone, causes>>
  /\ UNCHANGED netVars

Change(p) == Edit(p) /\ UNCHANGED features

ChangeFeatures(p) == Edit(p) /\ features' = features \cup {edits'}

(* handleHistoryBack shows an earlier graph, and handleHistoryForward the  *)
(* later one again; neither asks for a sync, nor sees the features.        *)
Undo(p, S) ==
  /\ ~ viewing[p] /\ ~ hidden[p]
  /\ S # {} /\ S \subseteq canvas[p] \ features
  /\ canvas' = [canvas EXCEPT ![p] = @ \ S]
  /\ undone' = undone \cup S
  /\ UNCHANGED <<draft, hash, due, viewing, backup, hidden, edits, features, causes>>
  /\ UNCHANGED netVars

Redo(p, S) ==
  /\ ~ viewing[p] /\ ~ hidden[p]
  /\ S # {} /\ S \subseteq (undone \ features) \ canvas[p]
  /\ canvas' = [canvas EXCEPT ![p] = @ \cup S]
  /\ UNCHANGED <<draft, hash, due, viewing, backup, hidden, edits, features, undone,
                 causes>>
  /\ UNCHANGED netVars

(* getPostParams: what a sync of page p sends now. *)
Post(p, graph, beacon) ==
  /\ syncsSent < MaxSyncs /\ syncsSent' = syncsSent + 1
  /\ syncs' = syncs \cup
       {[no |-> syncsSent', page |-> p, graph |-> graph, hash |-> hash[p],
         beacon |-> beacon, read |-> {}, st |-> "sent"]}
  /\ UNCHANGED <<fetches, fetchesSent>>

\* Mutant of DebounceFires: while a sync is open the call does nothing.
DebounceFires_OneAtATime(p) ==
  /\ due[p] /\ due' = [due EXCEPT ![p] = FALSE]
  /\ IF viewing[p] \/ \E r \in syncs : r.page = p THEN UNCHANGED netVars
     ELSE Post(p, canvas[p], FALSE)
  /\ UNCHANGED <<draft, canvas, hash, viewing, backup, hidden, edits, features, undone,
                 causes>>

(* The debounced call; it is forgotten when the page is read-only by then. *)
DebounceFires(p) ==
  /\ due[p] /\ due' = [due EXCEPT ![p] = FALSE]
  /\ IF viewing[p] THEN UNCHANGED netVars ELSE Post(p, canvas[p], FALSE)
  /\ UNCHANGED <<draft, canvas, hash, viewing, backup, hidden, edits, features, undone,
                 causes>>

(* A sync that does not wait: before a run, on "publish", on closing a     *)
(* panel.                                                                  *)
SyncNow(p) ==
  /\ ~ viewing[p] /\ ~ hidden[p]
  /\ Post(p, canvas[p], FALSE)
  /\ UNCHANGED <<draft, edits, features, undone, causes>> /\ UNCHANGED pageVars

(* syncWorkflowDraftWhenPageClose: the answer to a beacon is not seen. *)
Hide(p) ==
  /\ ~ hidden[p] /\ hidden' = [hidden EXCEPT ![p] = TRUE]
  /\ IF viewing[p] THEN UNCHANGED netVars ELSE Post(p, canvas[p], TRUE)
  /\ UNCHANGED <<draft, canvas, hash, due, viewing, backup, edits, features, undone,
                 causes>>

(* handleRefreshWorkflowDraft. *)
AskFor(p) ==
  /\ fetchesSent < MaxFetches /\ fetchesSent' = fetchesSent + 1
  /\ fetches' = fetches \cup
       {[no |-> fetchesSent', page |-> p, served |-> FALSE, graph |-> {}]}

Show(p) ==
  /\ hidden[p] /\ hidden' = [hidden EXCEPT ![p] = FALSE]
  /\ AskFor(p)
  /\ UNCHANGED <<draft, canvas, hash, due, viewing, backup, syncs, edits, features,
                 syncsSent, undone, causes>>

-----------------------------------------------------------------------------
\* Mutant of View: one backup for all pages.
View_OneBackup(p) ==
  /\ ~ viewing[p] /\ ~ hidden[p]
  /\ viewing' = [viewing EXCEPT ![p] = TRUE]
  /\ backup' = [q \in {p} |-> canvas[p]]
  /\ Post(p, canvas[p], FALSE)
  /\ UNCHANGED <<draft, canvas, hash, due, hidden, edits, features, undone, causes>>

(* handleBackupDraft keeps the canvas and syncs it, then something else is *)
(* shown; handleLoadBackupDraft brings it back.                            *)
View(p) ==
  /\ ~ viewing[p] /\ ~ hidden[p]
  /\ viewing' = [viewing EXCEPT ![p] = TRUE]
  /\ backup' = [backup EXCEPT ![p] = canvas[p]]
  /\ Post(p, canvas[p], FALSE)
  /\ UNCHANGED <<draft, canvas, hash, due, hidden, edits, features, undone, causes>>

LoadBackup(p) ==
  /\ viewing[p] /\ ~ hidden[p]
  /\ viewing' = [viewing EXCEPT ![p] = FALSE]
  /\ canvas' = [canvas EXCEPT ![p] = backup[p]]
  /\ backup' = [backup EXCEPT ![p] = {}]
  /\ UNCHANGED <<draft, hash, due, hidden, edits, features, undone, causes>>
  /\ UNCHANGED netVars

(* handleRestore: the version that is shown takes the place of the draft;  *)
(* what it has not is taken back.                                          *)
Restore(p, graph) ==
  /\ viewing[p] /\ ~ hidden[p]
  /\ graph \subseteq canvas[p] \cup backup[p]
  /\ viewing' = [viewing EXCEPT ![p] = FALSE]
  /\ canvas' = [canvas EXCEPT ![p] = graph]
  /\ backup' = [backup EXCEPT ![p] = {}]
  /\ undone' = undone \cup ((canvas[p] \cup backup[p] \cup hash[p]) \ graph)
  /\ Post(p, graph, FALSE)
  /\ UNCHANGED <<draft, hash, due, hidden, edits, features, causes>>

-----------------------------------------------------------------------------
Becomes(r, s) == syncs' = (syncs \ {r}) \cup {s}
serverVars == <<canvas, hash, due, viewing, backup, hidden, fetches, edits, features,
                syncsSent, fetchesSent, undone>>

\* Mutant of Check: the hashes are not compared.
Check_AcceptsAll(r) ==
  /\ r \in syncs /\ r.st = "sent"
  /\ Becomes(r, [r EXCEPT !.st = "checked", !.read = draft])
  /\ UNCHANGED <<draft, causes>> /\ UNCHANGED serverVars

(* sync_draft_workflow compares the hash with the draft it has read ...    *)
Check(r) ==
  /\ r \in syncs /\ r.st = "sent"
  /\ IF r.hash = draft
     THEN Becomes(r, [r EXCEPT !.st = "checked", !.read = draft])
     ELSE syncs' = (syncs \ {r}) \cup
            IF r.beacon THEN {} ELSE {[r EXCEPT !.st = "rejected"]}
  /\ UNCHANGED <<draft, causes>> /\ UNCHANGED serverVars

(* ... and writes, without a lock, when it commits. *)
Write(r) ==
  /\ r \in syncs /\ r.st = "checked"
  /\ draft' = r.graph
  /\ causes' = causes \cup IF draft # r.read THEN {"check raced"} ELSE {}
  /\ syncs' = (syncs \ {r}) \cup
       IF r.beacon THEN {} ELSE {[r EXCEPT !.st = "written"]}
  /\ UNCHANGED serverVars

(* The hash in the answer is read again after the commit. *)
Answer(r) ==
  /\ r \in syncs /\ r.st = "written"
  /\ Becomes(r, [r EXCEPT !.st = "answered", !.read = draft])
  /\ causes' = causes \cup IF draft # r.graph THEN {"check raced"} ELSE {}
  /\ UNCHANGED draft /\ UNCHANGED serverVars

(* A refresh reads the draft. *)
Serve(f) ==
  /\ f \in fetches /\ ~ f.served
  /\ fetches' = (fetches \ {f}) \cup
                {[f EXCEPT !.served = TRUE, !.graph = draft]}
  /\ UNCHANGED <<draft, syncs, edits, features, syncsSent, fetchesSent, undone, causes>>
  /\ UNCHANGED pageVars

-----------------------------------------------------------------------------
(* The answer arrives: setSyncWorkflowDraftHash. *)
Synced(r) ==
  /\ r \in syncs /\ r.st = "answered"
  /\ hash' = [hash EXCEPT ![r.page] = r.read]
  /\ syncs' = syncs \ {r}
  /\ UNCHANGED <<draft, canvas, due, viewing, backup, hidden, fetches, edits, features,
                 syncsSent, fetchesSent, undone, causes>>

(* draft_workflow_not_sync arrives: the page refreshes. *)
Refused(r) ==
  /\ r \in syncs /\ r.st = "rejected"
  /\ syncs' = syncs \ {r}
  /\ AskFor(r.page)
  /\ UNCHANGED <<draft, edits, features, syncsSent, undone, causes>>
  /\ UNCHANGED pageVars

(* What the page edits, or will edit again. *)
Kept(p) == IF viewing[p] THEN backup[p] ELSE canvas[p]

OpenSync(p) == \E r \in syncs : /\ r.page = p /\ ~ r.beacon
                                /\ r.st \in {"sent", "checked"}

(* What a refresh of a page makes go wrong. *)
RefreshCauses(f) ==
  {c \in Causes :
     \/ c = "backup restored" /\ viewing[f.page]
     \/ c = "refresh crossed" /\ (f.graph # draft \/ OpenSync(f.page))
     \/ c = "features left"
        /\ f.graph \cap features # Kept(f.page) \cap features}

\* Mutant of Refreshed: the new hash is kept, the graph is left alone.
Refreshed_HashOnly(f) ==
  LET p == f.page
  IN /\ f \in fetches /\ f.served
     /\ hash' = [hash EXCEPT ![p] = f.graph]
     /\ fetches' = fetches \ {f}
     /\ causes' = causes \cup RefreshCauses(f)
     /\ UNCHANGED <<draft, canvas, due, viewing, backup, hidden, syncs, edits,
                    features, syncsSent, fetchesSent, undone>>

(* The graph of the draft takes the place of the page's, whatever has been *)
(* done meanwhile, and also while something else is shown; the hash is of  *)
(* the graph and the features, but the page's features stay what they are. *)
Refreshed(f) ==
  LET p == f.page
  IN /\ f \in fetches /\ f.served
     /\ canvas' = [canvas EXCEPT ![p] = (f.graph \ features)
                                       \cup (@ \cap features)]
     /\ hash' = [hash EXCEPT ![p] = f.graph]
     /\ fetches' = fetches \ {f}
     /\ causes' = causes \cup RefreshCauses(f)
     /\ UNCHANGED <<draft, due, viewing, backup, hidden, syncs, edits,
                    features, syncsSent, fetchesSent, undone>>

(* A request fails on the way there or back; nothing sends it again. *)
LoseSync(r) ==
  /\ r \in syncs /\ r.st # "checked" /\ syncs' = syncs \ {r}
  /\ causes' = causes \cup {"lost"}
  /\ UNCHANGED draft /\ UNCHANGED serverVars

LoseFetch(f) ==
  /\ f \in fetches /\ fetches' = fetches \ {f}
  /\ causes' = causes \cup {"lost"}
  /\ UNCHANGED <<draft, syncs, edits, syncsSent, fetchesSent, features, undone>>
  /\ UNCHANGED pageVars

Next ==
  \/ \E p \in Pages :
       \/ Change(p) \/ ChangeFeatures(p) \/ DebounceFires(p) \/ SyncNow(p)
       \/ Hide(p) \/ Show(p) \/ View(p) \/ LoadBackup(p)
       \/ \E S \in SUBSET Edits : Undo(p, S) \/ Redo(p, S) \/ Restore(p, S)
  \/ \E r \in syncs : \/ Check(r) \/ Write(r) \/ Answer(r)
                      \/ Synced(r) \/ Refused(r) \/ LoseSync(r)
  \/ \E f \in fetches : Serve(f) \/ Refreshed(f) \/ LoseFetch(f)

Spec == Init /\ [][Next]_vars

-----------------------------------------------------------------------------
(* The ways in which the draft, or what a page believes of it, goes wrong. *)
Excused ==
  causes \cap {"check raced", "refresh crossed", "backup restored"} # {}

(* The edits of which nothing is promised: those that a user took back     *)
(* and, once a refresh has left a page with other features than the        *)
(* draft's, those of the features.                                         *)
FeaturesLeft == IF "features left" \in causes THEN features ELSE {}
Gone == undone \cup FeaturesLeft

(* What the hash is for: an edit that is in the draft is lost only when a  *)
(* user takes it back - unless two requests raced in the server between    *)
(* the check and the answer, a refresh crossed a sync or a commit, or one  *)
(* came while a page was viewing and the older backup was brought back.    *)
(* The hash does not protect the features in this way once a refresh came  *)
(* to a page whose features were not the draft's, but still the graph.     *)
NoLostUpdate ==
  [][Excused' \/ draft \ Gone \subseteq draft']_vars

(* The hash a page sends with its next sync is of a graph, and while no    *)
(* refresh has left other features of features, that the page has: it      *)
(* claims to have seen nothing that it would overwrite.                    *)
HashIsSeen ==
  \/ Excused
  \/ \A p \in Pages : hash[p] \ Gone \subseteq Kept(p)

(* A page that is at rest shows nothing that is not in the draft: every    *)
(* edit was synced or has visibly gone, by a refresh after a refused sync. *)
(* An edit of the features that was refused stays on the page, and makes   *)
(* this say no more of the features.                                       *)
AtRest(p) == /\ ~ due[p] /\ ~ viewing[p]
             /\ \A r \in syncs : r.page # p
             /\ \A f \in fetches : f.page # p
RestIsSaved ==
  \/ causes \ {"features left"} # {} \/ undone # {}
  \/ \A p \in Pages : AtRest(p) => canvas[p] \ FeaturesLeft \subseteq draft
=============================================================================
