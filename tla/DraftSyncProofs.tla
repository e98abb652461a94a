--------------------------- MODULE DraftSyncProofs ---------------------------
(* What is proved of DraftSync for any pages and bounds: its types, that a *)
(* page never claims to have seen an edit it would overwrite, that no      *)
(* update is lost, and that a page at rest is saved.  The graph is proved  *)
(* safe but for the three races Excused names; the features only until a   *)
(* refresh has left a page with other features than the draft's.           *)
EXTENDS DraftSync, TLAPS

(* Of what a request carries, and what its page and the draft have, while  *)
(* nothing has gone wrong: the hash is of something the sent graph         *)
(* includes; what was sent, and what is answered, the page still has; what *)
(* is written is in the draft.                                             *)
Sound(r) ==
  /\ r.st \in {"sent", "checked"} => r.hash \ Gone \subseteq r.graph
  /\ ~ r.beacon /\ r.st \in {"sent", "checked", "written"} =>
       r.graph \ Gone \subseteq Kept(r.page)
  /\ r.st = "written" => r.graph \ Gone \subseteq draft
  /\ r.st = "answered" => /\ r.read \ Gone \subseteq Kept(r.page)
                          /\ r.read \ Gone \subseteq draft
SyncInv(r) == /\ r.st = "checked" => r.read = r.hash
              /\ r.beacon => r.st \in {"sent", "checked"}
SyncsInv == /\ \A r \in syncs : SyncInv(r)
            /\ Excused \/ \A r \in syncs : Sound(r)
IInv == TypeOK /\ HashIsSeen /\ SyncsInv

(* How an edit that is not in the draft gets there, or goes: the debounced *)
(* call is to fire, a sync that has it is open, or a refusal or a refresh  *)
(* is on its way.                                                          *)
Underway(p, r) == /\ r.page = p
                  /\ \/ /\ r.st \in {"sent", "checked"} /\ ~ r.beacon
                        /\ Kept(p) \ FeaturesLeft \subseteq r.graph
                     \/ r.st = "rejected"
SavedInv == \/ causes \ {"features left"} # {} \/ undone # {}
            \/ \A p \in Pages : \/ Kept(p) \ FeaturesLeft \subseteq draft
                                \/ due[p] /\ ~ viewing[p]
                                \/ \E r \in syncs : Underway(p, r)
                                \/ \E f \in fetches : f.page = p

(* Every step keeps the types of the state. *)
LEMMA TypeStep == TypeOK /\ [Next]_vars => TypeOK'
<1> SUFFICES ASSUME TypeOK, [Next]_vars PROVE TypeOK'
  OBVIOUS
<1> USE BoundsAssumption DEF TypeOK
<1>1. ASSUME NEW p \in Pages, Change(p) \/ ChangeFeatures(p) PROVE TypeOK'
  <2>1. edits' \in 0..MaxEdits /\ edits' \in Edits
    BY <1>1 DEF Change, ChangeFeatures, Edit, Edits
  <2>2. canvas' \in [Pages -> Graphs] /\ due' \in [Pages -> BOOLEAN] /\ features' \subseteq Edits
    <3>1. /\ canvas' = [canvas EXCEPT ![p] = canvas[p] \cup {edits'}]
          /\ due' = [due EXCEPT ![p] = TRUE]
          /\ features' = features \/ features' = features \cup {edits'}
      BY <1>1 DEF Change, ChangeFeatures, Edit
    <3>2. canvas[p] \cup {edits'} \in Graphs
      BY <2>1 DEF Graphs
    <3>3. canvas \in [Pages -> Graphs] /\ due \in [Pages -> BOOLEAN] /\ features \subseteq Edits
      OBVIOUS
    <3> QED
      BY <2>1, <3>1, <3>2, <3>3
  <2> QED
    BY <1>1, <2>1, <2>2 DEF Change, ChangeFeatures, Edit, netVars
<1>2. ASSUME NEW p \in Pages, NEW S \in SUBSET Edits, Undo(p, S) PROVE TypeOK'
  BY <1>2 DEF Undo, netVars, Graphs
<1>3. ASSUME NEW p \in Pages, NEW S \in SUBSET Edits, Redo(p, S) PROVE TypeOK'
  BY <1>3 DEF Redo, netVars, Graphs
<1>4. ASSUME NEW p \in Pages, NEW g \in Graphs, NEW b \in BOOLEAN, Post(p, g, b)
      PROVE /\ syncs' \subseteq Sync /\ syncsSent' \in 0..MaxSyncs
            /\ fetches' = fetches /\ fetchesSent' = fetchesSent
  BY <1>4 DEF Post, Sync, Graphs
<1>5. ASSUME NEW p \in Pages, DebounceFires(p) PROVE TypeOK'
  BY <1>5, <1>4 DEF DebounceFires, netVars
<1>6. ASSUME NEW p \in Pages, SyncNow(p) PROVE TypeOK'
  BY <1>6, <1>4 DEF SyncNow, pageVars
<1>7. ASSUME NEW p \in Pages, Hide(p) PROVE TypeOK'
  BY <1>7, <1>4 DEF Hide, netVars
<1>8. ASSUME NEW p \in Pages, AskFor(p)
      PROVE fetches' \subseteq Fetch /\ fetchesSent' \in 0..MaxFetches
  <2> DEFINE f == [no |-> fetchesSent', page |-> p, served |-> FALSE, graph |-> {}]
  <2>1. fetchesSent' \in 1..MaxFetches
    BY <1>8 DEF AskFor
  <2>2. f \in Fetch
    BY <2>1 DEF Fetch, Graphs
  <2>3. fetches' = fetches \cup {f}
    BY <1>8 DEF AskFor
  <2> HIDE DEF f
  <2>4. fetches' \subseteq Fetch
    BY <2>2, <2>3
  <2> QED
    BY <2>1, <2>4
<1>9. ASSUME NEW p \in Pages, Show(p) PROVE TypeOK'
  BY <1>9, <1>8 DEF Show
<1>10. ASSUME NEW p \in Pages, View(p) PROVE TypeOK'
  BY <1>10, <1>4 DEF View
<1>11. ASSUME NEW p \in Pages, LoadBackup(p) PROVE TypeOK'
  BY <1>11 DEF LoadBackup, netVars, Graphs
<1>12. ASSUME NEW p \in Pages, NEW S \in SUBSET Edits, Restore(p, S)
       PROVE TypeOK'
  BY <1>12, <1>4 DEF Restore, Graphs
<1>13. ASSUME NEW r \in syncs, Check(r) PROVE TypeOK'
  <2>1. r \in Sync
    OBVIOUS
  <2>2. [r EXCEPT !.st = "checked", !.read = draft] \in Sync
    BY <2>1 DEF Sync
  <2>3. [r EXCEPT !.st = "rejected"] \in Sync
    BY <2>1 DEF Sync
  <2>4. syncs' \subseteq Sync
    BY <1>13, <2>2, <2>3 DEF Check, Becomes
  <2> QED
    BY <1>13, <2>4 DEF Check, serverVars
<1>14. ASSUME NEW r \in syncs, Write(r) PROVE TypeOK'
  BY <1>14 DEF Write, serverVars, Sync, Causes
<1>15. ASSUME NEW r \in syncs, Answer(r) PROVE TypeOK'
  BY <1>15 DEF Answer, Becomes, serverVars, Sync, Causes
<1>16. ASSUME NEW r \in syncs, Synced(r) PROVE TypeOK'
  BY <1>16 DEF Synced, Sync
<1>17. ASSUME NEW r \in syncs, Refused(r) PROVE TypeOK'
  <2>1. r.page \in Pages
    BY DEF Sync
  <2> QED
    BY <1>17, <1>8, <2>1 DEF Refused, pageVars
<1>18. ASSUME NEW r \in syncs, LoseSync(r) PROVE TypeOK'
  BY <1>18 DEF LoseSync, serverVars, Causes
<1>19. ASSUME NEW f \in fetches, Serve(f) PROVE TypeOK'
  BY <1>19 DEF Serve, pageVars, Fetch
<1>20. ASSUME NEW f \in fetches, Refreshed(f) PROVE TypeOK'
  <2>1. RefreshCauses(f) \subseteq Causes
    BY DEF RefreshCauses
  <2>2. f.page \in Pages /\ f.graph \in Graphs
    BY DEF Fetch
  <2>3. (f.graph \ features) \cup (canvas[f.page] \cap features) \in Graphs
    BY <2>2 DEF Graphs
  <2> QED
    BY <1>20, <2>1, <2>2, <2>3 DEF Refreshed
<1>21. ASSUME NEW f \in fetches, LoseFetch(f) PROVE TypeOK'
  BY <1>21 DEF LoseFetch, pageVars, Causes
<1>22. CASE UNCHANGED vars
  BY <1>22 DEF vars
<1> QED
  BY <1>1, <1>2, <1>3, <1>5, <1>6, <1>7, <1>9, <1>10, <1>11, <1>12, <1>13,
     <1>14, <1>15, <1>16, <1>17, <1>18, <1>19, <1>20, <1>21, <1>22 DEF Next

(* A step that leaves every page what it keeps, but for what is taken      *)
(* back, and the draft too, leaves the hashes and the requests sound.      *)
Keeps == /\ Gone \subseteq Gone' /\ draft \ Gone \subseteq draft'
         /\ \A p \in Pages : Kept(p) \ Gone' \subseteq Kept(p)'

LEMMA KeepsHashes ==
  ASSUME TypeOK, Keeps, HashIsSeen, ~ Excused, hash' = hash
  PROVE  HashIsSeen'
BY DEF Keeps, HashIsSeen

LEMMA KeepsSyncs ==
  ASSUME TypeOK, Keeps, NEW r \in syncs, Sound(r)
  PROVE  Sound(r)'
<1>1. r.page \in Pages
  BY DEF TypeOK, Sync
<1> HIDE DEF Kept
<1> QED
  BY <1>1 DEF Keeps, Sound

(* A check leaves the hash it has compared, and the answer to a beacon is  *)
(* not seen, whatever went wrong.                                          *)
LEMMA SyncInvStep ==
  ASSUME TypeOK, Next, \A r \in syncs : SyncInv(r)
  PROVE  \A r \in syncs' : SyncInv(r)'
<1>1. \A r \in syncs : SyncInv(r)'
  BY DEF SyncInv
<1>2. ASSUME NEW p \in Pages, NEW g, NEW b, Post(p, g, b)
      PROVE  \A r \in syncs' : r \in syncs \/ r.st = "sent"
  BY <1>2 DEF Post
<1>3. ASSUME NEW r \in syncs, NEW s,
             \/ s = [r EXCEPT !.st = "rejected"] /\ ~ r.beacon
             \/ s = [r EXCEPT !.st = "checked", !.read = draft] /\ r.hash = draft
             \/ s = [r EXCEPT !.st = "written"] /\ ~ r.beacon
             \/ s = [r EXCEPT !.st = "answered", !.read = draft] /\ ~ r.beacon
      PROVE  SyncInv(s)
  <2>1. r \in Sync
    BY DEF TypeOK
  <2> QED
    BY <1>3, <2>1 DEF SyncInv, Sync
<1>4. ASSUME NEW r \in syncs, Check(r) \/ Write(r) \/ Answer(r)
      PROVE  \A s \in syncs' : s \in syncs \/ SyncInv(s)
  <2>1. CASE Check(r)
    <3>1. \A s \in syncs' :
            \/ s \in syncs
            \/ s = [r EXCEPT !.st = "checked", !.read = draft] /\ r.hash = draft
            \/ s = [r EXCEPT !.st = "rejected"] /\ ~ r.beacon
      <4> PICK a : a = [r EXCEPT !.st = "checked", !.read = draft]
        OBVIOUS
      <4> PICK b : b = [r EXCEPT !.st = "rejected"]
        OBVIOUS
      <4>1. \/ r.hash = draft /\ syncs' = (syncs \ {r}) \cup {a}
            \/ ~ r.beacon /\ syncs' = (syncs \ {r}) \cup {b}
            \/ syncs' = syncs \ {r}
        <5>1. CASE r.hash = draft
          BY <2>1, <5>1 DEF Check, Becomes
        <5>2. CASE r.hash # draft
          BY <2>1, <5>2 DEF Check
        <5> QED
          BY <5>1, <5>2
      <4> QED
        BY <4>1
    <3> QED
      BY <1>3, <3>1
  <2>2. CASE Write(r)
    <3>1. \A s \in syncs' : \/ s \in syncs
                            \/ s = [r EXCEPT !.st = "written"] /\ ~ r.beacon
      BY <2>2 DEF Write
    <3> QED
      BY <1>3, <3>1
  <2>3. CASE Answer(r)
    <3>1. ~ r.beacon
      BY <2>3 DEF Answer, SyncInv
    <3>2. \A s \in syncs' :
            \/ s \in syncs
            \/ s = [r EXCEPT !.st = "answered", !.read = draft]
      BY <2>3 DEF Answer, Becomes
    <3> QED
      BY <1>3, <3>1, <3>2
  <2> QED
    BY <1>4, <2>1, <2>2, <2>3
<1>5. ASSUME NEW p \in Pages,
             \/ DebounceFires(p) \/ SyncNow(p) \/ Hide(p) \/ View(p)
             \/ \E S \in SUBSET Edits : Restore(p, S)
      PROVE  \A r \in syncs' : r \in syncs \/ r.st = "sent"
  <2>1. syncs' = syncs \/ \E g, b : Post(p, g, b)
    BY <1>5 DEF DebounceFires, SyncNow, Hide, View, Restore, netVars
  <2> QED
    BY <1>2, <2>1
<1>6. \/ syncs' \subseteq syncs
      \/ \E p \in Pages : \/ DebounceFires(p) \/ SyncNow(p) \/ Hide(p) \/ View(p)
                          \/ \E S \in SUBSET Edits : Restore(p, S)
      \/ \E r \in syncs : Check(r) \/ Write(r) \/ Answer(r)
  BY DEF Next, Change, ChangeFeatures, Edit, Undo, Redo, Show, LoadBackup, Synced,
         Refused, LoseSync, Serve, Refreshed, LoseFetch, netVars
<1>7. \A r \in syncs' : r \in syncs \/ r.st = "sent" \/ SyncInv(r)
  BY <1>4, <1>5, <1>6
<1> QED
  BY <1>1, <1>7 DEF SyncInv

(* While nothing has gone wrong, no step takes an edit out of the draft or *)
(* makes a page claim one it has not.                                      *)
LEMMA SoundStep ==
  ASSUME IInv, Next, ~ Excused'
  PROVE  draft \ Gone \subseteq draft' /\ HashIsSeen' /\ SyncsInv'
<1> USE DEF IInv
<1>1. ~ Excused /\ causes \subseteq causes' /\ features \subseteq features'
  BY DEF Next, Excused, Change, ChangeFeatures, Edit, Undo, Redo, DebounceFires, SyncNow, Hide, Show,
     View, LoadBackup, Restore, Check, Write, Answer, Synced, Refused, LoseSync,
     Serve, Refreshed, LoseFetch, netVars, pageVars, serverVars
<1>0. Gone \subseteq Gone' /\ undone \subseteq Gone /\ undone' \subseteq Gone'
  <2>1. undone \subseteq undone'
    BY DEF Next, Change, ChangeFeatures, Edit, Undo, Redo, DebounceFires, SyncNow, Hide,
       Show, View, LoadBackup, Restore, Check, Write, Answer, Synced, Refused, LoseSync,
       Serve, Refreshed, LoseFetch, serverVars
  <2> QED
    BY <1>1, <2>1 DEF Gone, FeaturesLeft
<1>2. /\ HashIsSeen /\ \A r \in syncs : Sound(r) /\ SyncInv(r)
      /\ \A p \in Pages : hash[p] \ Gone \subseteq Kept(p)
  BY <1>1 DEF SyncsInv, HashIsSeen
<1>3. SUFFICES draft \ Gone \subseteq draft' /\ HashIsSeen'
               /\ \A r \in syncs' : (Sound(r) /\ SyncInv(r))'
  BY DEF SyncsInv
<1>4. ASSUME Keeps, hash' = hash,
             \A r \in syncs' : r \in syncs \/ (Sound(r) /\ SyncInv(r))'
      PROVE  draft \ Gone \subseteq draft' /\ HashIsSeen'
             /\ \A r \in syncs' : (Sound(r) /\ SyncInv(r))'
  <2>1. \A r \in syncs : SyncInv(r)'
    BY <1>2 DEF SyncInv
  <2> QED
    BY <1>1, <1>2, <1>4, <2>1, KeepsHashes, KeepsSyncs DEF Keeps
<1> USE DEF TypeOK
<1>5. ASSUME NEW p \in Pages, NEW g \in Graphs, NEW b \in BOOLEAN, Post(p, g, b),
             hash' = hash, Gone \subseteq Gone', hash[p] \ Gone' \subseteq g,
             g \subseteq Kept(p)'
      PROVE  \A r \in syncs' : r \in syncs \/ (Sound(r) /\ SyncInv(r))'
  BY <1>5 DEF Post, Sound, SyncInv
<1>6. ASSUME NEW p \in Pages, Change(p) \/ ChangeFeatures(p)
      PROVE Keeps /\ hash' = hash /\ syncs' = syncs
  BY <1>0, <1>6 DEF Change, ChangeFeatures, Edit, Keeps, Kept, netVars
<1>7. ASSUME NEW p \in Pages, NEW S \in SUBSET Edits, Undo(p, S)
      PROVE Keeps /\ hash' = hash /\ syncs' = syncs
  BY <1>0, <1>7 DEF Undo, Keeps, Kept, netVars
<1>8. ASSUME NEW p \in Pages, NEW S \in SUBSET Edits, Redo(p, S)
      PROVE Keeps /\ hash' = hash /\ syncs' = syncs
  BY <1>0, <1>8 DEF Redo, Keeps, Kept, netVars
<1>9. ASSUME NEW p \in Pages, DebounceFires(p) \/ SyncNow(p) \/ Hide(p)
      PROVE  Keeps /\ hash' = hash
             /\ \A r \in syncs' : r \in syncs \/ (Sound(r) /\ SyncInv(r))'
  <2>1. Keeps /\ hash' = hash
    BY <1>0, <1>9 DEF DebounceFires, SyncNow, Hide, Keeps, Kept, pageVars
  <2>2. CASE viewing[p]
    BY <1>9, <2>1, <2>2 DEF DebounceFires, SyncNow, Hide, netVars
  <2>3. CASE ~ viewing[p]
    <3>1. Kept(p) = canvas[p] /\ Kept(p)' = canvas[p] /\ canvas[p] \in Graphs
      BY <1>9, <2>3 DEF DebounceFires, SyncNow, Hide, Kept, pageVars
    <3>2. \E b \in BOOLEAN : Post(p, canvas[p], b)
      BY <1>9, <2>3 DEF DebounceFires, SyncNow, Hide
    <3>3. hash[p] \ Gone' \subseteq canvas[p]
      BY <1>0, <1>2, <3>1
    <3> QED
      BY <1>0, <1>5, <2>1, <3>1, <3>2, <3>3
  <2> QED
    BY <2>2, <2>3
<1>10. ASSUME NEW p \in Pages, Show(p)
       PROVE Keeps /\ hash' = hash /\ syncs' = syncs
  BY <1>0, <1>10 DEF Show, Keeps, Kept
<1>11. ASSUME NEW p \in Pages, View(p)
       PROVE  Keeps /\ hash' = hash
              /\ \A r \in syncs' : r \in syncs \/ (Sound(r) /\ SyncInv(r))'
  <2>1. Keeps /\ hash' = hash
    BY <1>0, <1>11 DEF View, Keeps, Kept
  <2>2. Kept(p) = canvas[p] /\ Kept(p)' = canvas[p] /\ canvas[p] \in Graphs
    BY <1>11 DEF View, Kept
  <2>3. Post(p, canvas[p], FALSE)
    BY <1>11 DEF View
  <2>4. hash[p] \ Gone' \subseteq canvas[p]
    BY <1>0, <1>2, <2>2
  <2> QED
    BY <1>0, <1>5, <2>1, <2>2, <2>3, <2>4
<1>12. ASSUME NEW p \in Pages, LoadBackup(p)
       PROVE Keeps /\ hash' = hash /\ syncs' = syncs
  BY <1>0, <1>12 DEF LoadBackup, Keeps, Kept, netVars
<1>13. ASSUME NEW p \in Pages, NEW S \in SUBSET Edits, Restore(p, S)
       PROVE  Keeps /\ hash' = hash
              /\ \A r \in syncs' : r \in syncs \/ (Sound(r) /\ SyncInv(r))'
  <2>1. Keeps /\ hash' = hash /\ Kept(p)' = S
    BY <1>0, <1>13 DEF Restore, Keeps, Kept
  <2>2. hash[p] \ Gone' \subseteq S
    BY <1>0, <1>13 DEF Restore
  <2>3. Post(p, S, FALSE) /\ S \in Graphs
    BY <1>13 DEF Restore, Graphs
  <2> QED
    BY <1>0, <1>5, <2>1, <2>2, <2>3
<1>14. ASSUME NEW r \in syncs, Check(r)
       PROVE  Keeps /\ hash' = hash
              /\ \A s \in syncs' : s \in syncs \/ (Sound(s) /\ SyncInv(s))'
  <2>1. Keeps /\ hash' = hash
        /\ \A p : Kept(p)' = Kept(p)
    BY <1>0, <1>14 DEF Check, Keeps, Kept, serverVars
  <2>2. CASE r.hash = draft
    <3>0. PICK s : s = [r EXCEPT !.st = "checked", !.read = draft]
      OBVIOUS
    <3>1. /\ s.st = "checked" /\ s.read = draft /\ s.hash = r.hash
          /\ s.graph = r.graph /\ s.page = r.page /\ s.beacon = r.beacon
      BY <3>0 DEF Sync
    <3>2. syncs' = (syncs \ {r}) \cup {s}
      BY <1>14, <2>2, <3>0 DEF Check, Becomes
    <3> HIDE DEF Kept
    <3>3. (Sound(s) /\ SyncInv(s))'
      BY <1>0, <1>2, <1>14, <2>1, <2>2, <3>1 DEF Check, Sound, SyncInv
    <3> QED
      BY <2>1, <3>2, <3>3
  <2>3. CASE r.hash # draft
    <3> DEFINE s == [r EXCEPT !.st = "rejected"]
    <3>1. s.st = "rejected" /\ s.beacon = r.beacon
      BY DEF Sync
    <3>2. syncs' = syncs \ {r} \/ (~ r.beacon /\ syncs' = (syncs \ {r}) \cup {s})
      BY <1>14, <2>3 DEF Check
    <3> HIDE DEF s, Kept
    <3>3. ~ r.beacon => (Sound(s) /\ SyncInv(s))'
      BY <3>1 DEF Sound, SyncInv
    <3> QED
      BY <2>1, <3>2, <3>3
  <2> QED
    BY <2>2, <2>3
<1>15. ASSUME NEW r \in syncs, Write(r)
       PROVE  Keeps /\ hash' = hash
              /\ \A s \in syncs' : s \in syncs \/ (Sound(s) /\ SyncInv(s))'
  <2>1. hash' = hash /\ draft' = r.graph
        /\ \A p : Kept(p)' = Kept(p)
    BY <1>15 DEF Write, Kept, serverVars
  <2>2. draft = r.hash
    <3>1. draft = r.read
      BY <1>15 DEF Write, Excused
    <3> QED
      BY <1>2, <1>15, <3>1 DEF Write, SyncInv
  <2>3. Keeps
    BY <1>0, <1>2, <1>15, <2>1, <2>2 DEF Write, Sound, Keeps
  <2> DEFINE s == [r EXCEPT !.st = "written"]
  <2>4. /\ s.st = "written" /\ s.graph = r.graph /\ s.page = r.page
        /\ s.beacon = r.beacon
    BY DEF Sync
  <2>5. syncs' = syncs \ {r} \/ (~ r.beacon /\ syncs' = (syncs \ {r}) \cup {s})
    BY <1>15 DEF Write
  <2> HIDE DEF s, Kept
  <2>6. ~ r.beacon => (Sound(s) /\ SyncInv(s))'
    BY <1>0, <1>2, <1>15, <2>1, <2>4 DEF Write, Sound, SyncInv
  <2> QED
    BY <2>1, <2>3, <2>5, <2>6
<1>16. ASSUME NEW r \in syncs, Answer(r)
       PROVE  Keeps /\ hash' = hash
              /\ \A s \in syncs' : s \in syncs \/ (Sound(s) /\ SyncInv(s))'
  <2>1. Keeps /\ hash' = hash /\ draft' = draft
        /\ \A p : Kept(p)' = Kept(p)
    BY <1>0, <1>16 DEF Answer, Keeps, Kept, serverVars
  <2>2. draft = r.graph
    BY <1>1, <1>16 DEF Answer, Excused
  <2>0. PICK s : s = [r EXCEPT !.st = "answered", !.read = draft]
    OBVIOUS
  <2>3. /\ s.st = "answered" /\ s.read = draft /\ s.page = r.page
        /\ s.beacon = r.beacon
    BY <2>0 DEF Sync
  <2>4. syncs' = (syncs \ {r}) \cup {s}
    BY <1>16, <2>0 DEF Answer, Becomes
  <2>5. ~ r.beacon
    BY <1>2, <1>16 DEF Answer, SyncInv
  <2> HIDE DEF Kept
  <2>6. (Sound(s) /\ SyncInv(s))'
    BY <1>0, <1>2, <1>16, <2>1, <2>2, <2>3, <2>5 DEF Answer, Sound, SyncInv
  <2> QED
    BY <2>1, <2>4, <2>6
<1>17. ASSUME NEW r \in syncs, Synced(r)
       PROVE  draft \ Gone \subseteq draft' /\ HashIsSeen'
              /\ \A s \in syncs' : (Sound(s) /\ SyncInv(s))'
  <2>1. Keeps /\ syncs' \subseteq syncs
        /\ (\A p : Kept(p)' = Kept(p))
        /\ hash' = [hash EXCEPT ![r.page] = r.read] /\ r.page \in Pages
    BY <1>0, <1>17 DEF Synced, Keeps, Kept, Sync
  <2>2. HashIsSeen'
    BY <1>0, <1>2, <1>17, <2>1 DEF Synced, Sound, HashIsSeen
  <2>3. \A s \in syncs : SyncInv(s)'
    BY <1>2 DEF SyncInv
  <2> QED
    BY <1>2, <2>1, <2>2, <2>3, KeepsSyncs DEF Keeps
<1>18. ASSUME NEW r \in syncs, Refused(r) \/ LoseSync(r)
       PROVE  Keeps /\ hash' = hash /\ syncs' \subseteq syncs
  BY <1>0, <1>18 DEF Refused, LoseSync, Keeps, Kept, pageVars, serverVars
<1>19. ASSUME NEW f \in fetches, Serve(f) \/ LoseFetch(f)
       PROVE  Keeps /\ hash' = hash /\ syncs' = syncs
  BY <1>0, <1>19 DEF Serve, LoseFetch, Keeps, Kept, pageVars
<1>20. ASSUME NEW f \in fetches, Refreshed(f)
       PROVE  draft \ Gone \subseteq draft' /\ HashIsSeen'
              /\ \A s \in syncs' : (Sound(s) /\ SyncInv(s))'
  <2> DEFINE p == f.page
  <2>1. p \in Pages
    BY DEF Fetch
  <2>2. /\ f.graph = draft /\ ~ viewing[p] /\ ~ OpenSync(p)
        /\ Gone' = Gone \/ features \subseteq Gone'
        /\ draft \cap features = Kept(p) \cap features \/ features \subseteq Gone'
    <3>1. /\ "backup restored" \in RefreshCauses(f) <=> viewing[p]
          /\ "refresh crossed" \in RefreshCauses(f) <=> f.graph # draft \/ OpenSync(p)
          /\ "features left" \in RefreshCauses(f) <=>
               f.graph \cap features # Kept(p) \cap features
          /\ "check raced" \notin RefreshCauses(f)
      BY DEF RefreshCauses, Causes
    <3>2. causes' = causes \cup RefreshCauses(f) /\ features' = features /\ undone' = undone
      BY <1>20 DEF Refreshed
    <3> HIDE DEF p, Kept
    <3>3. f.graph = draft /\ ~ viewing[p] /\ ~ OpenSync(p)
      BY <3>1, <3>2 DEF Excused
    <3> QED
      BY <3>1, <3>2, <3>3 DEF Gone, FeaturesLeft
  <2>3. /\ draft' = draft /\ syncs' = syncs
        /\ hash' = [hash EXCEPT ![p] = draft]
        /\ Kept(p)' = (draft \ features) \cup (Kept(p) \cap features)
        /\ \A q \in Pages \ {p} : Kept(q)' = Kept(q)
    BY <1>20, <2>1, <2>2 DEF Refreshed, Kept
  <2> HIDE DEF Kept, p
  <2>6. draft \ Gone' \subseteq Kept(p)'
    BY <2>2, <2>3
  <2>4. HashIsSeen'
    BY <1>0, <1>2, <2>1, <2>3, <2>6 DEF HashIsSeen
  <2>5. ASSUME NEW s \in syncs PROVE (Sound(s) /\ SyncInv(s))'
    <3>1. s.page \in Pages
      BY DEF Sync
    <3>2. CASE s.page # p
      BY <1>0, <1>2, <2>3, <3>1, <3>2 DEF Sound, SyncInv
    <3>3. CASE s.page = p
      BY <1>0, <1>2, <2>2, <2>3, <2>6, <3>3 DEF Sound, SyncInv, OpenSync
    <3> QED
      BY <3>2, <3>3
  <2> QED
    BY <2>3, <2>4, <2>5
<1> QED
  BY <1>4, <1>6, <1>7, <1>8, <1>9, <1>10, <1>11, <1>12, <1>13, <1>14, <1>15,
     <1>16, <1>17, <1>18, <1>19, <1>20 DEF Next

(* While nothing was lost or taken back, what a page keeps and the draft   *)
(* has not is on its way.                                                  *)
LEMMA SavedStep ==
  ASSUME TypeOK, TypeOK', SyncsInv, SavedInv, Next, causes' \subseteq {"features left"},
         undone' = {}, draft \ Gone \subseteq draft'
  PROVE  SavedInv'
<1> USE DEF TypeOK
<1>0. /\ causes \subseteq causes' /\ undone = {} /\ features \subseteq features'
  BY DEF Next, Change, ChangeFeatures, Edit, Undo, Redo, DebounceFires, SyncNow, Hide, Show, View,
     LoadBackup, Restore, Check, Write, Answer, Synced, Refused, LoseSync, Serve,
     Refreshed, LoseFetch, netVars, pageVars, serverVars
<1>1. /\ causes \subseteq {"features left"} /\ undone = {}
      /\ FeaturesLeft \subseteq FeaturesLeft' /\ draft \ FeaturesLeft \subseteq draft'
  BY <1>0 DEF Gone, FeaturesLeft
<1> DEFINE Covered(p) == \/ Kept(p) \ FeaturesLeft \subseteq draft
                         \/ due[p] /\ ~ viewing[p]
                         \/ \E r \in syncs : Underway(p, r)
                         \/ \E f \in fetches : f.page = p
<1>2. \A p \in Pages : Covered(p)
  BY <1>1 DEF SavedInv
<1>3. SUFFICES ASSUME NEW p \in Pages PROVE Covered(p)'
  BY DEF SavedInv
<1>4. ASSUME Kept(p)' = Kept(p),
             due[p] /\ ~ viewing[p] => due'[p] /\ ~ viewing'[p],
             syncs \subseteq syncs', fetches \subseteq fetches'
      PROVE  Covered(p)'
  <2>1. \A r : Underway(p, r) => Underway(p, r)'
    BY <1>1, <1>4 DEF Underway
  <2> QED
    BY <1>1, <1>2, <1>4, <2>1
<1>5. ASSUME NEW g, Post(p, g, FALSE), Kept(p)' \subseteq g
      PROVE  Covered(p)'
  <2>0. PICK r : r = [no |-> syncsSent', page |-> p, graph |-> g, hash |-> hash[p],
                      beacon |-> FALSE, read |-> {}, st |-> "sent"]
    OBVIOUS
  <2>1. /\ r.page = p /\ r.graph = g /\ r.st = "sent" /\ r.beacon = FALSE
        /\ r \in syncs'
    BY <1>5, <2>0 DEF Post
  <2>2. Underway(p, r)'
    BY <1>5, <2>1 DEF Underway
  <2> QED
    BY <2>1, <2>2
<1>6. ASSUME NEW q \in Pages,
             \/ Change(q) \/ ChangeFeatures(q)
             \/ \E S \in SUBSET Edits : Undo(q, S) \/ Redo(q, S)
             \/ Hide(q) \/ Show(q)
      PROVE  Covered(p)'
  <2>1. CASE (Change(q) \/ ChangeFeatures(q)) /\ p = q
    BY <2>1 DEF Change, ChangeFeatures, Edit
  <2>2. CASE (Change(q) \/ ChangeFeatures(q)) /\ p # q
    BY <1>4, <2>2 DEF Change, ChangeFeatures, Edit, Kept, netVars
  <2>3. CASE Show(q)
    BY <1>4, <2>3 DEF Show, AskFor, Kept
  <2>4. CASE Hide(q)
    BY <1>4, <2>4 DEF Hide, Post, Kept, netVars
  <2> QED
    BY <1>1, <1>6, <2>1, <2>2, <2>3, <2>4 DEF Undo, Redo
<1>7. ASSUME NEW q \in Pages, DebounceFires(q) \/ SyncNow(q) PROVE Covered(p)'
  <2>1. Kept(p)' = Kept(p) /\ viewing' = viewing
    BY <1>7 DEF DebounceFires, SyncNow, Kept, pageVars
  <2>2. syncs \subseteq syncs' /\ fetches \subseteq fetches'
    BY <1>7 DEF DebounceFires, SyncNow, Post, netVars
  <2>3. CASE q # p \/ viewing[p]
    BY <1>4, <1>7, <2>1, <2>2, <2>3 DEF DebounceFires, SyncNow, pageVars
  <2>4. CASE q = p /\ ~ viewing[p]
    <3>1. Post(p, canvas[p], FALSE) /\ Kept(p)' \subseteq canvas[p]
      BY <1>7, <2>1, <2>4 DEF DebounceFires, SyncNow, Kept
    <3> QED
      BY <1>5, <3>1
  <2> QED
    BY <2>3, <2>4
<1>8. ASSUME NEW q \in Pages,
             View(q) \/ \E S \in SUBSET Edits : Restore(q, S)
      PROVE  Covered(p)'
  <2>1. CASE q # p
    BY <1>4, <1>8, <2>1 DEF View, Restore, Post, Kept
  <2>2. CASE q = p
    <3>1. PICK g : Post(p, g, FALSE) /\ Kept(p)' = g
      BY <1>8, <2>2 DEF View, Restore, Kept
    <3> QED
      BY <1>5, <3>1
  <2> QED
    BY <2>1, <2>2
<1>9. ASSUME NEW q \in Pages, LoadBackup(q) PROVE Covered(p)'
  BY <1>4, <1>9 DEF LoadBackup, Kept, netVars
<1>10. ASSUME NEW r \in syncs, Kept(p)' = Kept(p), due' = due, viewing' = viewing,
              syncs \ {r} \subseteq syncs', fetches \subseteq fetches',
              Underway(p, r) => Covered(p)'
       PROVE  Covered(p)'
  <2>1. \A s : Underway(p, s) => Underway(p, s)'
    BY <1>1, <1>10 DEF Underway
  <2> HIDE DEF Kept
  <2> QED
    BY <1>1, <1>2, <1>10, <2>1
<1>11. ASSUME NEW r \in syncs, Check(r) PROVE Covered(p)'
  <2>1. /\ Kept(p)' = Kept(p) /\ due' = due /\ viewing' = viewing
        /\ syncs \ {r} \subseteq syncs' /\ fetches' = fetches
    BY <1>11 DEF Check, Becomes, Kept, serverVars
  <2>2. ASSUME Underway(p, r) PROVE Covered(p)'
    <3>1. r.page = p /\ ~ r.beacon /\ Kept(p) \ FeaturesLeft \subseteq r.graph /\ r \in Sync
      BY <1>11, <2>2 DEF Check, Underway
    <3> PICK s : \/ s = [r EXCEPT !.st = "checked", !.read = draft] /\ r.hash = draft
                 \/ s = [r EXCEPT !.st = "rejected"] /\ r.hash # draft
      OBVIOUS
    <3>2. /\ s.page = p /\ ~ s.beacon /\ s.graph = r.graph
          /\ s.st \in {"checked", "rejected"}
      BY <3>1 DEF Sync
    <3>4. s \in syncs'
      BY <1>11, <3>1 DEF Check, Becomes
    <3>3. Underway(p, s)'
      BY <1>1, <2>1, <3>1, <3>2 DEF Underway
    <3> QED
      BY <3>3, <3>4
  <2> QED
    BY <1>10, <2>1, <2>2
<1>12. ASSUME NEW r \in syncs, Write(r) PROVE Covered(p)'
  <2>1. /\ Kept(p)' = Kept(p) /\ due' = due /\ viewing' = viewing
        /\ syncs \ {r} \subseteq syncs' /\ fetches' = fetches
    BY <1>12 DEF Write, Kept, serverVars
  <2>2. Underway(p, r) => Kept(p)' \ FeaturesLeft' \subseteq draft'
    BY <1>1, <1>12, <2>1 DEF Write, Underway
  <2> QED
    BY <1>10, <2>1, <2>2
<1>13. ASSUME NEW r \in syncs, Answer(r) \/ Synced(r) PROVE Covered(p)'
  <2>1. /\ Kept(p)' = Kept(p) /\ due' = due /\ viewing' = viewing
        /\ syncs \ {r} \subseteq syncs' /\ fetches' = fetches
    BY <1>13 DEF Answer, Synced, Becomes, Kept, serverVars
  <2>2. ~ Underway(p, r)
    BY <1>13 DEF Answer, Synced, Underway
  <2> QED
    BY <1>10, <2>1, <2>2
<1>14. ASSUME NEW r \in syncs, Refused(r) PROVE Covered(p)'
  <2>1. /\ Kept(p)' = Kept(p) /\ due' = due /\ viewing' = viewing
        /\ syncs \ {r} \subseteq syncs' /\ fetches \subseteq fetches'
    BY <1>14 DEF Refused, AskFor, Kept, pageVars
  <2>2. r.page = p => \E f \in fetches' : f.page = p
    <3> PICK f : f = [no |-> fetchesSent', page |-> r.page, served |-> FALSE,
                      graph |-> {}]
      OBVIOUS
    <3>1. f \in fetches'
      BY <1>14 DEF Refused, AskFor
    <3> QED
      BY <3>1
  <2> QED
    BY <1>10, <2>1, <2>2 DEF Underway
<1>15. ASSUME NEW f \in fetches, Serve(f) PROVE Covered(p)'
  <2>1. /\ Kept(p)' = Kept(p) /\ due' = due /\ viewing' = viewing
        /\ syncs' = syncs /\ fetches \ {f} \subseteq fetches'
    BY <1>15 DEF Serve, Kept, pageVars
  <2>2. f.page = p => \E g \in fetches' : g.page = p
    <3>1. f \in Fetch
      OBVIOUS
    <3> PICK g : g = [f EXCEPT !.served = TRUE, !.graph = draft]
      OBVIOUS
    <3>2. g.page = f.page
      BY <3>1 DEF Fetch
    <3>3. g \in fetches'
      BY <1>15 DEF Serve
    <3> QED
      BY <3>2, <3>3
  <2>3. \A s : Underway(p, s) => Underway(p, s)'
    BY <1>1, <2>1 DEF Underway
  <2> HIDE DEF Kept
  <2> QED
    BY <1>1, <1>2, <2>1, <2>2, <2>3
<1>16. ASSUME NEW f \in fetches, Refreshed(f) PROVE Covered(p)'
  <2>1. f.page \in Pages
    BY DEF Fetch
  <2>2. /\ f.graph = draft /\ ~ viewing[f.page]
        /\ \/ features \subseteq FeaturesLeft'
           \/ draft \cap features = Kept(f.page) \cap features
    <3>1. /\ "backup restored" \in RefreshCauses(f) <=> viewing[f.page]
          /\ "refresh crossed" \in RefreshCauses(f) <=> f.graph # draft \/ OpenSync(f.page)
          /\ "features left" \in RefreshCauses(f) <=>
               f.graph \cap features # Kept(f.page) \cap features
      BY DEF RefreshCauses, Causes
    <3>2. causes' = causes \cup RefreshCauses(f) /\ features' = features
      BY <1>16 DEF Refreshed
    <3> HIDE DEF Kept
    <3> QED
      BY <3>1, <3>2 DEF FeaturesLeft
  <2>3. CASE f.page = p
    <3>1. /\ Kept(p)' = (draft \ features) \cup (Kept(p) \cap features)
          /\ draft' = draft
      BY <1>16, <2>1, <2>2, <2>3 DEF Refreshed, Kept
    <3> HIDE DEF Kept
    <3> QED
      BY <2>2, <2>3, <3>1
  <2>4. CASE f.page # p
    <3>1. /\ Kept(p)' = Kept(p) /\ due' = due /\ viewing' = viewing
          /\ syncs' = syncs /\ fetches' = fetches \ {f}
      BY <1>16, <2>1, <2>4 DEF Refreshed, Kept
    <3>2. \A s : Underway(p, s) => Underway(p, s)'
      BY <1>1, <3>1 DEF Underway
    <3> HIDE DEF Kept
    <3> QED
      BY <1>1, <1>2, <2>4, <3>1, <3>2
  <2> QED
    BY <2>3, <2>4
<1>17. /\ ~ \E r \in syncs : LoseSync(r)
       /\ ~ \E f \in fetches : LoseFetch(f)
  <2>1. "lost" \notin causes'
    OBVIOUS
  <2> QED
    BY <2>1 DEF LoseSync, LoseFetch
<1> QED
  BY <1>6, <1>7, <1>8, <1>9, <1>11, <1>12, <1>13, <1>14, <1>15, <1>16, <1>17
  DEF Next

(* The state of a page, of the requests and of the draft has its type in   *)
(* every reachable state, for any number of pages and requests.            *)
THEOREM TypeCorrect == Spec => []TypeOK
<1>1. Init => TypeOK
  BY BoundsAssumption DEF Init, TypeOK, Edits, Graphs, Sync, Fetch, Causes
<1> QED
  BY <1>1, TypeStep, PTL DEF Spec

LEMMA Inductive ==
  /\ Init => IInv /\ SavedInv
  /\ IInv /\ SavedInv /\ [Next]_vars => (IInv /\ SavedInv)'
  /\ IInv /\ [Next]_vars => Excused' \/ draft \ Gone \subseteq draft'
<1>1. Init => IInv /\ SavedInv
  <2>1. Init => TypeOK
    BY BoundsAssumption DEF Init, TypeOK, Edits, Graphs, Sync, Fetch, Causes
  <2> QED
    BY <2>1 DEF Init, IInv, SavedInv, HashIsSeen, SyncsInv, Kept
<1>2. ASSUME IInv, UNCHANGED vars
      PROVE IInv' /\ (SavedInv => SavedInv') /\ draft \ Gone \subseteq draft'
  BY <1>2 DEF vars, IInv, TypeOK, HashIsSeen, SyncsInv, SyncInv, Sound, SavedInv,
              Underway, Kept, Excused, Gone, FeaturesLeft
<1>3. ASSUME IInv, Next PROVE Excused' \/ draft \ Gone \subseteq draft'
  BY <1>3, SoundStep
<1>4. ASSUME IInv, Next PROVE IInv'
  <2>1. TypeOK'
    BY <1>4, TypeStep DEF IInv
  <2>2. CASE ~ Excused'
    BY <1>4, <2>1, <2>2, SoundStep DEF IInv
  <2>3. CASE Excused'
    BY <1>4, <2>1, <2>3, SyncInvStep DEF IInv, HashIsSeen, SyncsInv
  <2> QED
    BY <2>2, <2>3
<1>5. ASSUME IInv, SavedInv, Next PROVE SavedInv'
  <2>1. causes' \subseteq {"features left"} => draft \ Gone \subseteq draft'
    BY <1>3, <1>5 DEF Excused
  <2> QED
    BY <1>4, <1>5, <2>1, SavedStep DEF IInv, SavedInv
<1> QED
  BY <1>1, <1>2, <1>3, <1>4, <1>5

(* A page never claims, with the hash it sends, to have seen an edit that  *)
(* its next sync would overwrite, while none of the three races occurred.  *)
(* Of the features this is so only until a refresh, which brings the hash  *)
(* of features it does not show, has found others on the page.             *)
THEOREM HashSeen == Spec => []HashIsSeen
<1>1. IInv => HashIsSeen
  BY DEF IInv
<1> QED
  BY <1>1, Inductive, PTL DEF Spec

(* An edit that is in the draft leaves it only when a user takes it back,  *)
(* or one of the three races occurred, or it is of the features and some   *)
(* refresh has left a page with other features than the draft's.           *)
THEOREM UpdatesKept == Spec => NoLostUpdate
<1>1. IInv /\ SavedInv /\ [Next]_vars => [Excused' \/ draft \ Gone \subseteq draft']_vars
  BY Inductive
<1> QED
  BY <1>1, Inductive, PTL DEF Spec, NoLostUpdate

(* A page at rest shows nothing that is not in the draft, while nothing    *)
(* was lost or taken back and none of the three races occurred; of the     *)
(* features no more is said once a refresh has left others on a page.      *)
THEOREM RestSaved == Spec => []RestIsSaved
<1>1. SavedInv => RestIsSaved
  BY DEF SavedInv, RestIsSaved, AtRest, Underway, Kept
<1> QED
  BY <1>1, Inductive, PTL DEF Spec
=============================================================================
