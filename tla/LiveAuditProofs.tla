-------------------------- MODULE LiveAuditProofs --------------------------
(***************************************************************************)
(* What the workspace promises holds in a live audit beside any number of  *)
(* other processes that save to it, killed and timed out at any moment.    *)
(* First the workspace, whatever the documents, the pages, the pairs that  *)
(* match and the processes that save: one lemma for each step of a save.   *)
(* Then the audit: each of its actions is a step of a save, its end, or    *)
(* none.                                                                   *)
(***************************************************************************)
EXTENDS LiveAudit, WellFoundedInduction, TLAPS

-----------------------------------------------------------------------------
(* A group has a canonical document *)

\* Every set of numbers has a least one.
LEMMA Least ==
  ASSUME NEW S \in SUBSET Nat, S # {}
  PROVE  \E m \in S : \A n \in S : m <= n
<1>1. PICK m \in S : \A n \in S : ~(<<n, m>> \in OpToRel(<, Nat))
  BY NatLessThanWellFounded, WFMin
<1>2. \A ss \in Nat \X Nat : (ss[1] < ss[2]) => ss \in OpToRel(<, Nat)
  BY Zenon DEF OpToRel
<1>3. ASSUME NEW n \in S PROVE m <= n
  <2>1. n \in Nat /\ m \in Nat /\ <<n, m>> \in Nat \X Nat
    OBVIOUS
  <2>2. ~(n < m)
    BY <1>1, <1>2, <2>1
  <2> QED
    BY <2>1, <2>2
<1> QED
  BY <1>3

\* compareCanonicalPriority leaves no group without a first document.
LEMMA CanonicalIsMember ==
  ASSUME NEW idx, HasType(idx, Entry), NEW group \in SUBSET DOMAIN idx, group # {}
  PROVE  Canonical(idx, group) \in group
<1>1. \A e \in group : /\ idx[e].rank \in {10, 50, 90, 100}
                       /\ idx[e].first \in Nat /\ e \in Nat
  BY EvidenceStoreAssumption DEF HasType, Entry
<1>2. PICK a \in group : \A e \in group : idx[e].rank <= idx[a].rank
  <2>1. {100 - idx[e].rank : e \in group} \in SUBSET Nat
    BY <1>1
  <2>2. {100 - idx[e].rank : e \in group} # {}
    OBVIOUS
  <2>3. PICK m \in {100 - idx[e].rank : e \in group} :
          \A n \in {100 - idx[e].rank : e \in group} : m <= n
    BY <2>1, <2>2, Least
  <2>4. PICK a \in group : m = 100 - idx[a].rank
    BY <2>3
  <2>5. \A e \in group : 100 - idx[a].rank <= 100 - idx[e].rank
    BY <2>3, <2>4
  <2> QED
    BY <1>1, <2>5
<1> DEFINE Best == {e \in group : idx[e].rank = idx[a].rank}
<1>3. PICK b \in Best : \A e \in Best : idx[b].first <= idx[e].first
  <2>1. {idx[e].first : e \in Best} \in SUBSET Nat /\ {idx[e].first : e \in Best} # {}
    BY <1>1
  <2>2. PICK m \in {idx[e].first : e \in Best} :
          \A n \in {idx[e].first : e \in Best} : m <= n
    BY <2>1, Least
  <2>3. PICK b \in Best : m = idx[b].first
    BY <2>2
  <2> QED
    BY <2>2, <2>3
<1> DEFINE Oldest == {e \in Best : idx[e].first = idx[b].first}
<1>4. PICK c \in Oldest : \A e \in Oldest : c <= e
  <2>1. Oldest \in SUBSET Nat /\ Oldest # {}
    BY <1>1, <1>3
  <2> QED
    BY <2>1, Least
<1>5. ASSUME NEW e \in group \ {c} PROVE Precedes(idx, c, e)
  <2>1. c \in group /\ idx[c].rank = idx[a].rank /\ idx[c].first = idx[b].first
    BY <1>4
  <2>2. CASE e \notin Best
    BY <1>1, <1>2, <2>1, <2>2 DEF Precedes
  <2>3. CASE e \in Best \ Oldest
    BY <1>1, <1>3, <2>1, <2>3 DEF Precedes
  <2>4. CASE e \in Oldest
    BY <1>1, <1>4, <2>1, <2>4 DEF Precedes
  <2> QED
    BY <2>2, <2>3, <2>4
<1>6. c \in group
  BY <1>4
<1> QED
  BY <1>5, <1>6 DEF Canonical

-----------------------------------------------------------------------------
(* What saveEvidenceRecord computes *)

\* The record of a document whose relations are rewritten.
LEMMA EntryRewritten ==
  ASSUME NEW r \in Entry, NEW c, NEW d
  PROVE  [r EXCEPT !.canonical = c, !.duplicates = d]
           = [seen |-> r.seen, first |-> r.first, rank |-> r.rank,
              canonical |-> c, duplicates |-> d]
<1> DEFINE moved == [r EXCEPT !.canonical = c]
<1>1. moved = [seen |-> r.seen, first |-> r.first, rank |-> r.rank,
               canonical |-> c, duplicates |-> r.duplicates]
  BY DEF Entry
<1>2. [r EXCEPT !.canonical = c, !.duplicates = d] = [moved EXCEPT !.duplicates = d]
  OBVIOUS
<1> HIDE DEF moved
<1>3. [moved EXCEPT !.duplicates = d]
        = [seen |-> r.seen, first |-> r.first, rank |-> r.rank,
           canonical |-> c, duplicates |-> d]
  BY <1>1
<1> QED
  BY <1>2, <1>3

\* rewriteRelations keeps an index sound and its documents' own data.
LEMMA RelatedIsSound ==
  ASSUME NEW idx, IndexIsSound(idx),
         NEW group \in SUBSET DOMAIN idx, group # {}
  PROVE  /\ IndexIsSound(Related(idx, group))
         /\ DOMAIN Related(idx, group) = DOMAIN idx
         /\ \A e \in DOMAIN idx : /\ Related(idx, group)[e].seen = idx[e].seen
                                  /\ Related(idx, group)[e].first = idx[e].first
<1> DEFINE new == Related(idx, group)
           c == Canonical(idx, group)
<1>0. HasType(idx, Entry) /\ DOMAIN idx \subseteq Docs
  BY DEF IndexIsSound, HasType
<1>1. c \in group /\ c \in Docs
  BY <1>0, CanonicalIsMember
<1>2. DOMAIN new = DOMAIN idx
  BY DEF Related
<1>3. ASSUME NEW e \in group
      PROVE  /\ new[e] = [idx[e] EXCEPT !.canonical = c,
                                        !.duplicates = IF e = c THEN group \ {e} ELSE {}]
             /\ idx[e] \in Entry
  BY <1>0 DEF Related, HasType
<1>4. ASSUME NEW e \in DOMAIN idx, e \notin group PROVE new[e] = idx[e]
  BY <1>4 DEF Related
<1>5. ASSUME NEW e \in group
      PROVE  /\ new[e] \in Entry /\ new[e].canonical = c
             /\ new[e].duplicates \subseteq group
             /\ new[e].seen = idx[e].seen /\ new[e].first = idx[e].first
  <2> DEFINE dup == IF e = c THEN group \ {e} ELSE {}
  <2>1. dup \in SUBSET group /\ dup \in SUBSET Docs
    BY <1>0
  <2>2. idx[e] \in Entry /\ new[e] = [idx[e] EXCEPT !.canonical = c, !.duplicates = dup]
    BY <1>3
  <2> HIDE DEF dup, c, new
  <2>3. new[e] = [seen |-> idx[e].seen, first |-> idx[e].first, rank |-> idx[e].rank,
                  canonical |-> c, duplicates |-> dup]
    BY <2>2, EntryRewritten
  <2>4. idx[e].seen \in Nat /\ idx[e].first \in Times /\ idx[e].rank \in {10, 50, 90, 100}
    BY <2>2 DEF Entry
  <2>5. new[e] \in Entry
    BY <1>1, <2>1, <2>3, <2>4 DEF Entry
  <2> QED
    BY <2>1, <2>3, <2>5
<1> HIDE DEF c, new
<1>6. HasType(new, Entry)
  BY <1>0, <1>2, <1>4, <1>5 DEF HasType
<1>7. Closed(new)
  <2> SUFFICES ASSUME NEW e \in DOMAIN idx
               PROVE  new[e].canonical \in DOMAIN idx /\ new[e].duplicates \subseteq DOMAIN idx
    BY <1>2 DEF Closed
  <2>1. CASE e \in group
    BY <1>1, <1>5, <2>1
  <2>2. CASE e \notin group
    BY <1>4, <2>2 DEF IndexIsSound, Closed
  <2> QED
    BY <2>1, <2>2
<1>8. NoCycle(new)
  <2> SUFFICES ASSUME NEW S \in SUBSET DOMAIN idx, S # {}
               PROVE  \E d \in S : new[d].canonical = d \/ new[d].canonical \notin S
    BY <1>2 DEF NoCycle
  <2>1. CASE c \in S
    BY <1>1, <1>5, <2>1
  <2>2. CASE c \notin S /\ S \cap group # {}
    BY <1>5, <2>2
  <2>3. CASE S \cap group = {}
    <3>1. PICK d \in S : idx[d].canonical = d \/ idx[d].canonical \notin S
      BY DEF IndexIsSound, NoCycle
    <3>2. new[d] = idx[d]
      BY <1>4, <2>3
    <3> QED
      BY <3>1, <3>2
  <2> QED
    BY <2>1, <2>2, <2>3
<1>9. \A e \in DOMAIN idx : new[e].seen = idx[e].seen /\ new[e].first = idx[e].first
  BY <1>4, <1>5
<1> QED
  BY <1>2, <1>6, <1>7, <1>8, <1>9 DEF new, IndexIsSound

\* The index a save is about to write.
LEMMA SavedIsSound ==
  ASSUME NEW idx, IndexIsSound(idx), NEW p \in Pages, NEW now \in Times
  PROVE  /\ IndexIsSound(Saved(idx, p, now))
         /\ DOMAIN Saved(idx, p, now) = DOMAIN idx \cup {DocOf[p]}
         /\ Saved(idx, p, now)[DocOf[p]].seen = SeenBefore(idx, DocOf[p]) + 1
         /\ Saved(idx, p, now)[DocOf[p]].first = FirstSeen(idx, DocOf[p], now)
         /\ \A e \in DOMAIN idx \ {DocOf[p]} :
              /\ Saved(idx, p, now)[e].seen = idx[e].seen
              /\ Saved(idx, p, now)[e].first = idx[e].first
<1> DEFINE d == DocOf[p]
           entry == NewEntry(idx, p, now)
           added == WithEntry(idx, d, entry)
<1>1. d \in Docs /\ SourceRank[p] \in {10, 50, 90, 100} 
  BY EvidenceStoreAssumption
<1>2. HasType(idx, Entry) /\ DOMAIN idx \subseteq Docs
  BY DEF IndexIsSound, HasType
<1>3. SeenBefore(idx, d) \in Nat /\ FirstSeen(idx, d, now) \in Times
  <2>1. CASE d \in DOMAIN idx
    <3>1. idx[d].seen \in Nat /\ idx[d].first \in Times
      BY <1>2, <2>1 DEF HasType, Entry
    <3> QED
      BY <2>1, <3>1 DEF SeenBefore, FirstSeen
  <2>2. CASE d \notin DOMAIN idx
    BY <1>1, <2>2 DEF SeenBefore, FirstSeen
  <2> QED
    BY <2>1, <2>2
<1>4. /\ entry.seen = SeenBefore(idx, d) + 1 /\ entry.first = FirstSeen(idx, d, now)
      /\ entry.canonical = d /\ entry.duplicates = {}
  BY DEF NewEntry
<1>5. entry \in Entry
  <2>1. SeenBefore(idx, d) + 1 \in Nat /\ {} \in SUBSET Docs
    BY <1>3
  <2>2. entry = [seen |-> SeenBefore(idx, d) + 1, first |-> FirstSeen(idx, d, now),
                 rank |-> SourceRank[p], canonical |-> d, duplicates |-> {}]
    BY DEF NewEntry
  <2> HIDE DEF entry, d
  <2> QED
    BY <1>1, <1>3, <2>1, <2>2 DEF Entry
<1> HIDE DEF entry
<1>6. /\ DOMAIN added = DOMAIN idx \cup {d} /\ added[d] = entry
      /\ \A e \in DOMAIN idx \ {d} : added[e] = idx[e]
  BY DEF WithEntry
<1> HIDE DEF added
<1>7. IndexIsSound(added)
  <2>1. HasType(added, Entry)
    BY <1>1, <1>2, <1>5, <1>6 DEF HasType
  <2>2. Closed(added)
    <3> SUFFICES ASSUME NEW e \in DOMAIN added
                 PROVE  /\ added[e].canonical \in DOMAIN added
                        /\ added[e].duplicates \subseteq DOMAIN added
      BY DEF Closed
    <3>1. CASE e = d
      BY <1>4, <1>6, <3>1
    <3>2. CASE e # d
      BY <1>6, <3>2 DEF IndexIsSound, Closed
    <3> QED
      BY <3>1, <3>2
  <2>3. NoCycle(added)
    <3> SUFFICES ASSUME NEW S \in SUBSET DOMAIN added, S # {}
                 PROVE  \E e \in S : added[e].canonical = e \/ added[e].canonical \notin S
      BY DEF NoCycle
    <3>1. CASE d \in S
      BY <1>4, <1>6, <3>1
    <3>2. CASE d \notin S
      <4>1. S \in (SUBSET DOMAIN idx) \ {{}}
        BY <1>6, <3>2
      <4>2. PICK e \in S : idx[e].canonical = e \/ idx[e].canonical \notin S
        BY <4>1 DEF IndexIsSound, NoCycle
      <4>3. added[e] = idx[e]
        BY <1>6, <3>2, <4>1
      <4> QED
        BY <4>2, <4>3
    <3> QED
      BY <3>1, <3>2
  <2> QED
    BY <2>1, <2>2, <2>3 DEF IndexIsSound
<1>8. Group(added, d) \in SUBSET DOMAIN added /\ Group(added, d) # {}
  BY <1>6 DEF Group, Matches
<1>9. Saved(idx, p, now) = Related(added, Group(added, d))
  BY DEF Saved, added, entry
<1>10. /\ IndexIsSound(Saved(idx, p, now))
       /\ DOMAIN Saved(idx, p, now) = DOMAIN added
       /\ \A e \in DOMAIN added : /\ Saved(idx, p, now)[e].seen = added[e].seen
                                  /\ Saved(idx, p, now)[e].first = added[e].first
  BY <1>7, <1>8, <1>9, RelatedIsSound
<1> QED
  BY <1>4, <1>6, <1>10

-----------------------------------------------------------------------------
(* The steps of a save *)

\* What becomes of saving when one save takes a step.
LEMMA SavingAfter ==
  ASSUME DOMAIN saving = Savers, NEW s \in Savers, NEW after,
         saving' = [saving EXCEPT ![s] = after]
  PROVE  /\ DOMAIN saving' = Savers
         /\ saving'[s] = after
         /\ \A other \in Savers \ {s} : saving'[other] = saving[other]
  OBVIOUS

\* A save that ends, in whatever way, leaves the rest as it was.
LEMMA EndKeepsInv ==
  ASSUME StoreInv, NEW s \in Savers, NEW after,
         saving' = [saving EXCEPT ![s] = after],
         after = Idle \/ (Running(s) /\ after = Over(s, "failed")),
         UNCHANGED <<files, index, finished, overlapped>>
  PROVE  StoreInv'
<1>1. DOMAIN saving = Savers
  BY DEF StoreInv
<1>2. /\ DOMAIN saving' = Savers /\ saving'[s] = after
      /\ \A other \in Savers \ {s} : saving'[other] = saving[other]
  BY <1>1, SavingAfter
<1>3. after = Idle \/ \E p \in Pages : after = [step |-> "failed", page |-> p]
  <2>1. CASE Running(s) /\ after = Over(s, "failed")
    <3>1. saving[s].step \notin {"idle", "saved", "failed"}
      BY <2>1 DEF Running
    <3>2. PICK p \in Pages, how \in {"file", "index"} :
            saving[s] = Writing(how, p, saving[s].write)
      BY <3>1 DEF StoreInv, SaveIsSound, Idle
    <3>3. saving[s].page = p
      BY <3>2 DEF Writing
    <3> QED
      BY <2>1, <3>3 DEF Over
  <2> QED
    BY <2>1
<1>4. SaveIsSound(s)'
  BY <1>2, <1>3 DEF SaveIsSound
<1>5. ASSUME NEW other \in Savers \ {s} PROVE SaveIsSound(other)'
  BY <1>2 DEF StoreInv, SaveIsSound
<1>6. ~Running(s)'
  BY <1>2, <1>3 DEF Running, Idle
<1>7. \A other \in Savers \ {s} :
        /\ Running(other)' <=> Running(other)
        /\ SaveIsNext(other)' <=> SaveIsNext(other)
  BY <1>2 DEF Running, SaveIsNext, SeenBefore
<1>8. SaveIsNext(s)'
  BY <1>6 DEF SaveIsNext
<1>9. /\ WorkspaceIsSound' <=> WorkspaceIsSound
      /\ SavedIsIndexed' <=> SavedIsIndexed
  BY DEF WorkspaceIsSound, SavedIsIndexed, SeenBefore
<1>10. (\A t \in Savers : SaveIsSound(t))'
  BY <1>4, <1>5
<1>11. (~overlapped => \A t \in Savers :
                       /\ SaveIsNext(t)
                       /\ Running(t) => \A other \in Savers \ {t} : ~Running(other))'
  BY <1>6, <1>7, <1>8 DEF StoreInv
<1> QED
  BY <1>2, <1>9, <1>10, <1>11 DEF StoreInv

\* A save begins, perhaps beside others: what it will write is sound.
LEMMA ReadIndexKeepsInv ==
  ASSUME StoreInv, NEW s \in Savers, NEW p \in Pages, NEW now \in Times,
         ReadIndex(s, p, now)
  PROVE  StoreInv'
<1> DEFINE idx == Saved(index, p, now)
           d == DocOf[p]
<1>1. DOMAIN saving = Savers /\ UNCHANGED <<files, index, finished>>
  BY DEF StoreInv, ReadIndex
<1>2. /\ DOMAIN saving' = Savers /\ saving'[s] = Writing("file", p, idx)
      /\ \A other \in Savers \ {s} : saving'[other] = saving[other]
  BY <1>1, SavingAfter DEF ReadIndex
<1>3. IndexIsSound(index) /\ DOMAIN index \subseteq DOMAIN files
  BY DEF StoreInv, WorkspaceIsSound
<1>4. /\ IndexIsSound(idx) /\ DOMAIN idx = DOMAIN index \cup {d}
      /\ idx[d].seen = SeenBefore(index, d) + 1
      /\ idx[d].first = FirstSeen(index, d, now)
      /\ \A e \in DOMAIN index \ {d} :
           idx[e].seen = index[e].seen /\ idx[e].first = index[e].first
  BY <1>3, SavedIsSound
<1> HIDE DEF idx
<1>5. /\ saving'[s].step = "file" /\ saving'[s].page = p /\ saving'[s].write = idx
  BY <1>2 DEF Writing
<1>6. SaveIsSound(s)'
  BY <1>1, <1>2, <1>3, <1>4, <1>5 DEF SaveIsSound
<1>7. ASSUME NEW other \in Savers \ {s} PROVE SaveIsSound(other)'
  BY <1>1, <1>2 DEF StoreInv, SaveIsSound
<1>8. SaveIsNext(s)'
  BY <1>1, <1>4, <1>5 DEF SaveIsNext, SeenBefore, FirstSeen
<1>9. /\ WorkspaceIsSound' <=> WorkspaceIsSound
      /\ overlapped' \in BOOLEAN /\ (~overlapped' => ~overlapped)
  BY <1>1 DEF WorkspaceIsSound, ReadIndex, StoreInv
<1>10. SavedIsIndexed'
  BY <1>1, <1>9 DEF SavedIsIndexed, SeenBefore, StoreInv
<1>11. ASSUME ~overlapped'
       PROVE  \A t \in Savers : /\ SaveIsNext(t)'
                                /\ Running(t)' => \A other \in Savers \ {t} : ~Running(other)'
  <2>1. \A other \in Savers \ {s} : ~Running(other)
    BY <1>11 DEF ReadIndex
  <2>2. \A other \in Savers \ {s} : ~Running(other)'
    BY <1>2, <2>1 DEF Running
  <2>3. \A other \in Savers \ {s} : SaveIsNext(other)'
    BY <2>2 DEF SaveIsNext
  <2> QED
    BY <1>8, <2>2, <2>3
<1> QED
  BY <1>1, <1>2, <1>6, <1>7, <1>9, <1>10, <1>11 DEF StoreInv

\* The document's file is written; its entry follows.
LEMMA WriteFileKeepsInv ==
  ASSUME StoreInv, NEW s \in Savers, WriteFile(s)
  PROVE  StoreInv'
<1> DEFINE p == saving[s].page
           d == DocOf[saving[s].page]
           idx == saving[s].write
<1>1. DOMAIN saving = Savers /\ UNCHANGED <<index, finished, overlapped>>
  BY DEF StoreInv, WriteFile
<1>2. /\ DOMAIN saving' = Savers /\ saving'[s] = Writing("index", p, idx)
      /\ \A other \in Savers \ {s} : saving'[other] = saving[other]
  BY <1>1, SavingAfter DEF WriteFile
<1>3. /\ p \in Pages /\ saving[s] = Writing("file", p, idx)
      /\ IndexIsSound(idx) /\ d \in DOMAIN idx
      /\ DOMAIN idx \ DOMAIN files \subseteq {d}
  <2>1. saving[s].step = "file"
    BY DEF WriteFile
  <2>2. PICK q \in Pages, how \in {"file", "index"} :
          /\ saving[s] = Writing(how, q, idx)
          /\ IndexIsSound(idx) /\ DocOf[q] \in DOMAIN idx
          /\ DOMAIN idx \ (DOMAIN files) \subseteq (IF how = "file" THEN {DocOf[q]} ELSE {})
    BY <2>1 DEF StoreInv, SaveIsSound, Idle
  <2>3. p = q /\ how = "file"
    BY <2>1, <2>2 DEF Writing
  <2> QED
    BY <2>2, <2>3
<1>4. d \in Docs /\ idx[d] \in Entry
  BY <1>3 DEF IndexIsSound, HasType
<1>5. /\ DOMAIN files' = DOMAIN files \cup {d}
      /\ files'[d].seen = idx[d].seen /\ files'[d].first = idx[d].first
      /\ files'[d] \in File
      /\ \A e \in DOMAIN files \ {d} : files'[e] = files[e]
  <2>1. files'[d] = [seen |-> idx[d].seen, first |-> idx[d].first]
    BY DEF WriteFile
  <2>2. idx[d].seen \in Nat /\ idx[d].first \in Times
    BY <1>4 DEF Entry
  <2>3. DOMAIN files' = DOMAIN files \cup {d}
        /\ \A e \in DOMAIN files \ {d} : files'[e] = files[e]
    BY DEF WriteFile
  <2>4. files'[d] \in File
    BY <2>1, <2>2 DEF File
  <2> QED
    BY <2>1, <2>3, <2>4
<1>6. /\ saving'[s].step = "index" /\ saving'[s].page = p /\ saving'[s].write = idx
      /\ saving[s].step = "file" /\ Running(s) /\ Running(s)'
  BY <1>2, <1>3 DEF Writing, Running
<1>7. WorkspaceIsSound'
  <2>1. HasType(files, File) /\ IndexIsSound(index) /\ DOMAIN index \subseteq DOMAIN files
    BY DEF StoreInv, WorkspaceIsSound
  <2>2. HasType(files', File)
    BY <1>4, <1>5, <2>1 DEF HasType
  <2> QED
    BY <1>1, <1>5, <2>1, <2>2 DEF WorkspaceIsSound, IndexIsSound, HasType, Closed, NoCycle
<1>8. SaveIsSound(s)'
  BY <1>2, <1>3, <1>5, <1>6 DEF SaveIsSound
<1>9. ASSUME NEW other \in Savers \ {s} PROVE SaveIsSound(other)'
  BY <1>2, <1>5 DEF StoreInv, SaveIsSound
<1>10. ASSUME ~overlapped
       PROVE  /\ SaveIsNext(s) /\ \A other \in Savers \ {s} : ~Running(other)
              /\ \A other \in Savers \ {s} : ~Running(other)'
  BY <1>2, <1>6, <1>10 DEF StoreInv, Running
<1>11. SavedIsIndexed'
  <2> SUFFICES ASSUME ~overlapped PROVE SavedIsIndexed'
    BY <1>1 DEF SavedIsIndexed
  <2>1. \A e \in DOMAIN index : /\ files[e].seen - index[e].seen \in {0, 1}
                                /\ files[e].first = index[e].first
                                /\ e \in DOMAIN files
    BY DEF StoreInv, SavedIsIndexed, WorkspaceIsSound
  <2>2. d \in DOMAIN index => /\ idx[d].seen = index[d].seen + 1
                              /\ idx[d].first = index[d].first
                              /\ index[d].seen \in Nat
    BY <1>6, <1>10 DEF SaveIsNext, SeenBefore, StoreInv, WorkspaceIsSound, IndexIsSound, HasType, Entry
  <2>3. \A e \in DOMAIN index : files'[e].seen - index[e].seen \in {0, 1}
    BY <1>5, <2>1, <2>2
  <2>4. \A e \in DOMAIN index : files'[e].first = index[e].first
    BY <1>5, <2>1, <2>2
  <2> QED
    BY <1>1, <2>3, <2>4 DEF SavedIsIndexed, SeenBefore, StoreInv
<1>12. ASSUME ~overlapped
       PROVE  \A t \in Savers : /\ SaveIsNext(t)'
                                /\ Running(t)' => \A other \in Savers \ {t} : ~Running(other)'
  <2>1. SaveIsNext(s)'
    BY <1>1, <1>5, <1>6, <1>10, <1>12 DEF SaveIsNext, SeenBefore
  <2>2. \A other \in Savers \ {s} : SaveIsNext(other)'
    BY <1>10, <1>12 DEF SaveIsNext
  <2> QED
    BY <1>10, <1>12, <2>1, <2>2
<1> QED
  BY <1>1, <1>2, <1>7, <1>8, <1>9, <1>11, <1>12 DEF StoreInv

\* The index of the save replaces whatever index is there by then.
LEMMA WriteIndexKeepsInv ==
  ASSUME StoreInv, NEW s \in Savers, WriteIndex(s)
  PROVE  StoreInv'
<1> DEFINE p == saving[s].page
           d == DocOf[saving[s].page]
           idx == saving[s].write
<1>1. /\ DOMAIN saving = Savers /\ UNCHANGED <<files, overlapped>> /\ index' = idx
      /\ finished \in [Docs -> Nat] /\ saving[s].step = "index" /\ Running(s)
  BY DEF StoreInv, WriteIndex, Running
<1>2. /\ DOMAIN saving' = Savers /\ saving'[s] = Over(s, "saved")
      /\ \A other \in Savers \ {s} : saving'[other] = saving[other]
  BY <1>1, SavingAfter DEF WriteIndex
<1>3. /\ p \in Pages /\ IndexIsSound(idx) /\ d \in DOMAIN idx
      /\ DOMAIN idx \subseteq DOMAIN files
  <2>1. PICK q \in Pages, how \in {"file", "index"} :
          /\ saving[s] = Writing(how, q, idx)
          /\ IndexIsSound(idx) /\ DocOf[q] \in DOMAIN idx
          /\ DOMAIN idx \ (DOMAIN files) \subseteq (IF how = "file" THEN {DocOf[q]} ELSE {})
    BY <1>1 DEF StoreInv, SaveIsSound, Idle
  <2>2. p = q /\ how = "index"
    BY <1>1, <2>1 DEF Writing
  <2> QED
    BY <2>1, <2>2
<1>4. d \in Docs
  BY <1>3 DEF IndexIsSound, HasType
<1>5. WorkspaceIsSound'
  <2>1. HasType(files, File)
    BY DEF StoreInv, WorkspaceIsSound
  <2> QED
    BY <1>1, <1>3, <2>1 DEF WorkspaceIsSound, IndexIsSound, HasType, Closed, NoCycle
<1>6. SaveIsSound(s)'
  BY <1>2, <1>3 DEF SaveIsSound, Over
<1>7. ASSUME NEW other \in Savers \ {s} PROVE SaveIsSound(other)'
  BY <1>1, <1>2 DEF StoreInv, SaveIsSound
<1>8. ~Running(s)'
  BY <1>2 DEF Running, Over
<1>9. /\ finished' \in [Docs -> Nat] /\ finished'[d] = finished[d] + 1
      /\ \A e \in Docs \ {d} : finished'[e] = finished[e]
  BY <1>1, <1>4 DEF WriteIndex
<1>10. ASSUME ~overlapped
       PROVE  SaveIsNext(s) /\ \A other \in Savers \ {s} : ~Running(other)'
  BY <1>1, <1>2, <1>10 DEF StoreInv, Running
<1>11. SavedIsIndexed'
  <2> SUFFICES ASSUME ~overlapped PROVE SavedIsIndexed'
    BY <1>1 DEF SavedIsIndexed
  <2>1. /\ DOMAIN idx = DOMAIN index \cup {d}
        /\ \A e \in DOMAIN index \ {d} :
             idx[e].seen = index[e].seen /\ idx[e].first = index[e].first
        /\ idx[d].seen = SeenBefore(index, d) + 1
        /\ files[d].seen = idx[d].seen /\ files[d].first = idx[d].first
    BY <1>1, <1>10 DEF SaveIsNext
  <2>2. /\ \A e \in Docs : finished[e] = SeenBefore(index, e)
        /\ \A e \in DOMAIN index : files[e].seen - index[e].seen \in {0, 1}
        /\ \A e \in DOMAIN index : files[e].first = index[e].first
    BY DEF StoreInv, SavedIsIndexed
  <2>3. \A e \in Docs : finished'[e] = SeenBefore(idx, e)
    BY <1>3, <1>4, <1>9, <2>1, <2>2 DEF SeenBefore
  <2>4. idx[d].seen \in Nat
    BY <1>3 DEF IndexIsSound, HasType, Entry
  <2>5. \A e \in DOMAIN idx : files[e].seen - idx[e].seen \in {0, 1}
    BY <2>1, <2>2, <2>4
  <2>6. \A e \in DOMAIN idx : files[e].first = idx[e].first
    BY <2>1, <2>2
  <2> QED
    BY <1>1, <2>3, <2>5, <2>6 DEF SavedIsIndexed, SeenBefore
<1>12. ASSUME ~overlapped
       PROVE  \A t \in Savers : /\ SaveIsNext(t)'
                                /\ Running(t)' => \A other \in Savers \ {t} : ~Running(other)'
  BY <1>8, <1>10, <1>12 DEF SaveIsNext
<1> QED
  BY <1>1, <1>2, <1>5, <1>6, <1>7, <1>9, <1>11, <1>12 DEF StoreInv

\* Every step of a save keeps the invariant.
LEMMA SaveStepKeepsInv ==
  ASSUME StoreInv, NEW s \in Savers, SaveStep(s)
  PROVE  StoreInv'
<1>1. CASE WriteFile(s)
  BY <1>1, WriteFileKeepsInv
<1>2. CASE WriteIndex(s)
  BY <1>2, WriteIndexKeepsInv
<1>3. CASE FailSave(s)
  BY <1>3, EndKeepsInv DEF FailSave
<1> QED
  BY <1>1, <1>2, <1>3 DEF SaveStep

\* So does a step of something else.
LEMMA StutterKeepsInv ==
  ASSUME StoreInv, UNCHANGED storeVars
  PROVE  StoreInv'
<1>1. UNCHANGED <<files, index, saving, finished, overlapped>>
  BY DEF storeVars
<1>2. (WorkspaceIsSound' <=> WorkspaceIsSound) /\ (SavedIsIndexed' <=> SavedIsIndexed)
  BY <1>1 DEF WorkspaceIsSound, SavedIsIndexed, SeenBefore
<1>3. \A s \in Savers : /\ SaveIsSound(s)' <=> SaveIsSound(s)
                        /\ SaveIsNext(s)' <=> SaveIsNext(s)
                        /\ Running(s)' <=> Running(s)
  BY <1>1 DEF SaveIsSound, SaveIsNext, Running, SeenBefore
<1> QED
  BY <1>1, <1>2, <1>3 DEF StoreInv

\* The workspace starts empty.
LEMMA InitHasInv == StoreInit => StoreInv
<1> SUFFICES ASSUME StoreInit PROVE StoreInv
  OBVIOUS
<1>1. /\ DOMAIN files = {} /\ DOMAIN index = {} /\ overlapped = FALSE
      /\ DOMAIN saving = Savers /\ \A s \in Savers : saving[s] = Idle
      /\ finished \in [Docs -> Nat] /\ \A d \in Docs : finished[d] = 0
  BY DEF StoreInit, NoDocuments
<1>2. WorkspaceIsSound
  BY <1>1 DEF WorkspaceIsSound, IndexIsSound, HasType, Closed, NoCycle
<1>3. SavedIsIndexed
  BY <1>1 DEF SavedIsIndexed, SeenBefore
<1>4. \A s \in Savers : SaveIsSound(s) /\ ~Running(s)
  BY <1>1 DEF SaveIsSound, Running, Idle
<1> QED
  BY <1>1, <1>2, <1>3, <1>4 DEF StoreInv, SaveIsNext

-----------------------------------------------------------------------------
(* The steps of the audit *)

\* The process starts in an empty workspace.
LEMMA AuditInitHasInv == Init => StoreInv
  BY InitHasInv DEF Init

\* Every action of the audit, of main and of the other processes keeps the
\* store's invariant.
LEMMA AuditNextKeepsInv == StoreInv /\ [Next]_vars => StoreInv'
<1> SUFFICES ASSUME StoreInv, [Next]_vars PROVE StoreInv'
  OBVIOUS
<1>a. Audit \in Savers
  BY LiveAuditAssumption
<1>1. CASE Connect \/ RunTimesOut \/ AuditEnds \/ Close
  BY <1>1, StutterKeepsInv DEF Connect, RunTimesOut, AuditEnds, Close
<1>2. CASE Kill
  BY <1>a, <1>2, EndKeepsInv DEF Kill
<1>3. CASE Probe \/ Preflight \/ Pause
  BY <1>3, StutterKeepsInv DEF Probe, Preflight, Pause
<1>4. CASE ModelStep
  BY <1>4, StutterKeepsInv DEF ModelStep
<1>5. CASE LoopStep
  <2>1. CASE Answer \/ Decide
    BY <2>1, StutterKeepsInv DEF Answer, Decide
  <2>2. CASE Keep
    BY <1>a, <2>2, EndKeepsInv DEF Keep
  <2>3. CASE AuditSaves
    BY <1>a, <2>3, SaveStepKeepsInv DEF AuditSaves
  <2>4. CASE ToolFails \/ ToolGivesUp
    BY <2>4, StutterKeepsInv DEF ToolFails, ToolGivesUp
  <2>5. ASSUME NEW found \in BOOLEAN, Search(found) PROVE StoreInv'
    BY <2>5, StutterKeepsInv DEF Search
  <2>6. ASSUME NEW p \in Pages, NEW now \in Times, Fetch(p, now) PROVE StoreInv'
    BY <1>a, <2>6, ReadIndexKeepsInv DEF Fetch
  <2> QED
    BY <1>5, <2>1, <2>2, <2>3, <2>4, <2>5, <2>6 DEF LoopStep
<1>6. CASE OtherProcess
  <2>1. PICK s \in Savers \ {Audit} :
          OtherSaves(s) \/ \E p \in Pages, now \in Times : OtherBegins(s, p, now)
    BY <1>6 DEF OtherProcess
  <2>2. CASE OtherSaves(s)
    BY <2>2, SaveStepKeepsInv DEF OtherSaves
  <2>3. ASSUME NEW p \in Pages, NEW now \in Times, OtherBegins(s, p, now) PROVE StoreInv'
    BY <2>3, ReadIndexKeepsInv DEF OtherBegins
  <2> QED
    BY <2>1, <2>2, <2>3
<1>7. CASE UNCHANGED vars
  BY <1>7, StutterKeepsInv DEF vars
<1> QED
  BY <1>1, <1>2, <1>3, <1>4, <1>5, <1>6, <1>7 DEF Next

\* Whatever documents match and whichever saves overlap, are cut off or fail:
\* every indexed document has its file, relations stay within the index and
\* canonical_id leads to an end.
THEOREM WorkspaceStaysSound == Spec => []WorkspaceIsSound
<1>1. StoreInv => WorkspaceIsSound
  BY DEF StoreInv
<1> QED
  BY <1>1, AuditInitHasInv, AuditNextKeepsInv, PTL DEF Spec

\* Until two saves have overlapped, no save that went through is missing from
\* the index or miscounted, and no file is more than one save ahead of it.
THEOREM SavesAreIndexed == Spec => []SavedIsIndexed
<1>1. StoreInv => SavedIsIndexed
  BY DEF StoreInv
<1> QED
  BY <1>1, AuditInitHasInv, AuditNextKeepsInv, PTL DEF Spec

-----------------------------------------------------------------------------
(* After the abort *)

\* A model call that goes on after the abort makes no further request.
LEMMA AbortedCallEnds ==
  ASSUME aborted, CallStep
  PROVE  call'.phase # "request"
<1>1. ASSUME NEW cause, LeaveModel(cause) \/ Caught(cause) PROVE call'.phase # "request"
  <2>1. call' = Failed("abort")
    BY <1>1 DEF LeaveModel, Caught
  <2> QED
    BY <2>1 DEF Failed, NoCall
<1>2. ASSUME NEW text \in BOOLEAN, NEW valid \in BOOLEAN, Body(text, valid)
      PROVE  call'.phase # "request"
  <2>1. CASE call' = Answered
    BY <2>1 DEF Answered, NoCall
  <2>2. CASE Caught(BodyError(text, valid))
    BY <1>1, <2>2
  <2> QED
    BY <1>2, <2>1, <2>2 DEF Body
<1>3. ASSUME NEW e \in {"retryable", "final"}, BodyFails(e) \/ RequestFails(e)
      PROVE  call'.phase # "request"
  BY <1>1, <1>3 DEF BodyFails, RequestFails
<1>4. CASE RequestAborts \/ SleepAborts
  BY <1>1, <1>4 DEF RequestAborts, SleepAborts
<1>5. ~ServerAnswers /\ ~Wake
  BY DEF ServerAnswers, Headers, Wake
<1> QED
  BY <1>2, <1>3, <1>4, <1>5 DEF CallStep, BodyEnds, BridgeTimers

\* What the audit does between two awaits starts nothing once aborted.
LEMMA AbortedTurnStartsNothing ==
  ASSUME aborted, NEW w, NEW d, NEW s, NEW kind,
         StartTurn(s) \/ Report(kind, s) \/ EndTurn(kind, w) \/ NextAction(w, d) \/ AuditThrows
  PROVE  call'.phase # "request" /\ op' \notin {"search", "fetch", "probe"}
<1>1. call' = NoCall => call'.phase # "request"
  BY DEF NoCall
<1>2. ASSUME NEW r, StartTurn(r) PROVE call' = NoCall /\ op' = "threw"
  BY <1>2 DEF StartTurn, Throw
<1>3. ASSUME NEW r, NEW k, Report(k, r) PROVE call' = NoCall /\ op' \in Ended
  BY <1>3 DEF Report, Ended
<1>4. ASSUME NEW k, NEW v, EndTurn(k, v) PROVE call' = NoCall /\ op' \in Ended
  BY <1>2, <1>3, <1>4 DEF EndTurn, Ended
<1>5. CASE NextAction(w, d)
  BY <1>1, <1>4, <1>5 DEF NextAction, Throw, Ended
<1>6. CASE AuditThrows
  BY <1>1, <1>6 DEF AuditThrows, Throw
<1> QED
  BY <1>1, <1>2, <1>3, <1>4, <1>5, <1>6 DEF Ended

\* The signal aborts only while main waits for the audit, so it has not when
\* main begins; and after main has begun nothing goes back.
MainInv == main = "connect" => ~aborted

LEMMA MainInvHolds == Spec => []MainInv
<1>1. Init => MainInv
  BY DEF Init, MainInv
<1>2. MainInv /\ [Next]_vars => MainInv'
  <2> SUFFICES ASSUME MainInv, Next \/ UNCHANGED vars, main' = "connect"
               PROVE  main = "connect" /\ aborted' = aborted
    BY DEF MainInv
  <2>1. main' # "connect" \/ (main' = main /\ aborted' = aborted)
    BY DEF Next, Connect, RunTimesOut, AuditEnds, Close, Kill, Probe, Preflight, Pause,
           ModelStep, LoopStep, Answer, Decide, Keep, AuditSaves, ToolFails, ToolGivesUp,
           Search, Fetch, OtherProcess, OtherSaves, OtherBegins, vars, auditVars, bridgeVars,
           CallStep, ServerAnswers, Headers, BodyEnds, Body, BodyFails, BridgeTimers,
           RequestFails, RequestAborts, Wake, SleepAborts
  <2> QED
    BY <2>1
<1> QED
  BY <1>1, <1>2, PTL DEF Spec

\* No probe, request, retry or tool call begins after the abort.
LEMMA AbortedStepStartsNothing ==
  ASSUME MainInv, aborted, Next \/ UNCHANGED vars
  PROVE  /\ call'.phase = "request" => UNCHANGED call
         /\ op' \in {"search", "fetch"} => UNCHANGED <<op, todo>>
         /\ op' = "probe" => op = "probe"
<1> DEFINE Ends == call'.phase # "request" /\ op' \notin {"search", "fetch", "probe"}
<1>1. CASE Connect
  BY <1>1 DEF Connect, MainInv
<1>2. CASE RunTimesOut \/ AuditEnds \/ Close \/ AuditSaves \/ UNCHANGED vars
  BY <1>2 DEF RunTimesOut, AuditEnds, Close, AuditSaves, vars, bridgeVars, auditVars
<1>3. CASE Kill
  BY <1>3, AbortedTurnStartsNothing DEF Kill
<1>4. ASSUME NEW reason, PreflightFails(reason) PROVE Ends
  BY <1>4 DEF PreflightFails, Throw, NoCall
<1>5. CASE Probe
  <2>1. CASE StartCall /\ op' = "preflight"
    <3>1. call' = Failed("abort")
      BY <2>1 DEF StartCall, Request
    <3> QED
      BY <2>1, <3>1 DEF Failed, NoCall
  <2> QED
    BY <1>4, <1>5, <2>1 DEF Probe
<1>6. CASE Preflight
  BY <1>4, <1>6, AbortedTurnStartsNothing DEF Preflight
<1>7. CASE Pause
  BY <1>7 DEF Pause, Throw, bridgeVars
<1>8. CASE ModelStep
  BY <1>8, AbortedCallEnds DEF ModelStep, auditVars
<1>9. CASE Answer
  BY <1>9, AbortedTurnStartsNothing DEF Answer, NoCall
<1>10. CASE Decide
  BY <1>10, AbortedTurnStartsNothing DEF Decide
<1>11. CASE Keep
  BY <1>11, AbortedTurnStartsNothing DEF Keep
<1>12. CASE ToolFails \/ ToolGivesUp
  BY <1>12, AbortedTurnStartsNothing DEF ToolFails, ToolGivesUp
<1>13. ~(\E found \in BOOLEAN : Search(found))
       /\ ~(\E p \in Pages, now \in Times : Fetch(p, now))
  BY DEF Search, Fetch
<1>14. CASE OtherProcess
  BY <1>14 DEF OtherProcess, OtherSaves, OtherBegins, bridgeVars, auditVars
<1> QED
  BY <1>1, <1>2, <1>3, <1>5, <1>6, <1>7, <1>8, <1>9, <1>10, <1>11, <1>12, <1>13, <1>14
  DEF Next, LoopStep

\* However far the audit had come when the run's timer fired: AbortStartsNothing,
\* for any number of turns, searches, fetches and other processes.
THEOREM AbortStartsNothingEver == Spec => AbortStartsNothing
<1>1. MainInv /\ [Next]_vars =>
        [aborted => /\ call'.phase = "request" => UNCHANGED call
                    /\ op' \in {"search", "fetch"} => UNCHANGED <<op, todo>>
                    /\ op' = "probe" => op = "probe"]_vars
  BY AbortedStepStartsNothing
<1> QED
  BY <1>1, MainInvHolds, PTL DEF Spec, AbortStartsNothing

-----------------------------------------------------------------------------
(* What the workspace keeps *)

\* A page that is kept stays kept, whoever saves.
LEMMA KeptStays ==
  ASSUME StoreInv, NEW s \in Savers, NEW q, Kept(q),
         SaveStep(s) \/ \E p \in Pages, now \in Times : ReadIndex(s, p, now)
  PROVE  Kept(q)'
<1>1. CASE \E p \in Pages, now \in Times : ReadIndex(s, p, now)
  BY <1>1 DEF ReadIndex, Kept
<1>2. CASE WriteFile(s)
  BY <1>2 DEF WriteFile, Kept
<1>3. CASE FailSave(s)
  BY <1>3 DEF FailSave, Kept
<1>4. CASE WriteIndex(s)
  <2>1. index' = saving[s].write /\ UNCHANGED <<files, overlapped>> /\ Running(s)
    BY <1>4 DEF WriteIndex, Running
  <2>2. ~overlapped => DOMAIN index \subseteq DOMAIN saving[s].write
    BY <2>1 DEF StoreInv, SaveIsNext
  <2> QED
    BY <2>1, <2>2 DEF Kept
<1> QED
  BY <1>1, <1>2, <1>3, <1>4 DEF SaveStep

\* What a saver's own state may be, with the page of its save.
LEMMA SavingPage ==
  ASSUME StoreInv, NEW s \in Savers, saving[s].step \in {"file", "index", "saved", "failed"}
  PROVE  saving[s].page \in Pages
<1>1. SaveIsSound(s)
  BY DEF StoreInv
<1>2. CASE saving[s] = Idle
  BY <1>2 DEF Idle
<1>3. CASE \E p \in Pages, how \in {"saved", "failed"} : saving[s] = [step |-> how, page |-> p]
  BY <1>3
<1>4. ASSUME NEW p \in Pages, NEW how \in {"file", "index"},
             saving[s] = Writing(how, p, saving[s].write)
      PROVE  saving[s].page \in Pages
  BY <1>4 DEF Writing
<1> QED
  BY <1>1, <1>2, <1>3, <1>4 DEF SaveIsSound

\* The page of a save that went through is kept.
LEMMA SavedIsKept ==
  ASSUME StoreInv, NEW s \in Savers, WriteIndex(s)
  PROVE  Kept(saving[s].page)'
<1> DEFINE q == saving[s].page
           idx == saving[s].write
<1>1. /\ saving[s].step = "index" /\ index' = idx
      /\ saving' = [saving EXCEPT ![s] = Over(s, "saved")]
      /\ UNCHANGED <<files, overlapped>>
  BY DEF WriteIndex
<1>2. saving'[s].page = q
  BY <1>1 DEF StoreInv, Over
<1>3. SaveIsSound(s)
  BY DEF StoreInv
<1>4. PICK p \in Pages, how \in {"file", "index"} :
        /\ saving[s] = Writing(how, p, idx)
        /\ DocOf[p] \in DOMAIN idx
        /\ DOMAIN idx \ (DOMAIN files) \subseteq (IF how = "file" THEN {DocOf[p]} ELSE {})
  <2>1. saving[s] # Idle
    BY <1>1 DEF Idle
  <2>2. ASSUME NEW p \in Pages, NEW how \in {"saved", "failed"},
               saving[s] = [step |-> how, page |-> p]
        PROVE  FALSE
    BY <1>1, <2>2
  <2> QED
    BY <1>3, <2>1, <2>2 DEF SaveIsSound
<1>5. how = "index" /\ q = p
  BY <1>1, <1>4 DEF Writing
<1>6. DocOf[q] \in DOMAIN index' /\ DocOf[q] \in DOMAIN files'
  BY <1>1, <1>4, <1>5
<1> QED
  BY <1>2, <1>6 DEF Kept

-----------------------------------------------------------------------------
(* The summary *)

WorkType == [found : BOOLEAN, fetched : SUBSET Pages, failed : Nat]
StateType == [turn : 0..MaxIterations, found : BOOLEAN, fetched : SUBSET Pages, failed : Nat]

LEMMA CallTypes ==
  /\ NoCall \in Call /\ NoCall.phase = "none"
  /\ Answered \in Call /\ Answered.phase = "answered"
  /\ \A e \in Failures : Failed(e) \in Call /\ Failed(e).phase = "failed"
  /\ \A m \in {"main", "fallback"}, n \in 1..MaxAttempts :
       /\ Requesting(m, n) \in Call /\ Requesting(m, n).phase = "request"
<1>1. NoCall \in Call
  BY DEF NoCall, Call, Phases, MaxAttempts, Statuses, Failures
<1>2. Answered \in Call /\ Answered.phase = "answered"
  BY <1>1 DEF Answered, NoCall, Call, Phases
<1>3. \A e \in Failures : Failed(e) \in Call /\ Failed(e).phase = "failed"
  BY <1>1 DEF Failed, NoCall, Call, Phases
<1>4. \A m \in {"main", "fallback"}, n \in 1..MaxAttempts :
        Requesting(m, n) \in Call /\ Requesting(m, n).phase = "request"
  BY <1>1 DEF Requesting, NoCall, Call, Phases
<1> QED
  BY <1>1, <1>2, <1>3, <1>4 DEF NoCall

\* A call that sleeps has an attempt left, whatever it goes through.
CallInv == call \in Call /\ (call.phase = "sleep" => call.attempt < MaxAttempts)

LEMMA StartCallKeepsCall == StartCall => CallInv'
<1>1. 1 \in 1..MaxAttempts /\ "abort" \in Failures
  BY DEF MaxAttempts, Failures
<1> QED
  BY <1>1, CallTypes DEF StartCall, Request, CallInv

LEMMA CallStepKeepsCall ==
  ASSUME CallInv, CallStep
  PROVE  CallInv'
<1>1. call \in Call /\ call.attempt \in 1..MaxAttempts
  BY DEF CallInv, Call
<1>2. ASSUME NEW e \in Failures, LeaveModel(e) PROVE CallInv'
  <2>1. 1 \in 1..MaxAttempts /\ "abort" \in Failures
    BY DEF MaxAttempts, Failures
  <2> QED
    BY <1>2, <2>1, CallTypes DEF LeaveModel, Request, CallInv
<1>3. ASSUME NEW e \in Failures, Caught(e) PROVE CallInv'
  <2>1. CASE call' = Sleeping /\ CanRetry
    <3>1. call' \in Call
      BY <1>1, <2>1 DEF Sleeping, Call, Phases, Statuses
    <3>2. call'.attempt = call.attempt
      BY <1>1, <2>1 DEF Sleeping, Call
    <3> QED
      BY <2>1, <3>1, <3>2 DEF CallInv, CanRetry
  <2> QED
    BY <1>2, <1>3, <2>1 DEF Caught
<1>4. ASSUME NEW status \in Statuses, Headers(status) PROVE CallInv'
  <2>1. call' \in Call /\ call'.phase = "body"
    BY <1>1, <1>4 DEF Headers, Call, Phases
  <2> QED
    BY <2>1 DEF CallInv
<1>5. ASSUME NEW text \in BOOLEAN, NEW valid \in BOOLEAN, Body(text, valid) PROVE CallInv'
  <2>1. BodyError(text, valid) \in Failures
    BY DEF BodyError, Failures
  <2> QED
    BY <1>3, <1>5, <2>1, CallTypes DEF Body, CallInv
<1>6. ASSUME NEW e \in {"retryable", "final"}, BodyFails(e) \/ RequestFails(e) PROVE CallInv'
  BY <1>3, <1>6 DEF BodyFails, RequestFails, Failures
<1>7. CASE RequestAborts
  BY <1>3, <1>7 DEF RequestAborts, Failures
<1>8. CASE SleepAborts
  BY <1>2, <1>8 DEF SleepAborts, Failures
<1>9. CASE Wake
  <2>1. call.model \in {"main", "fallback"} /\ call.attempt + 1 \in 1..MaxAttempts
    BY <1>1, <1>9 DEF Wake, Call, CallInv, MaxAttempts
  <2> QED
    BY <1>9, <2>1, CallTypes DEF Wake, CallInv
<1>10. CASE ServerAnswers
  BY <1>4, <1>10 DEF ServerAnswers, Statuses
<1> QED
  BY <1>5, <1>6, <1>7, <1>8, <1>9, <1>10 DEF CallStep, BodyEnds, BridgeTimers

\* What holds when the audit goes on from where it has neither ended nor been
\* given up by the process.
Live == op \notin Ended \cup {"idle"}

Moving ==
  /\ HonestInv /\ Live
  /\ UNCHANGED <<aborted, main, error, attempt, others>>
  /\ everFailed' \in BOOLEAN
  /\ saving'[Audit].step = "saved" => Kept(saving[Audit].page)'

\* While the audit goes on there is no summary, so main's end waits for it.
LEMMA LiveFacts ==
  ASSUME HonestInv, Live
  PROVE  /\ summary = None
         /\ main # "connect" /\ error \notin {"connect", "failed"}
         /\ ~(main = "closing" /\ error \in {"none", "cleanup"})
         /\ ~(main = "exited" /\ error \in {"none", "cleanup"})
         /\ state.turn + 1 \in 1..MaxIterations
<1>1. summary = None
  BY DEF HonestInv, EndInv, Live
<1>2. state.turn \in Nat /\ state.turn < MaxIterations
  BY DEF HonestInv, SummaryIsHonest, TypeOK, LoopInv, Live
<1> QED
  BY <1>1, <1>2, LiveAuditAssumption
  DEF HonestInv, SummaryIsHonest, EndInv, Live, Ended, LateSummaryIsHonest

LEMMA MovingKeepsInv ==
  ASSUME Moving, CallInv', op' \in Ops \ {"idle"},
         state' \in StateType, work' \in WorkType,
         todo' = NoDecision \/ todo' \in Decisions,
         \A p \in work'.fetched : Kept(p)',
         op' = "pause" => attempt < PreflightRetries,
         op' \notin Ended => state'.turn < MaxIterations,
         op' \in {"search", "fetch", "save"} =>
           todo' \in Decisions /\ todo'.kind \notin Terminal,
         op' \in BeforeLoop => ~everFailed',
         op' \in InTurn /\ everFailed' => work'.failed > 0,
         op' # "done" => summary' = None,
         op' = "done" => /\ CompleteIsClean' /\ summary' # None
                         /\ aborted => summary'.status = "incomplete"
  PROVE  HonestInv'
<1>1. TypeOK /\ EndInv /\ LateSummaryIsHonest
  BY DEF Moving, HonestInv, SummaryIsHonest
<1>2. UNCHANGED <<aborted, main, error, attempt, others>>
  BY DEF Moving
<1>3. TypeOK'
  BY <1>1, <1>2 DEF TypeOK, Moving, CallInv, StateType, WorkType
<1>4. KeptInv'
  BY DEF KeptInv, Moving
<1>5. LoopInv'
  BY <1>2 DEF LoopInv, CallInv
<1>6. EndInv' /\ LateSummaryIsHonest'
  <2>1. /\ main # "connect" /\ error \notin {"connect", "failed"}
        /\ ~(main = "closing" /\ error \in {"none", "cleanup"})
        /\ ~(main = "exited" /\ error \in {"none", "cleanup"})
    BY LiveFacts DEF Moving
  <2>2. error = "timeout" => aborted
    BY <1>1 DEF EndInv
  <2>3. main \in {"connect", "running"} => error = "none"
    BY <1>1 DEF EndInv
  <2>4. EndInv'
    BY <1>2, <2>1, <2>2, <2>3 DEF EndInv, Ended
  <2>5. LateSummaryIsHonest'
    BY <1>2, <2>1, <2>2 DEF LateSummaryIsHonest
  <2> QED
    BY <2>4, <2>5
<1>7. CompleteIsClean'
  <2>1. CASE op' = "done"
    BY <2>1
  <2>2. CASE op' # "done"
    BY <2>2 DEF CompleteIsClean
  <2> QED
    BY <2>1, <2>2
<1> QED
  BY <1>3, <1>4, <1>5, <1>6, <1>7 DEF HonestInv, SummaryIsHonest

LEMMA NothingTypes ==
  /\ Nothing \in WorkType /\ Nothing.fetched = {}
  /\ FirstState \in StateType /\ FirstState.turn = 0 /\ FirstState.fetched = {}
  BY LiveAuditAssumption DEF Nothing, WorkType, FirstState, StateType

\* An audit that throws, wherever it is, leaves no summary.
LEMMA ThrowKeepsInv ==
  ASSUME Moving, AuditThrows
  PROVE  HonestInv'
<1>1. /\ op' = "threw" /\ work' = Nothing /\ todo' = NoDecision
      /\ call' = NoCall /\ state' = state /\ summary' = summary
  BY DEF AuditThrows, Throw
<1>2. CallInv'
  BY <1>1, CallTypes DEF CallInv
<1>3. state' \in StateType
  BY <1>1 DEF Moving, HonestInv, SummaryIsHonest, TypeOK, StateType
<1>4. summary' = None
  BY <1>1, LiveFacts DEF Moving
<1>5. op' \in Ops \ {"idle"} /\ op' \in Ended /\ op' \notin BeforeLoop \cup InTurn
  BY <1>1 DEF Ops, Ended, BeforeLoop, InTurn
<1> QED
  BY <1>1, <1>2, <1>3, <1>4, <1>5, NothingTypes, MovingKeepsInv

\* A turn begins, unless the signal has aborted, with what the last one left.
LEMMA StartKeepsInv ==
  ASSUME Moving, NEW s \in StateType, StartTurn(s), s.turn < MaxIterations,
         everFailed' => s.failed > 0, \A p \in s.fetched : Kept(p)'
  PROVE  HonestInv'
<1>1. state' = s /\ summary' = None
  BY LiveFacts DEF StartTurn, Moving
<1>2. CASE aborted
  <2>1. op' = "threw" /\ work' = Nothing /\ todo' = NoDecision /\ call' = NoCall
    BY <1>2 DEF StartTurn, Throw
  <2>2. CallInv'
    BY <2>1, CallTypes DEF CallInv
  <2>3. op' \in Ops \ {"idle"} /\ op' \in Ended /\ op' \notin BeforeLoop \cup InTurn
    BY <2>1 DEF Ops, Ended, BeforeLoop, InTurn
  <2> QED
    BY <1>1, <2>1, <2>2, <2>3, NothingTypes, MovingKeepsInv
<1>3. CASE ~aborted
  <2>1. op' = "ask" /\ work' = CopyOf(s) /\ todo' = NoDecision /\ CallInv'
    BY <1>3, StartCallKeepsCall DEF StartTurn
  <2>2. work' \in WorkType /\ work'.fetched = s.fetched /\ work'.failed = s.failed
    BY <2>1 DEF CopyOf, WorkType, StateType
  <2>3. op' \in Ops \ {"idle"} /\ op' \notin BeforeLoop
    BY <2>1 DEF Ops, BeforeLoop
  <2> QED
    BY <1>1, <2>1, <2>2, <2>3, MovingKeepsInv
<1> QED
  BY <1>2, <1>3

\* A summary that says complete ends on a terminal decision, and if that was to
\* finalize without a failed call; after the abort none is terminal.
LEMMA ReportKeepsInv ==
  ASSUME Moving, NEW s \in StateType, NEW kind \in Kinds, Report(kind, s),
         everFailed' => s.failed > 0, \A p \in s.fetched : Kept(p)',
         aborted => kind \notin Terminal
  PROVE  HonestInv'
<1>1. /\ state' = s /\ work' = Nothing /\ todo' = NoDecision /\ call' = NoCall
      /\ op' \in Ended
  BY DEF Report, Ended
<1>2. CallInv'
  BY <1>1, CallTypes DEF CallInv
<1>3. /\ op' \in Ops \ {"idle"} /\ op' \notin BeforeLoop \cup InTurn
      /\ op' \notin {"search", "fetch", "save", "pause"}
  BY <1>1 DEF Ops, Ended, BeforeLoop, InTurn
<1>4. op' # "done" => summary' = None
  BY LiveFacts DEF Report, Moving
<1>5. ASSUME op' = "done"
      PROVE  /\ CompleteIsClean' /\ summary' # None
             /\ aborted => summary'.status = "incomplete"
  <2>1. PICK met \in BOOLEAN : summary' = SummaryOf(kind, s, met)
    BY <1>5 DEF Report
  <2>2. summary'.kind = kind /\ summary'.fetched = s.fetched
    BY <2>1 DEF SummaryOf
  <2>3. summary'.status = IF kind \in Terminal /\ met /\ ~Gated(kind, s)
                          THEN "complete" ELSE "incomplete"
    BY <2>1 DEF SummaryOf
  <2>4. summary' # None
    BY <2>2, LiveAuditAssumption DEF None, Kinds, Terminal
  <2>5. \A p \in s.fetched : DocOf[p] \in DOMAIN files'
                             /\ (~overlapped' => DocOf[p] \in DOMAIN index')
    BY DEF Kept
  <2>6. ASSUME summary'.status = "complete"
        PROVE  kind \in Terminal /\ (kind = "finalize" => ~everFailed')
    <3>1. kind \in Terminal /\ ~Gated(kind, s)
      BY <2>3, <2>6
    <3>2. kind = "finalize" => s.failed = 0
      BY <3>1 DEF Gated, Transport
    <3> QED
      BY <3>1, <3>2
  <2>7. CompleteIsClean'
    BY <2>2, <2>5, <2>6 DEF CompleteIsClean
  <2> QED
    BY <2>3, <2>4, <2>7
<1> QED
  BY <1>1, <1>2, <1>3, <1>4, <1>5, NothingTypes, MovingKeepsInv

LEMMA EndTurnKeepsInv ==
  ASSUME Moving, NEW w \in WorkType, NEW kind \in Kinds, EndTurn(kind, w),
         everFailed' => w.failed > 0, \A p \in w.fetched : Kept(p)',
         aborted => kind \notin Terminal
  PROVE  HonestInv'
<1> DEFINE s == AfterTurn(w)
<1>1. state.turn + 1 \in 1..MaxIterations /\ state.turn \in Nat
  BY LiveFacts DEF Moving, HonestInv, SummaryIsHonest, TypeOK
<1>2. /\ s \in StateType /\ s.turn = state.turn + 1
      /\ s.fetched = w.fetched /\ s.failed = w.failed
  BY <1>1, LiveAuditAssumption DEF AfterTurn, StateType, WorkType
<1>3. CASE kind \in Terminal \/ state.turn + 1 = MaxIterations
  BY <1>2, <1>3, ReportKeepsInv DEF EndTurn
<1>4. CASE ~(kind \in Terminal \/ state.turn + 1 = MaxIterations)
  <2>1. s.turn < MaxIterations /\ StartTurn(s)
    BY <1>1, <1>2, <1>4, LiveAuditAssumption DEF EndTurn
  <2> QED
    BY <1>2, <2>1, StartKeepsInv
<1> QED
  BY <1>3, <1>4

\* The next action of a decision begins or the turn ends.
LEMMA NextActionKeepsInv ==
  ASSUME Moving, NEW w \in WorkType, NEW d \in Decisions, NextAction(w, d),
         everFailed' => w.failed > 0, \A p \in w.fetched : Kept(p)',
         d.kind \in Terminal => d.searches + d.fetches = 0 /\ ~aborted
  PROVE  HonestInv'
<1>1. /\ d.kind \in Kinds /\ d.searches \in 0..MaxSearches /\ d.fetches \in 0..MaxFetches
      /\ d.searches \in Nat /\ d.fetches \in Nat
  BY DEF Decisions
<1>2. CASE d.searches + d.fetches = 0
  BY <1>1, <1>2, EndTurnKeepsInv DEF NextAction
<1>3. CASE d.searches + d.fetches # 0 /\ aborted
  BY <1>3, ThrowKeepsInv DEF NextAction, AuditThrows
<1>4. CASE d.searches + d.fetches # 0 /\ ~aborted
  <2>1. /\ state' = state /\ summary' = summary /\ call' = NoCall /\ work' = w
        /\ op' \in {"search", "fetch"}
        /\ todo' = IF d.searches > 0 THEN [d EXCEPT !.searches = @ - 1]
                   ELSE [d EXCEPT !.fetches = @ - 1]
    BY <1>4 DEF NextAction
  <2>2. todo' \in Decisions /\ todo'.kind = d.kind
    <3>1. CASE d.searches > 0
      <4>1. todo' = [d EXCEPT !.searches = d.searches - 1] /\ d.searches - 1 \in 0..MaxSearches
        BY <1>1, <2>1, <3>1, LiveAuditAssumption
      <4> QED
        BY <4>1 DEF Decisions
    <3>2. CASE d.searches = 0
      <4>1. todo' = [d EXCEPT !.fetches = d.fetches - 1] /\ d.fetches - 1 \in 0..MaxFetches
        BY <1>1, <1>4, <2>1, <3>2, LiveAuditAssumption
      <4> QED
        BY <4>1 DEF Decisions
    <3> QED
      BY <1>1, <3>1, <3>2
  <2>3. d.kind \notin Terminal
    BY <1>4
  <2>4. CallInv'
    BY <2>1, CallTypes DEF CallInv
  <2>5. state' \in StateType /\ state'.turn < MaxIterations /\ summary' = None
    <3>1. state \in StateType /\ state.turn < MaxIterations
      BY DEF Moving, Live, HonestInv, SummaryIsHonest, TypeOK, LoopInv, StateType
    <3> QED
      BY <2>1, <3>1, LiveFacts DEF Moving
  <2>6. op' \in Ops \ {"idle"} /\ op' \notin BeforeLoop \cup Ended /\ op' # "done" /\ op' # "pause"
    BY <2>1 DEF Ops, BeforeLoop, Ended
  <2> QED
    BY <2>1, <2>2, <2>3, <2>4, <2>5, <2>6, MovingKeepsInv
<1> QED
  BY <1>2, <1>3, <1>4

\* What only a save of another process, or none, changes: nothing of the audit.
LEMMA StoreOnlyKeepsInv ==
  ASSUME HonestInv, UNCHANGED <<bridgeVars, auditVars>>, others' \in 0..MaxOtherSaves,
         \A q : Kept(q) => Kept(q)',
         saving'[Audit].step = "saved" => Kept(saving[Audit].page)'
  PROVE  HonestInv'
<1>1. UNCHANGED <<aborted, call, main, error, op, attempt, state, work, todo, summary, everFailed>>
  BY DEF bridgeVars, auditVars
<1>2. TypeOK'
  BY <1>1 DEF HonestInv, SummaryIsHonest, TypeOK
<1>3. LoopInv' /\ EndInv' /\ LateSummaryIsHonest'
  BY <1>1 DEF HonestInv, SummaryIsHonest, LoopInv, EndInv, LateSummaryIsHonest
<1>4. KeptInv'
  BY <1>1 DEF HonestInv, KeptInv
<1>5. CompleteIsClean'
  <2>1. CompleteIsClean
    BY DEF HonestInv, SummaryIsHonest
  <2>2. summary # None => \A p \in summary.fetched : Kept(p)'
    BY <2>1 DEF CompleteIsClean, Kept
  <2> QED
    BY <1>1, <2>1, <2>2 DEF CompleteIsClean, Kept
<1> QED
  BY <1>2, <1>3, <1>4, <1>5 DEF HonestInv, SummaryIsHonest

\* Nothing of the workspace changes.
LEMMA StoreStutters ==
  ASSUME StoreInv, HonestInv, UNCHANGED storeVars
  PROVE  /\ \A q : Kept(q) => Kept(q)'
         /\ saving'[Audit].step = "saved" => Kept(saving[Audit].page)'
<1>1. UNCHANGED <<files, index, saving, overlapped>>
  BY DEF storeVars
<1> QED
  BY <1>1 DEF Kept, HonestInv, KeptInv

\* The audit's save ends and its page is forgotten by the saver.
LEMMA SaveForgotten ==
  ASSUME StoreInv, saving' = [saving EXCEPT ![Audit] = Idle],
         UNCHANGED <<files, index, finished, overlapped>>
  PROVE  /\ \A q : Kept(q) => Kept(q)'
         /\ saving'[Audit].step # "saved"
<1>1. saving'[Audit] = Idle
  BY LiveAuditAssumption DEF StoreInv
<1> QED
  BY <1>1 DEF Kept, Idle

\* Main's own steps.
LEMMA MainKeepsInv ==
  ASSUME StoreInv, HonestInv, Connect \/ RunTimesOut \/ AuditEnds \/ Close
  PROVE  HonestInv'
<1>1. /\ UNCHANGED <<call, attempt, state, work, todo, summary, everFailed, others>>
      /\ UNCHANGED storeVars
  BY DEF Connect, RunTimesOut, AuditEnds, Close, bridgeVars
<1>2. KeptInv'
  BY <1>1, StoreStutters DEF HonestInv, KeptInv
<1>3. CompleteIsClean'
  BY <1>1 DEF storeVars, HonestInv, SummaryIsHonest, CompleteIsClean
<1>4. TypeOK /\ LoopInv /\ EndInv /\ LateSummaryIsHonest
  BY DEF HonestInv, SummaryIsHonest
<1>5. aborted \in BOOLEAN /\ main \in {"connect", "running", "closing", "exited"}
      /\ error \in Errors /\ op \in Ops
  BY <1>4 DEF TypeOK
<1>6. CASE Connect
  <2>1. op = "idle" /\ error = "none" /\ aborted' = aborted
    BY <1>4, <1>6 DEF Connect, EndInv, bridgeVars
  <2>2. TypeOK'
    BY <1>1, <1>4, <1>6, <2>1 DEF Connect, TypeOK, Errors, Ops
  <2>3. LoopInv'
    BY <1>1, <1>4, <1>6, <2>1 DEF Connect, LoopInv, BeforeLoop, InTurn, Ended
  <2>4. EndInv' /\ LateSummaryIsHonest'
    BY <1>1, <1>4, <1>6, <2>1 DEF Connect, EndInv, LateSummaryIsHonest, Ended
  <2> QED
    BY <1>2, <1>3, <2>2, <2>3, <2>4 DEF HonestInv, SummaryIsHonest
<1>7. CASE RunTimesOut
  <2>1. summary = None /\ op # "done"
    BY <1>4, <1>7 DEF RunTimesOut, EndInv, Ended
  <2>2. TypeOK'
    BY <1>1, <1>4, <1>7 DEF RunTimesOut, TypeOK, Errors
  <2>3. LoopInv'
    BY <1>1, <1>4, <1>7 DEF RunTimesOut, LoopInv
  <2>4. EndInv' /\ LateSummaryIsHonest'
    BY <1>1, <1>4, <1>7, <2>1 DEF RunTimesOut, EndInv, LateSummaryIsHonest
  <2> QED
    BY <1>2, <1>3, <2>2, <2>3, <2>4 DEF HonestInv, SummaryIsHonest
<1>8. CASE AuditEnds
  <2>1. op' = op /\ aborted' = aborted /\ error = "none" /\ main' = "closing"
    BY <1>4, <1>8 DEF AuditEnds, EndInv, bridgeVars
  <2>2. error' = (IF op = "threw" THEN "failed" ELSE "none") /\ op \in {"done", "threw"}
    BY <1>8, <2>1 DEF AuditEnds, Ended
  <2>3. op = "threw" => summary = None
    BY <1>4, <1>8 DEF AuditEnds, EndInv
  <2>4. TypeOK'
    BY <1>1, <1>4, <2>1, <2>2 DEF TypeOK, Errors
  <2>5. LoopInv'
    BY <1>1, <1>4, <2>1 DEF LoopInv
  <2>6. EndInv' /\ LateSummaryIsHonest'
    BY <1>1, <1>4, <2>1, <2>2, <2>3 DEF EndInv, LateSummaryIsHonest
  <2> QED
    BY <1>2, <1>3, <2>4, <2>5, <2>6 DEF HonestInv, SummaryIsHonest
<1>9. CASE Close
  <2>1. op' = op /\ aborted' = aborted /\ main = "closing" /\ main' = "exited"
    BY <1>9 DEF Close, bridgeVars
  <2>2. error' = error \/ (error = "none" /\ error' = "cleanup")
    BY <1>9 DEF Close
  <2>3. error \in {"none", "cleanup"} => summary # None
    BY <1>4, <2>1 DEF EndInv
  <2>4. TypeOK'
    BY <1>1, <1>4, <2>1, <2>2 DEF TypeOK, Errors
  <2>5. LoopInv'
    BY <1>1, <1>4, <2>1 DEF LoopInv
  <2>6. EndInv' /\ LateSummaryIsHonest'
    BY <1>1, <1>4, <2>1, <2>2, <2>3 DEF EndInv, LateSummaryIsHonest
  <2> QED
    BY <1>2, <1>3, <2>4, <2>5, <2>6 DEF HonestInv, SummaryIsHonest
<1> QED
  BY <1>6, <1>7, <1>8, <1>9

\* The preflight.
LEMMA PreflightKeepsInv ==
  ASSUME StoreInv, HonestInv, Probe \/ Preflight \/ Pause
  PROVE  HonestInv'
<1>1. /\ UNCHANGED storeVars /\ UNCHANGED <<aborted, main, error, everFailed, others>>
      /\ op \in {"probe", "preflight", "pause"}
  BY DEF Probe, Preflight, Pause, bridgeVars
<1>2. TypeOK /\ LoopInv
  BY DEF HonestInv, SummaryIsHonest
<1>3. Live /\ everFailed \in BOOLEAN /\ ~everFailed /\ summary = None
  <2>1. Live /\ op \in BeforeLoop
    BY <1>1 DEF Live, Ended, BeforeLoop
  <2> QED
    BY <1>2, <2>1, LiveFacts DEF TypeOK, LoopInv
<1>4. /\ \A p \in work.fetched : Kept(p)'
      /\ saving'[Audit].step = "saved" => Kept(saving[Audit].page)'
  BY <1>1, StoreStutters DEF HonestInv, KeptInv
<1>5. state \in StateType /\ work \in WorkType /\ state.turn < MaxIterations
  BY <1>2, <1>3 DEF TypeOK, LoopInv, StateType, WorkType, Live
<1>6. attempt' = attempt => Moving
  BY <1>1, <1>3, <1>4 DEF Moving
<1>7. ASSUME NEW reason, PreflightFails(reason), attempt' = attempt PROVE HonestInv'
  <2>1. CASE op' = "pause" /\ UNCHANGED <<work, todo>> /\ attempt < PreflightRetries
    <3>1. call' = NoCall /\ state' = state /\ summary' = summary /\ CallInv'
      BY <1>7, CallTypes DEF PreflightFails, CallInv
    <3>2. /\ op' \in Ops \ {"idle"} /\ op' \notin InTurn \cup Ended
          /\ op' \notin {"search", "fetch", "save", "done"}
      BY <2>1 DEF Ops, InTurn, Ended
    <3>3. todo' = NoDecision \/ todo' \in Decisions
      BY <1>2, <2>1 DEF TypeOK
    <3> QED
      BY <1>1, <1>3, <1>4, <1>5, <1>6, <1>7, <2>1, <3>1, <3>2, <3>3, MovingKeepsInv
  <2>2. CASE Throw
    BY <1>6, <1>7, <2>2, ThrowKeepsInv DEF PreflightFails, AuditThrows
  <2> QED
    BY <1>7, <2>1, <2>2 DEF PreflightFails
<1>8. CASE Probe
  <2>1. CASE op' = "preflight" /\ StartCall /\ UNCHANGED <<state, work, todo, summary>>
    <3>1. CallInv' /\ attempt' = attempt
      BY <1>8, <2>1, StartCallKeepsCall DEF Probe
    <3>2. /\ op' \in Ops \ {"idle"} /\ op' \notin InTurn \cup Ended
          /\ op' \notin {"search", "fetch", "save", "done", "pause"}
      BY <2>1 DEF Ops, InTurn, Ended
    <3>3. todo' = NoDecision \/ todo' \in Decisions
      BY <1>2, <2>1 DEF TypeOK
    <3> QED
      BY <1>1, <1>3, <1>4, <1>5, <1>6, <2>1, <3>1, <3>2, <3>3, MovingKeepsInv
  <2> QED
    BY <1>7, <1>8, <2>1 DEF Probe
<1>9. CASE Preflight
  <2>1. CASE StartTurn(FirstState)
    <3>1. FirstState.turn < MaxIterations
      BY NothingTypes, LiveAuditAssumption
    <3> QED
      BY <1>1, <1>3, <1>6, <1>9, <2>1, <3>1, NothingTypes, StartKeepsInv DEF Preflight
  <2> QED
    BY <1>7, <1>9, <2>1 DEF Preflight
<1>10. CASE Pause
  <2>1. CASE aborted
    <3>1. Throw /\ attempt' = attempt /\ call' = call /\ state' = state /\ summary' = summary
      BY <1>10, <2>1 DEF Pause, bridgeVars
    <3>2. /\ op' = "threw" /\ work' = Nothing /\ todo' = NoDecision
      BY <3>1 DEF Throw
    <3>3. op' \in Ops \ {"idle"} /\ op' \in Ended /\ op' \notin BeforeLoop \cup InTurn
      BY <3>2 DEF Ops, Ended, BeforeLoop, InTurn
    <3>4. CallInv'
      BY <1>2, <3>1 DEF TypeOK, LoopInv, CallInv
    <3> QED
      BY <1>1, <1>3, <1>5, <1>6, <3>1, <3>2, <3>3, <3>4, NothingTypes, MovingKeepsInv
  <2>2. CASE ~aborted
    <3>1. /\ op' = "probe" /\ attempt' = attempt + 1
          /\ UNCHANGED <<call, state, work, todo, summary>>
      BY <1>10, <2>2 DEF Pause, bridgeVars
    <3>2. attempt < PreflightRetries /\ attempt \in Nat /\ op = "pause"
      BY <1>2, <1>10 DEF Pause, LoopInv, TypeOK
    <3>3. TypeOK'
      BY <1>1, <1>2, <3>1, <3>2, LiveAuditAssumption DEF TypeOK, Ops
    <3>4. LoopInv'
      BY <1>1, <1>2, <1>3, <1>5, <3>1 DEF LoopInv, BeforeLoop, InTurn
    <3>5. EndInv' /\ LateSummaryIsHonest' /\ CompleteIsClean'
      BY <1>1, <1>3, <3>1, <3>2
      DEF HonestInv, SummaryIsHonest, EndInv, LateSummaryIsHonest, CompleteIsClean, Ended
    <3>6. KeptInv'
      BY <1>4, <3>1 DEF KeptInv
    <3> QED
      BY <3>3, <3>4, <3>5, <3>6 DEF HonestInv, SummaryIsHonest
  <2> QED
    BY <2>1, <2>2
<1> QED
  BY <1>8, <1>9, <1>10

\* A step of the model call.
LEMMA ModelStepKeepsInv ==
  ASSUME StoreInv, HonestInv, ModelStep
  PROVE  HonestInv'
<1>1. /\ UNCHANGED storeVars /\ UNCHANGED auditVars /\ others' = others
      /\ aborted' = aborted /\ CallStep
  BY DEF ModelStep, CallStep, ServerAnswers, Headers, BodyEnds, Body, BodyFails,
         BridgeTimers, RequestFails, RequestAborts, Wake, SleepAborts
<1>2. UNCHANGED <<main, error, op, attempt, state, work, todo, summary, everFailed>>
  BY <1>1 DEF auditVars
<1>3. CallInv'
  BY <1>1, CallStepKeepsCall DEF HonestInv, SummaryIsHonest, TypeOK, LoopInv, CallInv
<1>4. TypeOK'
  BY <1>1, <1>2, <1>3 DEF HonestInv, SummaryIsHonest, TypeOK, CallInv
<1>5. LoopInv'
  BY <1>2, <1>3 DEF HonestInv, LoopInv, CallInv
<1>6. EndInv' /\ LateSummaryIsHonest'
  BY <1>1, <1>2 DEF HonestInv, SummaryIsHonest, EndInv, LateSummaryIsHonest
<1>7. KeptInv'
  BY <1>1, <1>2, StoreStutters DEF HonestInv, KeptInv
<1>8. CompleteIsClean'
  BY <1>1, <1>2 DEF storeVars, HonestInv, SummaryIsHonest, CompleteIsClean
<1> QED
  BY <1>4, <1>5, <1>6, <1>7, <1>8 DEF HonestInv, SummaryIsHonest

\* What a turn's step may rely on.
LEMMA TurnFacts ==
  ASSUME StoreInv, HonestInv, op \in InTurn, UNCHANGED <<aborted, main, error, attempt, others>>,
         everFailed' \in BOOLEAN,
         saving'[Audit].step = "saved" => Kept(saving[Audit].page)'
  PROVE  /\ Moving /\ work \in WorkType
         /\ everFailed => work.failed > 0
         /\ WithFailure \in WorkType /\ WithFailure.failed > 0
         /\ WithFailure.fetched = work.fetched
         /\ \A p \in work.fetched : Kept(p)
         /\ op \in {"search", "fetch", "save"} => todo \in Decisions /\ todo.kind \notin Terminal
<1>1. Moving
  BY DEF Moving, Live, InTurn, Ended
<1>2. work \in WorkType /\ (everFailed => work.failed > 0)
  BY DEF HonestInv, SummaryIsHonest, TypeOK, LoopInv, WorkType
<1>3. /\ WithFailure \in WorkType /\ WithFailure.failed > 0
      /\ WithFailure.fetched = work.fetched
  BY <1>2 DEF WithFailure, WorkType
<1> QED
  BY <1>1, <1>2, <1>3 DEF HonestInv, KeptInv, LoopInv

\* The model's answer, what is decided from it, and the tools that do not save.
LEMMA ToolKeepsInv ==
  ASSUME StoreInv, HonestInv,
         \/ Answer \/ Decide \/ ToolFails \/ ToolGivesUp
         \/ \E found \in BOOLEAN : Search(found)
  PROVE  HonestInv'
<1>1. /\ UNCHANGED storeVars /\ UNCHANGED <<aborted, main, error, attempt, others>>
      /\ op \in InTurn
  BY DEF Answer, Decide, ToolFails, ToolGivesUp, Search, InTurn
<1>2. everFailed' \in BOOLEAN
  BY DEF Answer, Decide, ToolFails, ToolGivesUp, Search, HonestInv, SummaryIsHonest, TypeOK
<1>3. /\ \A q : Kept(q) => Kept(q)'
      /\ saving'[Audit].step = "saved" => Kept(saving[Audit].page)'
  BY <1>1, StoreStutters
<1>4. /\ Moving /\ work \in WorkType
      /\ everFailed => work.failed > 0
      /\ WithFailure \in WorkType /\ WithFailure.failed > 0
      /\ WithFailure.fetched = work.fetched
      /\ \A p \in work.fetched : Kept(p)'
      /\ op \in {"search", "fetch", "save"} => todo \in Decisions /\ todo.kind \notin Terminal
  BY <1>1, <1>2, <1>3, TurnFacts
<1>5. CASE Answer
  <2>1. CASE call.phase = "failed"
    BY <1>4, <1>5, <2>1, ThrowKeepsInv DEF Answer
  <2>2. CASE call.phase # "failed"
    <3>1. /\ op' = "persist" /\ call' = NoCall /\ UNCHANGED <<state, work, todo, summary>>
          /\ everFailed' = everFailed
      BY <1>5, <2>2 DEF Answer
    <3>2. CallInv'
      BY <3>1, CallTypes DEF CallInv
    <3>3. state \in StateType /\ state.turn < MaxIterations /\ (todo = NoDecision \/ todo \in Decisions)
      BY <1>4 DEF Moving, Live, HonestInv, SummaryIsHonest, TypeOK, LoopInv, StateType
    <3>4. /\ op' \in Ops \ {"idle"} /\ op' \notin BeforeLoop \cup Ended
          /\ op' \notin {"search", "fetch", "save", "done", "pause"}
      BY <3>1 DEF Ops, BeforeLoop, Ended
    <3>5. summary' = None
      BY <1>4, <3>1, LiveFacts DEF Moving
    <3> QED
      BY <1>4, <3>1, <3>2, <3>3, <3>4, <3>5, MovingKeepsInv
  <2> QED
    BY <2>1, <2>2
<1>6. CASE Decide
  <2>1. ASSUME NEW d \in Decisions, ~Invalid(d), ~aborted, NextAction(work, d)
        PROVE  HonestInv'
    <3>1. d.kind \in Terminal => d.searches + d.fetches = 0
      BY <2>1 DEF Invalid, Decisions
    <3>2. everFailed' = everFailed
      BY <1>6 DEF Decide
    <3> QED
      BY <1>4, <2>1, <3>1, <3>2, NextActionKeepsInv
  <2> QED
    BY <1>4, <1>6, <2>1, ThrowKeepsInv DEF Decide
<1>7. CASE ToolFails
  BY <1>4, <1>7, NextActionKeepsInv DEF ToolFails
<1>8. CASE ToolGivesUp
  BY <1>4, <1>8, ThrowKeepsInv DEF ToolGivesUp
<1>9. ASSUME NEW found \in BOOLEAN, Search(found) PROVE HonestInv'
  <2> DEFINE w == [work EXCEPT !.found = @ \/ found]
  <2>1. w \in WorkType /\ w.fetched = work.fetched /\ w.failed = work.failed
    <3>1. (work.found \/ found) \in BOOLEAN
      OBVIOUS
    <3> QED
      BY <1>4, <3>1 DEF WorkType
  <2>2. NextAction(w, todo) /\ everFailed' = everFailed /\ op = "search"
    BY <1>9 DEF Search
  <2> HIDE DEF w
  <2> QED
    BY <1>4, <2>1, <2>2, NextActionKeepsInv
<1> QED
  BY <1>5, <1>6, <1>7, <1>8, <1>9

\* A fetch, from the page to its place in the workspace.
LEMMA FetchKeepsInv ==
  ASSUME StoreInv, HonestInv, NEW p \in Pages, NEW now \in Times, Fetch(p, now)
  PROVE  HonestInv'
<1>1. /\ ReadIndex(Audit, p, now) /\ op = "fetch" /\ op' = "save"
      /\ UNCHANGED <<bridgeVars, main, error, attempt, state, work, todo, summary, everFailed, others>>
  BY DEF Fetch
<1>2. UNCHANGED <<aborted, call>> /\ Audit \in Savers
  BY <1>1, LiveAuditAssumption DEF bridgeVars
<1>3. saving'[Audit].step # "saved"
  BY <1>1, <1>2 DEF ReadIndex, Writing, StoreInv
<1>4. \A q : Kept(q) => Kept(q)'
  BY <1>1, <1>2, KeptStays
<1>5. TypeOK' /\ LoopInv' /\ EndInv'
  BY <1>1, <1>2 DEF HonestInv, SummaryIsHonest, TypeOK, LoopInv, EndInv, Ops, Ended, InTurn, BeforeLoop
<1>6. LateSummaryIsHonest' /\ CompleteIsClean'
  BY <1>1, <1>2 DEF HonestInv, SummaryIsHonest, EndInv, LateSummaryIsHonest, CompleteIsClean, Ended
<1>7. KeptInv'
  BY <1>1, <1>3, <1>4 DEF HonestInv, KeptInv
<1> QED
  BY <1>5, <1>6, <1>7 DEF HonestInv, SummaryIsHonest

LEMMA KeepKeepsInv ==
  ASSUME StoreInv, HonestInv, Keep
  PROVE  HonestInv'
<1>1. /\ op = "save" /\ saving' = [saving EXCEPT ![Audit] = Idle]
      /\ saving[Audit].step \in {"saved", "failed"}
      /\ UNCHANGED <<files, index, finished, overlapped, aborted, main, error, attempt, others>>
  BY DEF Keep
<1>2. /\ \A r : Kept(r) => Kept(r)'
      /\ saving'[Audit].step # "saved"
  BY <1>1, SaveForgotten
<1>3. everFailed' \in BOOLEAN
  BY DEF Keep, HonestInv, SummaryIsHonest, TypeOK
<1>4. /\ Moving /\ work \in WorkType
      /\ everFailed => work.failed > 0
      /\ WithFailure \in WorkType /\ WithFailure.failed > 0
      /\ WithFailure.fetched = work.fetched
      /\ \A r \in work.fetched : Kept(r)'
      /\ todo \in Decisions /\ todo.kind \notin Terminal
  <2>1. op \in InTurn
    BY <1>1 DEF InTurn
  <2> QED
    BY <1>1, <1>2, <1>3, <2>1, TurnFacts
<1>5. CASE saving[Audit].step = "saved"
  <2>1. PICK q \in Pages : q = saving[Audit].page
    BY <1>5, SavingPage, LiveAuditAssumption
  <2> DEFINE w == [work EXCEPT !.fetched = @ \cup {q}]
  <2>2. w \in WorkType /\ w.fetched = work.fetched \cup {q} /\ w.failed = work.failed
    BY <1>4, <2>1 DEF WorkType
  <2>3. Kept(q)'
    <3>1. Kept(q)
      BY <1>5, <2>1 DEF HonestInv, KeptInv
    <3> QED
      BY <1>2, <3>1
  <2>4. NextAction(w, todo) /\ everFailed' = everFailed
    BY <1>5, <2>1 DEF Keep
  <2>5. \A r \in w.fetched : Kept(r)'
    BY <1>4, <2>2, <2>3
  <2> HIDE DEF w
  <2> QED
    BY <1>4, <2>2, <2>4, <2>5, NextActionKeepsInv
<1>6. CASE saving[Audit].step # "saved"
  BY <1>4, <1>6, ThrowKeepsInv, NextActionKeepsInv DEF Keep
<1> QED
  BY <1>5, <1>6

\* The audit's save, step by step.
LEMMA AuditSavesKeepsInv ==
  ASSUME StoreInv, HonestInv, AuditSaves
  PROVE  HonestInv'
<1>1. SaveStep(Audit) /\ Audit \in Savers /\ DOMAIN saving = Savers
      /\ UNCHANGED <<bridgeVars, auditVars, others>>
  BY LiveAuditAssumption DEF AuditSaves, StoreInv
<1>2. \A q : Kept(q) => Kept(q)'
  BY <1>1, KeptStays
<1>3. saving'[Audit].step = "saved" => Kept(saving[Audit].page)'
  <2>1. CASE WriteIndex(Audit)
    BY <1>1, <2>1, SavedIsKept
  <2>2. CASE WriteFile(Audit) \/ FailSave(Audit)
    BY <1>1, <2>2 DEF WriteFile, FailSave, Writing, Over
  <2> QED
    BY <1>1, <2>1, <2>2 DEF SaveStep
<1>4. others' \in 0..MaxOtherSaves
  BY <1>1 DEF HonestInv, SummaryIsHonest, TypeOK
<1> QED
  BY <1>1, <1>2, <1>3, <1>4, StoreOnlyKeepsInv

\* A save of another process.
LEMMA OtherKeepsInv ==
  ASSUME StoreInv, HonestInv, OtherProcess
  PROVE  HonestInv'
<1>1. PICK s \in Savers \ {Audit} :
        OtherSaves(s) \/ \E p \in Pages, now \in Times : OtherBegins(s, p, now)
  BY DEF OtherProcess
<1>2. /\ SaveStep(s) \/ \E p \in Pages, now \in Times : ReadIndex(s, p, now)
      /\ UNCHANGED <<bridgeVars, auditVars>>
      /\ others' = others \/ (others < MaxOtherSaves /\ others' = others + 1)
  BY <1>1 DEF OtherSaves, OtherBegins
<1>3. saving'[Audit] = saving[Audit]
  BY <1>2, LiveAuditAssumption
  DEF SaveStep, WriteFile, WriteIndex, FailSave, ReadIndex, StoreInv
<1>4. \A q : Kept(q) => Kept(q)'
  BY <1>2, KeptStays
<1>5. saving'[Audit].step = "saved" => Kept(saving[Audit].page)'
  <2>1. ASSUME saving'[Audit].step = "saved" PROVE Kept(saving[Audit].page)'
    <3>1. Kept(saving[Audit].page)
      BY <1>3, <2>1 DEF HonestInv, KeptInv
    <3> QED
      BY <1>3, <1>4, <3>1 DEF Kept
  <2> QED
    BY <2>1
<1>6. others' \in 0..MaxOtherSaves
  BY <1>2, LiveAuditAssumption DEF HonestInv, SummaryIsHonest, TypeOK
<1> QED
  BY <1>2, <1>4, <1>5, <1>6, StoreOnlyKeepsInv

\* The process is killed, before, during or after the audit.
LEMMA KillKeepsInv ==
  ASSUME StoreInv, HonestInv, Kill
  PROVE  HonestInv'
<1>1. /\ main' = "exited" /\ error' = (IF main = "exited" THEN error ELSE "killed")
      /\ op' = "threw" /\ work' = Nothing /\ todo' = NoDecision /\ call' = NoCall
      /\ saving' = [saving EXCEPT ![Audit] = Idle]
      /\ UNCHANGED <<state, summary, aborted, attempt, everFailed, others>>
      /\ UNCHANGED <<files, index, finished, overlapped>>
  BY DEF Kill, AuditThrows, Throw
<1>2. TypeOK /\ EndInv /\ LateSummaryIsHonest /\ CompleteIsClean
  BY DEF HonestInv, SummaryIsHonest
<1>3. TypeOK'
  BY <1>1, <1>2, NothingTypes, CallTypes DEF TypeOK, WorkType, Errors, Ops, Ended
<1>4. LoopInv'
  BY <1>1, CallTypes DEF LoopInv, Ended, BeforeLoop, InTurn
<1>5. KeptInv'
  BY <1>1, SaveForgotten, NothingTypes DEF KeptInv
<1>6. CompleteIsClean'
  BY <1>1, <1>2 DEF CompleteIsClean
<1>7. EndInv' /\ LateSummaryIsHonest'
  <2>1. main = "exited" => op \notin Ended \cup {"idle"}
    BY DEF Kill
  <2>2. main = "exited" => error \notin {"connect", "failed"}
    BY <1>2, <2>1 DEF EndInv, Ended
  <2> QED
    BY <1>1, <1>2, <2>2 DEF EndInv, LateSummaryIsHonest, Ended
<1> QED
  BY <1>3, <1>4, <1>5, <1>6, <1>7 DEF HonestInv, SummaryIsHonest

LEMMA NextKeepsHonest == StoreInv /\ HonestInv /\ [Next]_vars => HonestInv'
<1> SUFFICES ASSUME StoreInv, HonestInv, [Next]_vars PROVE HonestInv'
  OBVIOUS
<1>1. CASE LoopStep
  BY <1>1, ToolKeepsInv, FetchKeepsInv, KeepKeepsInv, AuditSavesKeepsInv DEF LoopStep
<1>2. CASE UNCHANGED vars
  <2>1. UNCHANGED storeVars /\ UNCHANGED <<bridgeVars, auditVars>> /\ others' = others
    BY <1>2 DEF vars
  <2>2. others' \in 0..MaxOtherSaves
    BY <2>1 DEF HonestInv, SummaryIsHonest, TypeOK
  <2> QED
    BY <2>1, <2>2, StoreStutters, StoreOnlyKeepsInv
<1> QED
  BY <1>1, <1>2, MainKeepsInv, KillKeepsInv, PreflightKeepsInv, ModelStepKeepsInv,
     OtherKeepsInv DEF Next

LEMMA InitIsHonest == Init => HonestInv
<1> SUFFICES ASSUME Init PROVE HonestInv
  OBVIOUS
<1>1. /\ aborted = FALSE /\ call = NoCall /\ main = "connect" /\ error = "none"
      /\ op = "idle" /\ attempt = 0 /\ state = FirstState /\ work = Nothing
      /\ todo = NoDecision /\ summary = None /\ everFailed = FALSE /\ others = 0
      /\ saving[Audit] = Idle
  BY LiveAuditAssumption DEF Init, StoreInit
<1>2. TypeOK
  <2>1. call \in Call /\ state \in StateType /\ work \in WorkType
    BY <1>1, NothingTypes, CallTypes
  <2>2. attempt \in 0..PreflightRetries /\ others \in 0..MaxOtherSaves
    BY <1>1, LiveAuditAssumption
  <2> QED
    BY <1>1, <2>1, <2>2 DEF TypeOK, StateType, WorkType, Errors, Ops
<1>3. KeptInv
  BY <1>1, NothingTypes DEF KeptInv, Idle
<1>4. LoopInv
  <2>1. call.phase # "sleep" /\ state.turn < MaxIterations
    BY <1>1, NothingTypes, CallTypes, LiveAuditAssumption
  <2> QED
    BY <1>1, <2>1 DEF LoopInv, BeforeLoop, InTurn
<1>5. EndInv /\ CompleteIsClean /\ LateSummaryIsHonest
  BY <1>1 DEF EndInv, CompleteIsClean, LateSummaryIsHonest
<1> QED
  BY <1>2, <1>3, <1>4, <1>5 DEF HonestInv, SummaryIsHonest

\* An audit whose summary says complete ended on a terminal decision, without a
\* failed call if it was to finalize, on pages that are in the workspace; one
\* that main gave up never says so; and main ends without an error only when
\* there is a summary: for any number of turns, actions, pages and processes.
THEOREM SummariesAreHonest == Spec => []SummaryIsHonest
<1>1. HonestInv => SummaryIsHonest
  BY DEF HonestInv
<1>2. Init => StoreInv /\ HonestInv
  BY AuditInitHasInv, InitIsHonest
<1>3. StoreInv /\ HonestInv /\ [Next]_vars => (StoreInv /\ HonestInv)'
  BY AuditNextKeepsInv, NextKeepsHonest
<1> QED
  BY <1>1, <1>2, <1>3, PTL DEF Spec

=============================================================================
