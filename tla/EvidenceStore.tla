--------------------------- MODULE EvidenceStore ---------------------------
(***************************************************************************)
(* The evidence workspace (src/workspace/evidence-store.ts): one file for  *)
(* each document and one index of them all, which a save reads, changes in *)
(* memory and replaces. Every process started in the same directory saves  *)
(* to the same workspace and nothing keeps two saves apart, so the steps   *)
(* of a save are actions of their own. A write goes to a temporary file    *)
(* that is renamed (atomic-json.ts): it takes place whole or not at all.   *)
(***************************************************************************)
EXTENDS Integers, FiniteSets

CONSTANTS
  Savers,      \* the processes that save
  Docs,        \* document ids, in the order of their names
  Pages,       \* what a fetch may bring
  DocOf,       \* of a page: the id its final URL, number and title hash to
  SourceRank,  \* of a page: computeSourceRank
  Alike,       \* pairs of documents with one URL, or one number and like titles
  Times        \* what the clocks of the processes show

ASSUME EvidenceStoreAssumption ==
  /\ Docs \subseteq Nat
  /\ DocOf \in [Pages -> Docs]
  /\ SourceRank \in [Pages -> {10, 50, 90, 100}]
  /\ Alike \subseteq Docs \X Docs
  /\ \A d, e \in Docs : <<d, e>> \in Alike => <<e, d>> \in Alike
  /\ Times \subseteq Nat

VARIABLES
  files,     \* the documents' files
  index,     \* index.json
  saving,    \* of each saver: how far its save is
  finished,  \* of each document: how often its index entry was written
  overlapped \* a save has begun before another was over

storeVars == <<files, index, saving, finished, overlapped>>

Entry == [seen : Nat, first : Times, rank : {10, 50, 90, 100},
          canonical : Docs, duplicates : SUBSET Docs]
File == [seen : Nat, first : Times]

Idle == [step |-> "idle"]
NoDocuments == [d \in {} |-> Idle]

-----------------------------------------------------------------------------
(* Relations between documents *)

Matches(d, e) == d = e \/ <<d, e>> \in Alike

Group(idx, d) == {e \in DOMAIN idx : Matches(d, e)}

Precedes(idx, d, e) ==
  \/ idx[d].rank > idx[e].rank
  \/ idx[d].rank = idx[e].rank /\ idx[d].first < idx[e].first
  \/ idx[d].rank = idx[e].rank /\ idx[d].first = idx[e].first /\ d < e

Canonical(idx, group) ==
  CHOOSE c \in group : \A e \in group \ {c} : Precedes(idx, c, e)

Related(idx, group) ==
  [e \in DOMAIN idx |->
     IF e \notin group THEN idx[e]
     ELSE [idx[e] EXCEPT !.canonical = Canonical(idx, group),
                         !.duplicates = IF e = Canonical(idx, group)
                                        THEN group \ {e} ELSE {}]]

-----------------------------------------------------------------------------
(* A save *)

SeenBefore(idx, d) == IF d \in DOMAIN idx THEN idx[d].seen ELSE 0
FirstSeen(idx, d, now) == IF d \in DOMAIN idx THEN idx[d].first ELSE now

\* Mutant: seen_count starts again with every save.
NewEntryAfresh(idx, p, now) ==
  [seen |-> 1, first |-> FirstSeen(idx, DocOf[p], now),
   rank |-> SourceRank[p], canonical |-> DocOf[p], duplicates |-> {}]

NewEntry(idx, p, now) ==
  [seen |-> SeenBefore(idx, DocOf[p]) + 1, first |-> FirstSeen(idx, DocOf[p], now),
   rank |-> SourceRank[p], canonical |-> DocOf[p], duplicates |-> {}]

WithEntry(idx, d, entry) ==
  [e \in DOMAIN idx \cup {d} |-> IF e = d THEN entry ELSE idx[e]]

Saved(idx, p, now) ==
  LET added == WithEntry(idx, DocOf[p], NewEntry(idx, p, now))
  IN Related(added, Group(added, DocOf[p]))

Running(s) == saving[s].step \in {"file", "index"}
Writing(step, p, idx) == [step |-> step, page |-> p, write |-> idx]
Over(s, how) == [step |-> how, page |-> saving[s].page]

\* The index is read and the new one computed, all before the first write.
ReadIndex(s, p, now) ==
  /\ saving' = [saving EXCEPT ![s] = Writing("file", p, Saved(index, p, now))]
  /\ overlapped' = (overlapped \/ \E other \in Savers \ {s} : Running(other))
  /\ UNCHANGED <<files, index, finished>>

WriteFile(s) ==
  /\ saving[s].step = "file"
  /\ LET d == DocOf[saving[s].page]
     IN files' = [e \in DOMAIN files \cup {d} |->
                    IF e = d THEN [seen |-> saving[s].write[d].seen,
                                   first |-> saving[s].write[d].first]
                    ELSE files[e]]
  /\ saving' = [saving EXCEPT ![s] = Writing("index", saving[s].page, saving[s].write)]
  /\ UNCHANGED <<index, finished, overlapped>>

WriteIndex(s) ==
  /\ saving[s].step = "index"
  /\ index' = saving[s].write
  /\ finished' = [finished EXCEPT ![DocOf[saving[s].page]] = @ + 1]
  /\ saving' = [saving EXCEPT ![s] = Over(s, "saved")]
  /\ UNCHANGED <<files, overlapped>>

\* Mutant: a document that could not be written is indexed all the same.
FailSaveQuietly(s) ==
  /\ Running(s)
  /\ saving' = [saving EXCEPT ![s].step = "index"]
  /\ UNCHANGED <<files, index, finished, overlapped>>

\* A directory, a read or a write fails; what was written before stays.
FailSave(s) ==
  /\ Running(s)
  /\ saving' = [saving EXCEPT ![s] = Over(s, "failed")]
  /\ UNCHANGED <<files, index, finished, overlapped>>

SaveStep(s) == WriteFile(s) \/ WriteIndex(s) \/ FailSave(s)

StoreInit ==
  /\ files = NoDocuments
  /\ index = NoDocuments
  /\ saving = [s \in Savers |-> Idle]
  /\ finished = [d \in Docs |-> 0]
  /\ overlapped = FALSE

-----------------------------------------------------------------------------
(* What readers of the workspace rely on *)

HasType(f, T) == DOMAIN f \subseteq Docs /\ \A d \in DOMAIN f : f[d] \in T

\* No relation leads out of the index.
Closed(idx) ==
  \A d \in DOMAIN idx :
    idx[d].canonical \in DOMAIN idx /\ idx[d].duplicates \subseteq DOMAIN idx

\* No documents go round in a circle along canonical_id: among any of them, one
\* is its own canonical document or has one outside.
NoCycle(idx) ==
  \A S \in (SUBSET DOMAIN idx) \ {{}} :
    \E d \in S : idx[d].canonical = d \/ idx[d].canonical \notin S

IndexIsSound(idx) == HasType(idx, Entry) /\ Closed(idx) /\ NoCycle(idx)

\* However matching chains documents together, and whichever saves overwrote
\* each other's index: every indexed document has its file, every relation
\* names an indexed document, and following canonical_id from any document
\* ends (rewriteRelations, getCanonicalGroup).
WorkspaceIsSound ==
  /\ HasType(files, File)
  /\ IndexIsSound(index)
  /\ DOMAIN index \subseteq DOMAIN files

\* As long as no two saves have overlapped, the index has every document whose
\* save went through, counted as often, and a file is at most one cut-off or
\* running save ahead of its entry, with the same first_seen_at
\* (saveEvidenceRecord).
SavedIsIndexed ==
  ~overlapped =>
    /\ \A d \in Docs : finished[d] = SeenBefore(index, d)
    /\ \A d \in DOMAIN index : files[d].seen - index[d].seen \in {0, 1}
    /\ \A d \in DOMAIN index : files[d].first = index[d].first

-----------------------------------------------------------------------------
(* The inductive invariant behind both: what a save under way may write.   *)

\* A save has computed a sound index, of documents that have their files by the
\* time it is written.
SaveIsSound(s) ==
  \/ saving[s] = Idle
  \/ \E p \in Pages, how \in {"saved", "failed"} : saving[s] = [step |-> how, page |-> p]
  \/ \E p \in Pages, how \in {"file", "index"} :
       LET idx == saving[s].write
       IN /\ saving[s] = Writing(how, p, idx)
          /\ IndexIsSound(idx) /\ DocOf[p] \in DOMAIN idx
          /\ DOMAIN idx \ (DOMAIN files) \subseteq (IF how = "file" THEN {DocOf[p]} ELSE {})

\* A save that overlaps with no other differs from the index in its own entry
\* and in relations only, and the file it has written agrees with that entry.
SaveIsNext(s) ==
  Running(s) =>
    LET d == DocOf[saving[s].page]  idx == saving[s].write
    IN /\ DOMAIN idx = DOMAIN index \cup {d}
       /\ \A e \in DOMAIN index \ {d} :
            idx[e].seen = index[e].seen /\ idx[e].first = index[e].first
       /\ idx[d].seen = SeenBefore(index, d) + 1
       /\ d \in DOMAIN index => idx[d].first = index[d].first
       /\ saving[s].step = "index" =>
            files[d].seen = idx[d].seen /\ files[d].first = idx[d].first

StoreInv ==
  /\ finished \in [Docs -> Nat]
  /\ overlapped \in BOOLEAN
  /\ DOMAIN saving = Savers
  /\ WorkspaceIsSound
  /\ \A s \in Savers : SaveIsSound(s)
  /\ SavedIsIndexed
  /\ ~overlapped => \A s \in Savers :
                     /\ SaveIsNext(s)
                     /\ Running(s) => \A other \in Savers \ {s} : ~Running(other)

=============================================================================
