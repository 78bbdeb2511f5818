------------------------------ MODULE Citations ------------------------------
(***************************************************************************)
(* Citation counts without self-citations.  Every update of a record       *)
(* rebuilds, in its transaction, the rows of the records it cites and the  *)
(* flags of all rows from and to it, from what it sees of the authors of   *)
(* the others; after the commit a task indexes the records whose counts    *)
(* have changed.                                                           *)
(*                                                                         *)
(* Sources, under src/backend/inspirehep/: records/api/mixins.py, and      *)
(* get_modified_references and the indexing task that uses it.  The rows   *)
(* of records_authors and records_citations of a committed record follow   *)
(* from its content; only the flags depend on others.  Order and retries   *)
(* of index tasks are in RecordIndexing.                                   *)
(***************************************************************************)
EXTENDS Naturals, FiniteSets

CONSTANTS
  Work,          \* literature and data records
  Person,        \* authors and collaborations
  Changes        \* bound on the changes of a record

ASSUME WorksAssumption == IsFiniteSet(Work) /\ Changes \in Nat

VARIABLES
  content,       \* each record as it is committed
  change,        \* the open transaction of each record
  self,          \* rows flagged as self-citations: <<citing, cited>>
  shown,         \* the count in the index: citations that are no self-citations
  toIndex,       \* index tasks: a record, and its content before and after
  changed,       \* how often each record was changed
  crossed,       \* pairs of records whose transactions have crossed
  unnoticed      \* records whose count changed where the index task does not look

citationVars == <<content, change, self, shown, toIndex, changed, crossed, unnoticed>>

\* A record is an ordinary paper; or superseded, or data, and does not cite; or
\* it is not in the collection, and has no authors either; or it is deleted.
Kind == {"paper", "superseded", "hidden", "deleted"}
WorkContent == [kind : Kind, refs : SUBSET Work, authors : SUBSET Person]
NotItself(w, c) == w \notin c.refs

\* "same" is what it has seen to share an author, "since" who has committed since.
Change == [at : {"none", "open", "looked"}, new : WorkContent,
           same : SUBSET Work, since : SUBSET Work]

CitationsTypeOK ==
  /\ content \in [Work -> WorkContent]
  /\ change \in [Work -> Change]
  /\ self \subseteq Work \X Work
  /\ shown \in [Work -> 0..Cardinality(Work)]
  /\ toIndex \subseteq [rec : Work, old : WorkContent, new : WorkContent]
  /\ changed \in [Work -> 0..Changes]
  /\ crossed \subseteq SUBSET Work
  /\ unnoticed \subseteq Work

\* The rows of a record in records_authors, and in records_citations.
Writers(c) == IF c.kind \in {"paper", "superseded"} THEN c.authors ELSE {}
Cited(c) == IF c.kind = "paper" THEN c.refs ELSE {}
Row(y, x) == x \in Cited(content[y])

ShareAuthor(c, d) == Writers(c) \cap Writers(d) # {}
Closed(c) == [at |-> "none", new |-> c, same |-> {}, since |-> {}]

CitationCount(x, flags) ==
  Cardinality({y \in Work : Row(y, x) /\ <<y, x>> \notin flags})

CitationsInit ==
  /\ content \in [Work -> [kind : {"paper"}, refs : SUBSET Work, authors : SUBSET Person]]
  /\ \A w \in Work : NotItself(w, content[w])
  /\ change = [w \in Work |-> Closed(content[w])]
  /\ self = {r \in Work \X Work : Row(r[1], r[2]) /\ ShareAuthor(content[r[1]], content[r[2]])}
  /\ shown = [w \in Work |-> CitationCount(w, self)]
  /\ toIndex = {} /\ crossed = {} /\ unnoticed = {}
  /\ changed = [w \in Work |-> 0]

-----------------------------------------------------------------------------
(* The transaction of an update (one at a time for each record)            *)

OpenChange(w) ==
  /\ change[w].at = "none" /\ changed[w] < Changes
  /\ content[w].kind # "deleted"
  /\ \E c \in WorkContent :
       /\ c # content[w] /\ NotItself(w, c)
       /\ change' = [change EXCEPT ![w] = [Closed(c) EXCEPT !.at = "open"]]
  /\ changed' = [changed EXCEPT ![w] = @ + 1]
  /\ UNCHANGED <<content, self, shown, toIndex, crossed, unnoticed>>

\* get_self_cited_referenced_papers: of the records that cite w or that it
\* cites, those that have an author of w.  Others are seen as committed.
SelfCitedPapers(w, c) ==
  {x \in Work \ {w} : (x \in Cited(c) \/ Row(x, w)) /\ ShareAuthor(c, content[x])}

\* update_refs_in_citation_table: a record that does not cite returns early.
LookUp(w) ==
  LET c == change[w].new IN
  /\ change[w].at = "open"
  /\ change' = [change EXCEPT ![w].at = "looked",
       ![w].same = IF c.kind = "paper" THEN SelfCitedPapers(w, c) ELSE {}]
  /\ UNCHANGED <<content, self, shown, toIndex, changed, crossed, unnoticed>>

\* update_self_citations: the new rows of w are flagged, and the rows that cite
\* w, as they are now, are flagged or cleared.
OnlyFlagged(w, c, same) ==                   \* mutant: flags are not cleared
  {<<w, x>> : x \in same \cap Cited(c)} \cup {<<y, w>> : y \in {o \in Work : Row(o, w)} \cap same}
    \cup {r \in self : r[2] = w}
FlagsOf(w, c, same) ==
  IF c.kind = "paper"
  THEN {<<w, x>> : x \in same \cap Cited(c)}
         \cup {<<y, w>> : y \in {o \in Work : Row(o, w)} \cap same}
  ELSE {r \in self : r[2] = w}

\* Transactions that have looked at the others do not see this one.
Looking(w) == {o \in Work \ {w} : change[o].at = "looked"}

\* Where the index task does not look: at records that w shares no author with
\* any more, at those whose flag was wrong before or is wrong now, and, when w is
\* hidden or shown again, at what it cites.
FlagIsTrue(y, x) == (<<y, x>> \in self) <=> ShareAuthor(content[y], content[x])
Overlooked(w, c, flags) ==
  {x \in Cited(c) : (<<w, x>> \in self /\ <<w, x>> \notin flags) \/ ~FlagIsTrue(w, x)}
    \cup IF (c.kind = "hidden") # (content[w].kind = "hidden") THEN c.refs ELSE {}

CommitChange(w) ==
  LET c == change[w].new
      same == change[w].same
      flags == {r \in self : w \notin {r[1], r[2]}} \cup FlagsOf(w, c, same)
  IN
  /\ change[w].at = "looked"
  /\ content' = [content EXCEPT ![w] = c]
  /\ self' = flags
  /\ toIndex' = toIndex \cup {[rec |-> w, old |-> content[w], new |-> c]}
  /\ change' = [o \in Work |->
       IF o = w THEN Closed(c)
       ELSE IF o \in Looking(w) THEN [change[o] EXCEPT !.since = @ \cup {w}] ELSE change[o]]
  /\ crossed' = {p \in crossed : w \notin p} \cup
                {{w, o} : o \in change[w].since \cup Looking(w)}
  /\ unnoticed' = unnoticed \cup Overlooked(w, c, flags) \cup change[w].since
  /\ UNCHANGED <<shown, changed>>

RollbackChange(w) ==
  /\ change[w].at # "none"
  /\ change' = [change EXCEPT ![w] = Closed(content[w])]
  /\ UNCHANGED <<content, self, shown, toIndex, changed, crossed, unnoticed>>

-----------------------------------------------------------------------------
(* The index task                                                          *)

SymDiff(S, T) == (S \ T) \cup (T \ S)

\* get_modified_references
ModifiedRefs(t) ==
  LET noticed == {"deleted", "superseded"} IN
  IF \E k \in noticed : (t.old.kind = k) # (t.new.kind = k)
  THEN t.new.refs \cup t.old.refs
  ELSE SymDiff(t.old.refs, t.new.refs)

\* get_all_connected_records_uuids_of_modified_authors, and _collaborations:
\* the records that cite it, and those that share one of the modified authors.
OnlyLost(t) == t.old.authors \ t.new.authors  \* mutant: new authors forgotten
ModifiedAuthors(t) == SymDiff(t.old.authors, t.new.authors)
Connected(t) ==
  LET w == t.rec IN
  IF ModifiedAuthors(t) = {} THEN {}
  ELSE {y \in Work : Row(y, w)}
         \cup {x \in SelfCitedPapers(w, content[w]) :
                 Writers(content[x]) \cap ModifiedAuthors(t) # {}}

IndexCounts(t) ==
  LET targets == {t.rec} \cup ModifiedRefs(t) \cup Connected(t) IN
  /\ t \in toIndex
  /\ toIndex' = toIndex \ {t}
  /\ shown' = [x \in Work |-> IF x \in targets THEN CitationCount(x, self) ELSE shown[x]]
  /\ unnoticed' = unnoticed \ targets
  /\ UNCHANGED <<content, change, self, changed, crossed>>

-----------------------------------------------------------------------------

CitationsNext ==
  \/ \E w \in Work : OpenChange(w) \/ LookUp(w) \/ CommitChange(w) \/ RollbackChange(w)
  \/ \E t \in toIndex : IndexCounts(t)

CitationsSpec == CitationsInit /\ [][CitationsNext]_citationVars

-----------------------------------------------------------------------------
(* Properties                                                              *)

\* A citation of a paper is flagged as a self-citation exactly when the two
\* have an author in common, whoever of them was updated last and however the
\* updates overlapped, unless one looked at the other before it committed.
FlagsAreTrue ==
  \A y, x \in Work :
    Row(y, x) /\ content[x].kind = "paper" /\ {y, x} \notin crossed =>
      (<<y, x>> \in self) <=> ShareAuthor(content[y], content[x])

\* When the index tasks are done, the index shows the count of every record, be
\* it the records updated, the ones they cite or the ones whose authors they
\* share, except where the tasks do not look.
CountsAreShown ==
  toIndex = {} =>
    \A x \in Work \ unnoticed : shown[x] = CitationCount(x, self)
=============================================================================
