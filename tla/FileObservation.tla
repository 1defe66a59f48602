--------------------------- MODULE FileObservation ---------------------------
(***************************************************************************)
(* Files that people and programs edit at any time, and the two caches of  *)
(* what validation read in them: the fingerprints of a project             *)
(* (validation/fingerprint_cache.py) and the selections of a log           *)
(* (validation/validation_cache.py).                                       *)
(*                                                                         *)
(* A file is its identity (device, inode, size, times) and its content.    *)
(* Every write changes the identity; the content may be one it had before. *)
(***************************************************************************)
EXTENDS Naturals, Sequences, FiniteSets

CONSTANTS
    None,
    Source,     \* files that evidence selects values from
    Member,     \* files of the one input directory
    Document,   \* Markdown of the log
    Content,
    MaxEdits,   \* bound on edits
    MaxRows     \* MAX_SELECTION_ROWS

File == Source \cup Member \cup Document

ASSUME ObservationAssumption ==
    /\ File \subseteq Nat \ {0}
    /\ Source \cap Member = {} /\ Source \cap Document = {} /\ Member \cap Document = {}
    /\ None \notin Content
    /\ MaxEdits \in Nat
    /\ MaxRows \in Nat

VARIABLES
    timeline,   \* all files, at the start and after every edit
    rows,       \* file_observations
    trees,      \* directory_observations of the input directory
    selections  \* evidence_selections: by digest, the selection and its generation

Stamp == 0 .. MaxEdits
Moment == [File -> [stamp : Stamp, content : Content]]

Now == timeline[Len(timeline)]
StampOf(f) == Now[f].stamp
ContentOf(f) == Now[f].content

FileRow == [stamp : Stamp, digest : Content]
TreeRow == [stamp : [Member -> Stamp], digest : [Member -> Content]]
Selection == [value : Content, generation : Nat]

ObservationTypeOK ==
    /\ timeline \in Seq(Moment) /\ Len(timeline) \in 1 .. MaxEdits + 1
    /\ rows \in [File -> FileRow \cup {None}]
    /\ trees \in TreeRow \cup {None}
    /\ selections \in [Content -> Selection \cup {None}]

ObservationInit ==
    /\ timeline \in {<<[f \in File |-> [stamp |-> 0, content |-> c]]>> : c \in Content}
    /\ rows = [f \in File |-> None]
    /\ trees = None
    /\ selections = [c \in Content |-> None]

\* Somebody writes a file; no lock is asked of them.
Edit(f, c) ==
    /\ Len(timeline) <= MaxEdits
    /\ c # ContentOf(f)
    /\ timeline' = Append(timeline, [Now EXCEPT ![f] = [stamp |-> Len(timeline), content |-> c]])
    /\ UNCHANGED <<rows, trees, selections>>

\* The digest that is known for the identity a file has now, and for the
\* identities that the members of the directory were seen with.
MatchingFile(f) ==
    IF rows[f] # None /\ rows[f].stamp = StampOf(f) THEN rows[f].digest ELSE None

MatchingTree(stamps) ==
    IF trees # None /\ trees.stamp = stamps THEN trees.digest ELSE None

Stored == {c \in Content : selections[c] # None}

\* store_selection: one more row is stored only below the bound.
WithSelection(digest, value, generation) ==
    IF digest \notin Stored /\ Cardinality(Stored) >= MaxRows THEN selections
    ELSE [selections EXCEPT ![digest] = [value |-> value, generation |-> generation]]

\* finish_published_run: what the run did not use is removed.
Retained(used, generation) ==
    [c \in Content |->
        IF selections[c] = None THEN None
        ELSE IF c \in used THEN [selections[c] EXCEPT !.generation = generation]
        ELSE IF selections[c].generation = generation THEN selections[c]
        ELSE None]

---------------------------------------------------------------------------

\* A cached fingerprint is the content that the file had under the identity it
\* is stored for, all members of a directory at one moment, and a cached
\* selection is the one its source content has: later validations trust them
\* without reading, however files were edited while they were read.
CachesAreTrue ==
    /\ \A f \in File :
        rows[f] # None => timeline[rows[f].stamp + 1][f].content = rows[f].digest
    /\ trees # None =>
        \E i \in DOMAIN timeline : \A m \in Member :
            timeline[i][m] = [stamp |-> trees.stamp[m], content |-> trees.digest[m]]
    /\ \A c \in Stored : selections[c].value = c

=============================================================================
