---------------------- MODULE ValidationResults_proofs ----------------------
(***************************************************************************)
(* What validation caches and saves was true, and what it calls current    *)
(* is, for any tasks, files, contents and edits, whatever is killed or     *)
(* fails.                                                                  *)
(***************************************************************************)
EXTENDS ValidationResults, WellFoundedInduction, TLAPS

-----------------------------------------------------------------------------
(* The inductive invariant *)

Moments == 1 .. Len(timeline)

\* A file has, or had, some content under an identity.
Known(f, s, c) ==
    /\ s \in Stamp /\ s + 1 \in Moments
    /\ timeline[s + 1][f] = [stamp |-> s, content |-> c]

\* It had the content under an identity that is no older than another.
Since(f, floor, c) == \E s \in Stamp : floor <= s /\ Known(f, s, c)

\* An identity never comes back and stands for one content.
History ==
    \A i \in Moments, f \in File :
        /\ Known(f, timeline[i][f].stamp, timeline[i][f].content)
        /\ \A j \in Moments : i <= j => timeline[i][f].stamp <= timeline[j][f].stamp

RowsTrue == \A f \in File : rows[f] # None => Known(f, rows[f].stamp, rows[f].digest)

TreesTrue ==
    trees # None =>
        \E i \in Moments : \A m \in Member :
            timeline[i][m] = [stamp |-> trees.stamp[m], content |-> trees.digest[m]]

SelectionsTrue == \A c \in Stored : selections[c].value = c

Hashing == {"hash", "hashing", "hashed"}
Reading == Hashing \cup {"list", "relist", "load", "evaluate"}
Observing == Reading \cup {"next", "publish"}

\* A source is read after it was first looked at, and what is evaluated is what
\* it held then if its identity is still the same.
SourceScan ==
    /\ ~ scan.verifying
    /\ scan.file = scan.unit
    /\ scan.stat \in Stamp /\ scan.stat <= StampOf(scan.unit)
    /\ scan.at = "hashing" =>
        /\ scan.read \in FileRow
        /\ scan.stat <= scan.read.stamp
        /\ Known(scan.unit, scan.read.stamp, scan.read.digest)
    /\ scan.at = "hashed" => Since(scan.unit, scan.stat, scan.digest)
    /\ scan.at \in {"load", "evaluate"} => Known(scan.unit, scan.stat, scan.digest)
    /\ scan.at = "evaluate" => Since(scan.unit, scan.stat, scan.read)

\* Between the two listings of the members there is a moment at which all had
\* identities no older than the first listing found, and no younger than the
\* second finds.
Between(i) ==
    \A m \in Member :
        /\ scan.stamps[m] <= timeline[i][m].stamp
        /\ scan.at = "relist" /\ m \notin scan.left =>
            timeline[i][m].stamp = scan.stamps[m]

TreeScan ==
    /\ \A m \in Member : scan.at # "list" \/ m \notin scan.left =>
        scan.stamps[m] \in Stamp /\ scan.stamps[m] <= StampOf(m)
    /\ scan.at \in Hashing =>
        /\ scan.file \in scan.left
        /\ \A m \in Member \ scan.left : Since(m, scan.stamps[m], scan.digests[m])
    /\ scan.at = "hashing" =>
        /\ scan.read \in FileRow
        /\ scan.stamps[scan.file] <= scan.read.stamp
        /\ Known(scan.file, scan.read.stamp, scan.read.digest)
    /\ scan.at = "hashed" => Since(scan.file, scan.stamps[scan.file], scan.digest)
    /\ scan.at = "relist" =>
        /\ \A m \in scan.left : Since(m, scan.stamps[m], scan.digests[m])
        /\ \A m \in Member \ scan.left : Known(m, scan.stamps[m], scan.digests[m])
    /\ scan.at # "list" => \E i \in Moments : Between(i)

Scanning ==
    scan.at \in Reading =>
        \/ scan.unit \in Source /\ scan.at \in Hashing \cup {"load", "evaluate"} /\ SourceScan
        \/ scan.unit = Tree /\ scan.at \in Hashing \cup {"list", "relist"} /\ TreeScan

SeenTrue ==
    /\ \A u \in Source \cup Document :
        scan.seen[u] # None => Known(u, scan.seen[u].stamp, scan.seen[u].value)
    /\ scan.seen[Tree] # None =>
        \E i \in Moments : \A m \in Member : timeline[i][m].content = scan.seen[Tree].value[m]

\* The documents were read after the identities of the log were noted.
Started ==
    scan.at \in Observing =>
        /\ start[lock] \in [Research -> Stamp]
        /\ \A f \in Research : start[lock][f] <= StampOf(f)
        /\ \A d \in Document : scan.seen[d] # None => start[lock][d] <= scan.seen[d].stamp

\* At the moment when the verification began, nothing had an older identity than
\* it was seen with; what is verified had that identity.
Verified(i) ==
    /\ \A s \in Source : scan.seen[s] # None =>
        /\ scan.seen[s].stamp <= timeline[i][s].stamp
        /\ s \notin scan.todo => timeline[i][s].stamp = scan.seen[s].stamp
    /\ \A d \in Document : scan.seen[d] # None =>
        /\ scan.seen[d].stamp <= timeline[i][d].stamp
        /\ scan.at = "publish" => timeline[i][d].stamp = scan.seen[d].stamp

Verification ==
    /\ scan.at = "publish" => scan.verifying /\ scan.todo = {}
    /\ (scan.at \in Observing /\ scan.verifying /\ ~ scan.bad) => \E i \in Moments : Verified(i)

\* The same as SnapshotsAreCuts, snapshot by snapshot.
Cut(s) ==
    s.clear =>
        /\ \E i \in Moments :
            \A u \in DOMAIN s.values \ {Tree} : timeline[i][u].content = s.values[u]
        /\ Tree \in DOMAIN s.values =>
            \E i \in Moments :
                \A m \in Member : timeline[i][m].content = s.values[Tree][m]

CutsTrue == \A s \in Snapshots : Cut(s)

\* The holder of the lock is busy, and a report is made of a saved snapshot.
Holding ==
    /\ scan.at # "off" => lock \in Task
    /\ lock # None => pc[lock] = "busy"

Reporting ==
    /\ scan.at \in {"compose", "mark"} => results.full \in Snapshot
    /\ scan.at = "mark" => report = results.full.id
    /\ results.full # None => results.full.generation # 0
    /\ MarkedReportIsExact

CachesTrue == RowsTrue /\ TreesTrue /\ SelectionsTrue
Truth == History /\ CachesTrue /\ Scanning /\ SeenTrue /\ Started /\ Verification /\ CutsTrue
Inv == TypeOK /\ Holding /\ Reporting /\ Truth

-----------------------------------------------------------------------------
(* Identities and contents *)

\* Members are listed and hashed in their order, and there is a first.
LEMMA FirstMember ==
    ASSUME NEW S \in SUBSET Member, S # {}
    PROVE  Least(S) \in S
<1>1. S \subseteq Nat
  BY ObservationAssumption DEF File
<1>2. PICK x \in S : \A y \in S : ~ (<<y, x>> \in OpToRel(<, Nat))
  BY <1>1, NatLessThanWellFounded, WFMin
<1>3. \A y \in S : ~ (y < x)
  BY <1>1, <1>2 DEF OpToRel
<1>4. \A y \in S : x <= y
  BY <1>1, <1>3
<1>5. QED
  BY <1>4 DEF Least

LEMMA FileFacts ==
    /\ Source \subseteq File /\ Member \subseteq File /\ Document \subseteq File
    /\ Source \cap Document = {}
    /\ Tree \in Unit /\ Tree \notin Source /\ Tree \notin Document
    /\ Source \subseteq Unit /\ Document \subseteq Unit
    /\ Document \subseteq Research /\ Research \subseteq File
    /\ Stamp \subseteq Nat /\ \A s \in Stamp : s \in Nat
BY ObservationAssumption, ValidationAssumption DEF File, Unit, Tree, Stamp

\* What a file holds now and held before.
LEMMA HistoryFacts ==
    ASSUME ObservationTypeOK, History, NEW f \in File
    PROVE  /\ Len(timeline) \in Nat /\ Len(timeline) \in Moments
           /\ StampOf(f) \in Stamp /\ ContentOf(f) \in Content
           /\ Known(f, StampOf(f), ContentOf(f))
           /\ \A i \in Moments : timeline[i][f].stamp \in Stamp /\ timeline[i][f].stamp <= StampOf(f)
           /\ \A s, c : Known(f, s, c) => c \in Content /\ s <= StampOf(f)
           /\ \A s, c, d : Known(f, s, c) /\ Known(f, s, d) => c = d
           /\ \A i \in Moments : \A s, c :
                Known(f, s, c) /\ timeline[i][f].stamp = s => timeline[i][f] = [stamp |-> s, content |-> c]
<1>1. Len(timeline) \in Nat /\ Len(timeline) \in Moments
  BY DEF ObservationTypeOK, Moments
<1>2. \A i \in Moments : timeline[i][f] \in [stamp : Stamp, content : Content]
  BY DEF ObservationTypeOK, Moments, Moment
<1>3. StampOf(f) \in Stamp /\ ContentOf(f) \in Content
  BY <1>1, <1>2 DEF StampOf, ContentOf, Now
<1>4. Known(f, StampOf(f), ContentOf(f))
  BY <1>1 DEF History, StampOf, ContentOf, Now
<1>5. \A i \in Moments : timeline[i][f].stamp \in Stamp /\ timeline[i][f].stamp <= StampOf(f)
  BY <1>1, <1>2 DEF History, StampOf, Now, Moments
<1>6. \A s, c : Known(f, s, c) => c \in Content /\ s <= StampOf(f)
  <2>1. SUFFICES ASSUME NEW s, NEW c, Known(f, s, c) PROVE c \in Content /\ s <= StampOf(f)
    OBVIOUS
  <2>2. s + 1 \in Moments /\ timeline[s + 1][f] = [stamp |-> s, content |-> c]
    BY <2>1 DEF Known
  <2>3. timeline[s + 1][f].stamp = s /\ timeline[s + 1][f].content = c
    BY <2>2
  <2>4. QED
    BY <1>2, <1>5, <2>2, <2>3
<1>7. \A s, c, d : Known(f, s, c) /\ Known(f, s, d) => c = d
  BY DEF Known
<1>8. \A i \in Moments : \A s, c :
        Known(f, s, c) /\ timeline[i][f].stamp = s => timeline[i][f] = [stamp |-> s, content |-> c]
  <2>1. SUFFICES ASSUME NEW i \in Moments, NEW s, NEW c, Known(f, s, c), timeline[i][f].stamp = s
                 PROVE timeline[i][f] = [stamp |-> s, content |-> c]
    OBVIOUS
  <2>2. Known(f, s, timeline[i][f].content)
    BY <2>1 DEF History
  <2>3. timeline[i][f].content = c
    BY <1>7, <2>1, <2>2
  <2>4. timeline[i][f] = [stamp |-> timeline[i][f].stamp, content |-> timeline[i][f].content]
    BY <1>2
  <2>5. QED
    BY <2>1, <2>3, <2>4
<1>9. QED
  BY <1>1, <1>3, <1>4, <1>5, <1>6, <1>7, <1>8

\* A content that is known for an identity no older than one seen, when that one
\* is still the identity now, is the content of that one.
LEMMA SettledContent ==
    ASSUME ObservationTypeOK, History, NEW f \in File, NEW s \in Stamp, s = StampOf(f),
           NEW c, Since(f, s, c)
    PROVE  Known(f, s, c) /\ c = ContentOf(f)
<1>1. PICK t \in Stamp : s <= t /\ Known(f, t, c)
  BY DEF Since
<1>2. t <= s /\ t = s
  BY <1>1, HistoryFacts, FileFacts
<1>3. QED
  BY <1>1, <1>2, HistoryFacts

-----------------------------------------------------------------------------
(* Edits *)

\* An edit adds a moment, in which one file has a new identity.
LEMMA EditAdds ==
    ASSUME ObservationTypeOK, NEW g \in File, NEW c \in Content, Edit(g, c)
    PROVE  \E now \in Moment :
            /\ timeline' = Append(timeline, now)
            /\ Len(timeline) \in Stamp
            /\ \A f \in File :
                \/ now[f] = timeline[Len(timeline)][f]
                \/ now[f].stamp = Len(timeline)
<1>1. /\ timeline \in Seq(Moment) /\ Len(timeline) \in 1 .. MaxEdits + 1 /\ Len(timeline) <= MaxEdits
      /\ MaxEdits \in Nat
  BY ObservationAssumption DEF ObservationTypeOK, Edit
<1>2. Len(timeline) \in Stamp /\ Len(timeline) \in DOMAIN timeline
  BY <1>1 DEF Stamp
<1>3. Now \in Moment /\ Now = timeline[Len(timeline)]
  BY <1>1, <1>2 DEF Now
<1>4. [stamp |-> Len(timeline), content |-> c] \in [stamp : Stamp, content : Content]
  BY <1>2
<1>5. PICK new : new = [stamp |-> Len(timeline), content |-> c]
  OBVIOUS
<1>6. [Now EXCEPT ![g] = new] \in Moment
  BY <1>3, <1>4, <1>5 DEF Moment
<1>7. \A f \in File : [Now EXCEPT ![g] = new][f] = IF f = g THEN new ELSE Now[f]
  BY <1>3 DEF Moment
<1>8. timeline' = Append(timeline, [Now EXCEPT ![g] = new])
  BY <1>5 DEF Edit
<1>9. new.stamp = Len(timeline)
  BY <1>5
<1>10. QED
  BY <1>2, <1>3, <1>6, <1>7, <1>8, <1>9

\* After an edit everything before it is as it was, and no identity is older.
LEMMA EditFacts ==
    ASSUME Inv, Author
    PROVE  /\ ObservationTypeOK'
           /\ Moments \subseteq Moments'
           /\ \A i \in Moments : timeline'[i] = timeline[i]
           /\ History'
           /\ \A f \in File : StampOf(f) <= StampOf(f)'
<1>1. PICK g \in File, c \in Content : Edit(g, c)
  BY DEF Author
<1>2. ObservationTypeOK /\ History
  BY DEF Inv, Truth, TypeOK
<1>3. PICK now \in Moment :
            /\ timeline' = Append(timeline, now)
            /\ Len(timeline) \in Stamp
            /\ \A f \in File : now[f] = timeline[Len(timeline)][f] \/ now[f].stamp = Len(timeline)
  BY <1>1, <1>2, EditAdds
<1>4. PICK n : n = Len(timeline)
  OBVIOUS
<1>5. /\ timeline \in Seq(Moment) /\ n \in Nat /\ n \in 1 .. MaxEdits + 1
      /\ n <= MaxEdits /\ MaxEdits \in Nat /\ n \in Stamp
      /\ UNCHANGED <<rows, trees, selections>>
  BY <1>1, <1>2, <1>4, ObservationAssumption DEF Edit, ObservationTypeOK, Stamp
<1>6. /\ timeline' \in Seq(Moment) /\ Len(timeline') = n + 1
      /\ \A i \in Moments : timeline'[i] = timeline[i]
      /\ timeline'[n + 1] = now
  BY <1>3, <1>4, <1>5 DEF Moments
<1>7. Moments' = Moments \cup {n + 1} /\ n + 1 \notin Moments /\ n \in Moments
  BY <1>4, <1>5, <1>6 DEF Moments
<1>8. ObservationTypeOK'
  BY <1>2, <1>5, <1>6 DEF ObservationTypeOK
<1>9. \A f \in File : now[f] \in [stamp : Stamp, content : Content]
  BY DEF Moment
<1>10. \A f \in File, i \in Moments : timeline[i][f] \in [stamp : Stamp, content : Content]
  BY <1>2, <1>4, <1>5 DEF Moments, Moment
<1>11. \A f \in File : timeline[n][f].stamp <= n
  <2>1. SUFFICES ASSUME NEW f \in File PROVE timeline[n][f].stamp <= n
    OBVIOUS
  <2>2. Known(f, timeline[n][f].stamp, timeline[n][f].content)
    BY <1>2, <1>7 DEF History
  <2>3. timeline[n][f].stamp \in Nat /\ timeline[n][f].stamp + 1 \in 1 .. n
    BY <1>4, <2>2, FileFacts DEF Known, Moments
  <2>4. QED
    BY <1>5, <2>3
<1>12. \A f \in File : timeline[n][f].stamp <= now[f].stamp
  <2>1. SUFFICES ASSUME NEW f \in File PROVE timeline[n][f].stamp <= now[f].stamp
    OBVIOUS
  <2>2. timeline[n][f].stamp \in Nat
    BY <1>7, <1>10, FileFacts
  <2>3. QED
    BY <1>3, <1>4, <1>11, <2>2
<1>13. \A f \in File : StampOf(f) = timeline[n][f].stamp /\ StampOf(f)' = now[f].stamp
  BY <1>4, <1>6 DEF StampOf, Now
<1>14. \A f, s, d : Known(f, s, d) => Known(f, s, d)'
  BY <1>6, <1>7 DEF Known
<1>15. \A f \in File : Known(f, now[f].stamp, now[f].content)'
  <2>1. SUFFICES ASSUME NEW f \in File PROVE Known(f, now[f].stamp, now[f].content)'
    OBVIOUS
  <2>2. CASE now[f] = timeline[n][f]
    <3>1. Known(f, timeline[n][f].stamp, timeline[n][f].content)
      BY <1>2, <1>7 DEF History
    <3>2. QED
      BY <1>14, <2>2, <3>1
  <2>3. CASE now[f].stamp = n
    <3>1. now[f] = [stamp |-> n, content |-> now[f].content]
      BY <1>9, <2>3
    <3>2. QED
      BY <1>5, <1>6, <1>7, <2>3, <3>1 DEF Known
  <2>4. QED
    BY <1>3, <1>4, <2>2, <2>3
<1>16. \A f \in File, i \in Moments : timeline[i][f].stamp <= timeline[n][f].stamp
  BY <1>2, <1>4, <1>5, <1>7 DEF History, Moments
<1>17. \A f \in File, i \in Moments : timeline[i][f].stamp <= now[f].stamp
  <2>1. SUFFICES ASSUME NEW f \in File, NEW i \in Moments PROVE timeline[i][f].stamp <= now[f].stamp
    OBVIOUS
  <2>2. timeline[i][f].stamp \in Nat /\ timeline[n][f].stamp \in Nat /\ now[f].stamp \in Nat
    BY <1>7, <1>9, <1>10, FileFacts
  <2>3. QED
    BY <1>12, <1>16, <2>2
<1>18. History'
  <2>1. SUFFICES ASSUME NEW i \in Moments', NEW f \in File
                 PROVE  /\ Known(f, timeline[i][f].stamp, timeline[i][f].content)'
                        /\ \A j \in Moments' : i <= j => timeline'[i][f].stamp <= timeline'[j][f].stamp
    BY DEF History
  <2>2. CASE i \in Moments
    <3>1. Known(f, timeline[i][f].stamp, timeline[i][f].content)'
      BY <1>2, <1>6, <1>14, <2>2 DEF History
    <3>2. \A j \in Moments : i <= j => timeline'[i][f].stamp <= timeline'[j][f].stamp
      BY <1>2, <1>6, <2>2 DEF History
    <3>3. timeline'[i][f].stamp <= timeline'[n + 1][f].stamp
      BY <1>6, <1>17, <2>2
    <3>4. QED
      BY <1>7, <3>1, <3>2, <3>3
  <2>3. CASE i = n + 1
    <3>1. Known(f, timeline[i][f].stamp, timeline[i][f].content)'
      BY <1>6, <1>15, <2>3
    <3>2. \A j \in Moments' : i <= j => j = n + 1
      BY <1>4, <1>5, <1>6, <2>3 DEF Moments
    <3>3. now[f].stamp \in Nat
      BY <1>9, FileFacts
    <3>4. timeline'[i][f].stamp <= timeline'[i][f].stamp
      BY <1>6, <2>3, <3>3
    <3>5. QED
      BY <2>3, <3>1, <3>2, <3>4
  <2>4. QED
    BY <1>7, <2>2, <2>3
<1>19. \A f \in File : StampOf(f) <= StampOf(f)'
  BY <1>12, <1>13
<1>20. QED
  BY <1>6, <1>7, <1>8, <1>18, <1>19

\* Nothing that was observed is made untrue by an edit.
LEMMA AuthorKeepsInv ==
    ASSUME Inv, Author
    PROVE  Inv'
<1>1. UNCHANGED <<rows, trees, selections, lock, pc, start, scan, generations, results, report>>
  BY DEF Author, Edit
<1>2. /\ ObservationTypeOK'
      /\ Moments \subseteq Moments'
      /\ \A i \in Moments : timeline'[i] = timeline[i]
      /\ History'
      /\ \A f \in File : StampOf(f) <= StampOf(f)'
  BY EditFacts
<1>3. \A f, s, c : Known(f, s, c) => Known(f, s, c)'
  BY <1>2 DEF Known
<1>4. \A f, s, c : Since(f, s, c) => Since(f, s, c)'
  BY <1>3 DEF Since
<1>5. \A f \in File, s \in Stamp : s <= StampOf(f) => s <= StampOf(f)'
  <2>1. \A f \in File : StampOf(f) \in Stamp /\ StampOf(f)' \in Stamp
    <3>1. \A f \in File : StampOf(f) \in Stamp
      BY HistoryFacts DEF Inv, Truth, TypeOK
    <3>2. timeline' \in Seq(Moment) /\ Len(timeline') \in DOMAIN timeline'
      BY <1>2 DEF ObservationTypeOK
    <3>3. \A f \in File : StampOf(f)' \in Stamp
      BY <3>2 DEF StampOf, Now, Moment
    <3>4. QED
      BY <3>1, <3>3
  <2>2. SUFFICES ASSUME NEW f \in File, NEW s \in Stamp, s <= StampOf(f) PROVE s <= StampOf(f)'
    OBVIOUS
  <2>3. s \in Nat /\ StampOf(f) \in Nat /\ StampOf(f)' \in Nat /\ StampOf(f) <= StampOf(f)'
    BY <1>2, <2>1, FileFacts
  <2>4. QED
    BY <2>2, <2>3
<1>6. TypeOK'
  BY <1>1, <1>2 DEF Inv, Truth, TypeOK
<1>7. CachesTrue'
  <2>1. RowsTrue' /\ SelectionsTrue'
    BY <1>1, <1>3 DEF Inv, Truth, CachesTrue, RowsTrue, SelectionsTrue, Stored
  <2>2. TreesTrue'
    BY <1>1, <1>2 DEF Inv, Truth, CachesTrue, TreesTrue
  <2>3. QED
    BY <2>1, <2>2 DEF CachesTrue
<1>8. Scanning'
  <2>1. scan.unit \in Source /\ SourceScan => SourceScan'
    BY <1>1, <1>3, <1>4, <1>5, FileFacts DEF SourceScan
  <2>2. \A i \in Moments : Between(i) => Between(i)'
    BY <1>1, <1>2 DEF Between
  <2>3. TreeScan => TreeScan'
    <3>1. SUFFICES ASSUME TreeScan PROVE TreeScan'
      OBVIOUS
    <3>2. \A m \in Member : scan.at # "list" \/ m \notin scan.left =>
            scan.stamps[m] \in Stamp /\ scan.stamps[m] <= StampOf(m)'
      BY <1>5, <3>1, FileFacts DEF TreeScan
    <3>3. scan.at # "list" => \E i \in Moments' : Between(i)'
      BY <1>2, <2>2, <3>1 DEF TreeScan
    <3>4. QED
      BY <1>1, <1>3, <1>4, <3>1, <3>2, <3>3 DEF TreeScan
  <2>4. QED
    BY <1>1, <2>1, <2>3 DEF Inv, Truth, Scanning
<1>9. SeenTrue'
  BY <1>1, <1>2, <1>3 DEF Inv, Truth, SeenTrue
<1>10. Started'
  BY <1>1, <1>5, FileFacts DEF Inv, Truth, Started
<1>11. Verification'
  <2>1. \A i \in Moments : Verified(i) => Verified(i)'
    BY <1>1, <1>2 DEF Verified
  <2>2. QED
    BY <1>1, <1>2, <2>1 DEF Inv, Truth, Verification
<1>12. CutsTrue'
  <2>1. \A s : Cut(s) => Cut(s)'
    BY <1>2 DEF Cut
  <2>2. Snapshots' = Snapshots
    BY <1>1 DEF Snapshots
  <2>3. \A s \in Snapshots : Cut(s)
    BY DEF Inv, Truth, CutsTrue
  <2>4. QED
    BY <2>1, <2>2, <2>3 DEF CutsTrue
<1>13. Holding' /\ Reporting'
  BY <1>1 DEF Inv, Holding, Reporting, MarkedReportIsExact, ShownCurrent
<1>14. QED
  BY <1>2, <1>6, <1>7, <1>8, <1>9, <1>10, <1>11, <1>12, <1>13 DEF Inv, Truth


-----------------------------------------------------------------------------
(* What a step without an edit keeps *)

LEMMA SameTime ==
    ASSUME timeline' = timeline
    PROVE  /\ Moments' = Moments
           /\ \A f : StampOf(f)' = StampOf(f) /\ ContentOf(f)' = ContentOf(f)
           /\ \A f, s, c : Known(f, s, c)' <=> Known(f, s, c)
           /\ \A f, s, c : Since(f, s, c)' <=> Since(f, s, c)
           /\ History' <=> History
           /\ \A s : Cut(s)' <=> Cut(s)
<1>1. Moments' = Moments
  BY DEF Moments
<1>2. \A f : StampOf(f)' = StampOf(f) /\ ContentOf(f)' = ContentOf(f)
  BY DEF StampOf, ContentOf, Now
<1>3. \A f, s, c : Known(f, s, c)' <=> Known(f, s, c)
  BY <1>1 DEF Known
<1>4. \A f, s, c : Since(f, s, c)' <=> Since(f, s, c)
  BY <1>3 DEF Since
<1>5. History' <=> History
  BY <1>1, <1>3 DEF History
<1>6. \A s : Cut(s)' <=> Cut(s)
  BY <1>1 DEF Cut
<1>7. QED
  BY <1>1, <1>2, <1>3, <1>4, <1>5, <1>6

\* A step of the observation that leaves the lock and the results alone.
Observes == timeline' = timeline /\ UNCHANGED <<lock, pc, start, generations, results, report>>

LEMMA ObservesKeeps ==
    ASSUME Inv, Observes, scan.at \in Observing, scan'.at \in Observing
    PROVE  Holding' /\ Reporting' /\ History' /\ CutsTrue'
<1>1. UNCHANGED <<lock, pc, results, report>> /\ timeline' = timeline
  BY DEF Observes
<1>2. Holding'
  BY <1>1 DEF Inv, Holding, Observing, Reading, Hashing
<1>3. Reporting'
  BY <1>1 DEF Inv, Reporting, MarkedReportIsExact, ShownCurrent, Observing, Reading, Hashing
<1>4. History'
  BY <1>1, SameTime DEF Inv, Truth
<1>5. CutsTrue'
  <2>1. Snapshots' = Snapshots
    BY <1>1 DEF Snapshots
  <2>2. QED
    BY <1>1, <2>1, SameTime DEF Inv, Truth, CutsTrue
<1>6. QED
  BY <1>2, <1>3, <1>4, <1>5

\* A step that adds nothing to what was seen.
LEMMA QuietKeeps ==
    ASSUME Inv, Observes, scan.at \in Observing, scan'.at \in Observing \ {"publish"},
           scan'.seen = scan.seen, scan'.verifying = scan.verifying,
           scan.bad => scan'.bad,
           scan.verifying => scan'.todo \cap Source = scan.todo \cap Source
    PROVE  SeenTrue' /\ Started' /\ Verification'
<1>1. timeline' = timeline /\ lock' = lock /\ start' = start
  BY DEF Observes
<1>2. SeenTrue'
  <2>1. \A u \in Source \cup Document :
            scan'.seen[u] # None => Known(u, scan.seen[u].stamp, scan.seen[u].value)'
    BY <1>1, SameTime DEF Inv, Truth, SeenTrue
  <2>2. QED
    BY <1>1, <2>1, SameTime DEF Inv, Truth, SeenTrue
<1>3. Started'
  BY <1>1, SameTime DEF Inv, Truth, Started
<1>4. Verification'
  <2>1. \A i \in Moments : scan.verifying /\ Verified(i) => Verified(i)'
    BY <1>1 DEF Verified
  <2>2. QED
    BY <1>1, <2>1, SameTime DEF Inv, Truth, Verification
<1>5. QED
  BY <1>2, <1>3, <1>4


-----------------------------------------------------------------------------
(* The end of a unit *)

LEMMA OverFacts ==
    ASSUME scan \in Scan, NEW memo \in Scan
    PROVE  /\ Over(memo) \in Scan
           /\ Over(memo).at = "next" /\ Over(memo).todo = memo.todo \ {scan.unit}
           /\ Over(memo).seen = memo.seen /\ Over(memo).verifying = memo.verifying
           /\ Over(memo).bad = memo.bad
BY DEF Over, Scan, Stage, NoScan

LEMMA NothingSeen ==
    ASSUME Inv, Observes, scan.at \in Reading, scan'.at = "next",
           scan'.seen = scan.seen, scan'.verifying = scan.verifying, scan.bad => scan'.bad,
           scan'.todo = scan.todo \ {scan.unit}
    PROVE  Scanning' /\ SeenTrue' /\ Started' /\ Verification'
<1>1. Scanning'
  BY DEF Scanning, Reading, Hashing
<1>2. scan.verifying => scan.unit = Tree
  BY DEF Inv, Truth, Scanning, SourceScan
<1>3. scan.verifying => scan'.todo \cap Source = scan.todo \cap Source
  BY <1>2, FileFacts
<1>4. scan.at \in Observing /\ scan'.at \in Observing \ {"publish"}
  BY DEF Observing, Reading, Hashing
<1>5. QED
  BY <1>1, <1>3, <1>4, QuietKeeps

LEMMA UnitSeen ==
    ASSUME Inv, Observes, scan.at \in Reading, scan'.at = "next",
           ~ scan.verifying, ~ scan'.verifying, scan.unit \in Source \cup {Tree},
           NEW obs, scan'.seen = [scan.seen EXCEPT ![scan.unit] = obs],
           scan.unit \in Source => Known(scan.unit, obs.stamp, obs.value),
           scan.unit = Tree =>
            \E i \in Moments : \A m \in Member : timeline[i][m].content = obs.value[m]
    PROVE  Scanning' /\ SeenTrue' /\ Started' /\ Verification'
<1>1. Scanning'
  BY DEF Scanning, Reading, Hashing
<1>2. timeline' = timeline /\ lock' = lock /\ start' = start
  BY DEF Observes
<1>3. \A u \in Unit : scan'.seen[u] = IF u = scan.unit THEN obs ELSE scan.seen[u]
  BY DEF Inv, TypeOK, Scan
<1>4. SeenTrue'
  <2>1. \A u \in Source \cup Document :
            scan'.seen[u] # None => Known(u, scan'.seen[u].stamp, scan'.seen[u].value)
    BY <1>3, FileFacts DEF Inv, Truth, SeenTrue
  <2>2. scan'.seen[Tree] # None =>
            \E i \in Moments : \A m \in Member : timeline[i][m].content = scan'.seen[Tree].value[m]
    BY <1>3, FileFacts DEF Inv, Truth, SeenTrue
  <2>3. QED
    BY <1>2, <2>1, <2>2, SameTime DEF SeenTrue
<1>5. Started'
  <2>1. \A d \in Document : scan'.seen[d] = scan.seen[d]
    BY <1>3, FileFacts
  <2>2. scan.at \in Observing
    BY DEF Observing
  <2>3. QED
    BY <1>2, <2>1, <2>2, SameTime DEF Inv, Truth, Started
<1>6. Verification'
  BY DEF Verification
<1>7. QED
  BY <1>1, <1>4, <1>5, <1>6


-----------------------------------------------------------------------------
(* Documents, sources and the directory are taken up *)

LEMMA CachesKept ==
    ASSUME Inv, timeline' = timeline, UNCHANGED <<rows, trees, selections>>
    PROVE  CachesTrue' /\ ObservationTypeOK'
<1>1. RowsTrue' /\ TreesTrue' /\ SelectionsTrue'
  BY SameTime DEF Inv, Truth, CachesTrue, RowsTrue, TreesTrue, SelectionsTrue, Stored
<1>2. ObservationTypeOK'
  BY DEF Inv, TypeOK, ObservationTypeOK
<1>3. QED
  BY <1>1, <1>2 DEF CachesTrue

LEMMA ObservesInv ==
    ASSUME Inv, Observes, scan.at \in Observing, scan'.at \in Observing, scan' \in Scan,
           ObservationTypeOK', CachesTrue', Scanning', SeenTrue', Started', Verification'
    PROVE  Inv'
<1>1. TypeOK'
  BY DEF Inv, TypeOK, Observes
<1>2. QED
  BY <1>1, ObservesKeeps DEF Inv, Truth

LEMMA ReadDocumentKeepsInv ==
    ASSUME Inv, NEW d \in File, ReadDocument(d)
    PROVE  Inv'
<1>1. /\ Observes /\ timeline' = timeline /\ lock' = lock /\ start' = start
      /\ UNCHANGED <<rows, trees, selections>>
      /\ scan.at = "next" /\ ~ scan.verifying /\ d \in Document
  BY DEF ReadDocument, OnlyScan, Observes
<1>2. StampOf(d) \in Stamp /\ ContentOf(d) \in Content /\ Known(d, StampOf(d), ContentOf(d))
  BY HistoryFacts DEF Inv, TypeOK, Truth
<1>3. PICK obs : obs = [stamp |-> StampOf(d), value |-> ContentOf(d)]
  OBVIOUS
<1>4. obs \in Observed /\ obs.stamp = StampOf(d) /\ obs.value = ContentOf(d)
  BY <1>2, <1>3 DEF Observed
<1>5. scan' = [scan EXCEPT !.todo = @ \ {d}, !.seen[d] = obs]
  BY <1>3 DEF ReadDocument
<1>6. /\ scan' \in Scan /\ scan'.at = "next" /\ ~ scan'.verifying
      /\ scan'.seen = [scan.seen EXCEPT ![d] = obs]
  BY <1>1, <1>4, <1>5 DEF Inv, TypeOK, Scan, Stage
<1>7. \A u \in Unit : scan'.seen[u] = IF u = d THEN obs ELSE scan.seen[u]
  BY <1>6 DEF Inv, TypeOK, Scan
<1>8. scan.at \in Observing /\ scan'.at \in Observing
  BY <1>1, <1>6 DEF Observing
<1>9. Scanning' /\ Verification'
  BY <1>6 DEF Scanning, Verification, Reading, Hashing
<1>10. SeenTrue'
  <2>1. \A u \in Source \cup Document :
            scan'.seen[u] # None => Known(u, scan'.seen[u].stamp, scan'.seen[u].value)
    BY <1>2, <1>4, <1>7, FileFacts DEF Inv, Truth, SeenTrue
  <2>2. scan'.seen[Tree] = scan.seen[Tree]
    BY <1>1, <1>7, FileFacts
  <2>3. QED
    BY <1>1, <2>1, <2>2, SameTime DEF Inv, Truth, SeenTrue
<1>11. Started'
  <2>1. /\ start[lock] \in [Research -> Stamp]
        /\ \A f \in Research : start[lock][f] <= StampOf(f)
        /\ \A e \in Document : scan.seen[e] # None => start[lock][e] <= scan.seen[e].stamp
    BY <1>8 DEF Inv, Truth, Started
  <2>2. \A e \in Document : scan'.seen[e] # None => start[lock][e] <= scan'.seen[e].stamp
    BY <1>1, <1>4, <1>7, <2>1, FileFacts
  <2>3. QED
    BY <1>1, <2>1, <2>2, SameTime DEF Started
<1>12. QED
  BY <1>1, <1>6, <1>8, <1>9, <1>10, <1>11, CachesKept, ObservesInv

LEMMA ObserveSourceKeepsInv ==
    ASSUME Inv, NEW s \in File, ObserveSource(s)
    PROVE  Inv'
<1>1. /\ Observes /\ timeline' = timeline /\ UNCHANGED <<rows, trees, selections>>
      /\ scan.at = "next" /\ ~ scan.verifying /\ s \in Source
  BY DEF ObserveSource, OnlyScan, Observes
<1>2. StampOf(s) \in Stamp
  BY HistoryFacts DEF Inv, TypeOK, Truth
<1>3. /\ scan' \in Scan /\ scan'.at = "hash" /\ scan'.verifying = scan.verifying /\ scan'.seen = scan.seen
      /\ scan'.bad = scan.bad /\ scan'.unit = s /\ scan'.file = s /\ scan'.stat = StampOf(s)
  BY <1>1, <1>2, FileFacts DEF ObserveSource, Inv, TypeOK, Scan, Stage
<1>4. scan.at \in Observing /\ scan'.at \in Observing \ {"publish"}
  BY <1>1, <1>3 DEF Observing, Reading, Hashing
<1>5. Scanning'
  <2>1. StampOf(s) \in Nat /\ StampOf(s) <= StampOf(s)
    <3>1. StampOf(s) \in Nat
      BY <1>2, FileFacts
    <3>2. QED
      BY <3>1
  <2>2. SourceScan'
    BY <1>1, <1>2, <1>3, <2>1, SameTime DEF SourceScan
  <2>3. QED
    BY <1>1, <1>3, <2>2 DEF Scanning, Hashing
<1>6. QED
  BY <1>1, <1>3, <1>4, <1>5, QuietKeeps, CachesKept, ObservesInv

LEMMA ObserveTreeKeepsInv ==
    ASSUME Inv, ObserveTree
    PROVE  Inv'
<1>1. /\ Observes /\ timeline' = timeline /\ UNCHANGED <<rows, trees, selections>>
      /\ scan.at = "next"
  BY DEF ObserveTree, OnlyScan, Observes
<1>2. /\ scan' \in Scan /\ scan'.at = "list" /\ scan'.verifying = scan.verifying
      /\ scan'.seen = scan.seen /\ scan'.bad = scan.bad /\ scan'.todo = scan.todo
      /\ scan'.unit = Tree /\ scan'.left = Member
  BY <1>1, FileFacts DEF ObserveTree, Inv, TypeOK, Scan, Stage
<1>3. scan.at \in Observing /\ scan'.at \in Observing \ {"publish"}
  BY <1>1, <1>2 DEF Observing, Reading, Hashing
<1>4. Scanning'
  BY <1>2 DEF Scanning, TreeScan, Hashing
<1>5. QED
  BY <1>1, <1>2, <1>3, <1>4, QuietKeeps, CachesKept, ObservesInv


-----------------------------------------------------------------------------
(* The end of a task *)

Saved == [generation : Nat, marker : Nat, full : Snapshot \cup {None},
          entries : [Entry -> Snapshot \cup {None}]]

LEMMA NoScanFacts ==
    /\ NoScan \in Scan /\ NoScan.at = "off"
    /\ \A u \in Unit : NoScan.seen[u] = None
BY DEF NoScan, Scan, Stage

LEMMA EndKeepsInv ==
    ASSUME Inv, lock # None, NEW outcome \in {"done", "failed", "dead"}, End(outcome),
           timeline' = timeline, generations' = generations,
           ObservationTypeOK', CachesTrue', CutsTrue',
           results' \in Saved, report' \in Task \cup {None},
           results'.full # None => results'.full.generation # 0, MarkedReportIsExact'
    PROVE  Inv'
<1>1. lock' = None /\ scan' = NoScan
  BY DEF End
<1>2. TypeOK'
  <2>1. start' \in [Task -> [Research -> Stamp] \cup {None}]
    BY DEF End, Inv, TypeOK
  <2>2. pc' \in [Task -> {"idle", "looked", "busy", "done", "refused", "failed", "dead"}]
    BY DEF End, Inv, TypeOK
  <2>3. generations' \in Nat /\ scan' \in Scan /\ lock' \in Task \cup {None}
    BY <1>1, NoScanFacts DEF Inv, TypeOK
  <2>4. QED
    BY <2>1, <2>2, <2>3 DEF TypeOK, Saved
<1>3. scan'.at = "off" /\ \A u \in Unit : scan'.seen[u] = None
  BY <1>1, NoScanFacts
<1>4. Holding' /\ Reporting'
  BY <1>1, <1>3 DEF Holding, Reporting
<1>5. Scanning' /\ Started' /\ Verification'
  BY <1>3 DEF Scanning, Started, Verification, Observing, Reading, Hashing
<1>6. SeenTrue'
  BY <1>3, FileFacts DEF SeenTrue
<1>7. History'
  BY SameTime DEF Inv, Truth
<1>8. QED
  BY <1>2, <1>4, <1>5, <1>6, <1>7 DEF Inv, Truth

LEMMA OnlyEndKeepsInv ==
    ASSUME Inv, lock # None, NEW outcome \in {"done", "failed", "dead"}, End(outcome),
           UNCHANGED <<memory, generations, results, report>>
    PROVE  Inv'
<1>1. UNCHANGED <<timeline, rows, trees, selections, generations, results, report>>
  BY DEF memory
<1>2. CachesTrue' /\ ObservationTypeOK'
  BY <1>1, CachesKept
<1>3. CutsTrue'
  <2>1. Snapshots' = Snapshots
    BY <1>1 DEF Snapshots
  <2>2. QED
    BY <1>1, <2>1, SameTime DEF Inv, Truth, CutsTrue
<1>4. /\ results' \in Saved /\ report' \in Task \cup {None}
      /\ results'.full # None => results'.full.generation # 0
      /\ MarkedReportIsExact'
  BY <1>1 DEF Inv, TypeOK, Saved, Reporting, MarkedReportIsExact, ShownCurrent
<1>5. QED
  BY <1>1, <1>2, <1>3, <1>4, EndKeepsInv

-----------------------------------------------------------------------------
(* Verification *)

LEMMA BeginVerificationKeepsInv ==
    ASSUME Inv, BeginVerification
    PROVE  Inv'
<1>1. /\ Observes /\ timeline' = timeline /\ lock' = lock /\ start' = start
      /\ UNCHANGED <<rows, trees, selections>> /\ scan.at = "next"
  BY DEF BeginVerification, OnlyScan, Observes
<1>2. /\ scan' \in Scan /\ scan'.at = "next" /\ scan'.seen = scan.seen
      /\ scan'.todo = {u \in Source \cup {Tree} : scan.seen[u] # None}
  BY <1>1, FileFacts DEF BeginVerification, Inv, TypeOK, Scan, Stage
<1>3. scan.at \in Observing /\ scan'.at \in Observing /\ scan'.at # "publish"
  BY <1>1, <1>2 DEF Observing
<1>4. Scanning'
  BY <1>2 DEF Scanning, Reading, Hashing
<1>5. SeenTrue' /\ Started'
  <2>1. \A u \in Source \cup Document :
            scan'.seen[u] # None => Known(u, scan.seen[u].stamp, scan.seen[u].value)'
    BY <1>1, <1>2, SameTime DEF Inv, Truth, SeenTrue
  <2>2. QED
    BY <1>1, <1>2, <1>3, <2>1, SameTime DEF Inv, Truth, SeenTrue, Started
<1>6. Verified(Len(timeline))'
  <2>1. \A u \in Source \cup Document : scan.seen[u] # None =>
            scan.seen[u].stamp <= timeline[Len(timeline)][u].stamp
    BY HistoryFacts, FileFacts DEF Inv, TypeOK, Truth, SeenTrue, StampOf, Now
  <2>2. QED
    BY <1>1, <1>2, <1>3, <2>1 DEF Verified
<1>7. Verification'
  <2>1. Len(timeline) \in Moments
    BY DEF Inv, TypeOK, ObservationTypeOK, Moments
  <2>2. QED
    BY <1>1, <1>3, <1>6, <2>1, SameTime DEF Verification
<1>8. QED
  BY <1>1, <1>2, <1>3, <1>4, <1>5, <1>7, CachesKept, ObservesInv


LEMMA VerifySourceKeepsInv ==
    ASSUME Inv, NEW s \in File, VerifySource(s)
    PROVE  Inv'
<1>1. /\ Observes /\ timeline' = timeline /\ lock' = lock /\ start' = start
      /\ UNCHANGED <<rows, trees, selections>>
      /\ scan.at = "next" /\ scan.verifying /\ s \in Source
  BY DEF VerifySource, OnlyScan, Observes
<1>2. /\ scan' \in Scan /\ scan'.at = "next" /\ scan'.seen = scan.seen
      /\ scan'.verifying = scan.verifying /\ scan'.todo = scan.todo \ {s}
      /\ scan'.bad = (scan.bad \/ scan.seen[s].stamp # StampOf(s))
  BY <1>1 DEF VerifySource, Inv, TypeOK, Scan, Stage
<1>3. scan.at \in Observing /\ scan'.at \in Observing /\ scan'.at # "publish"
  BY <1>1, <1>2 DEF Observing
<1>4. Scanning'
  BY <1>2 DEF Scanning, Reading, Hashing
<1>5. SeenTrue' /\ Started'
  <2>1. \A u \in Source \cup Document :
            scan'.seen[u] # None => Known(u, scan.seen[u].stamp, scan.seen[u].value)'
    BY <1>1, <1>2, SameTime DEF Inv, Truth, SeenTrue
  <2>2. QED
    BY <1>1, <1>2, <1>3, <2>1, SameTime DEF Inv, Truth, SeenTrue, Started
<1>6. ASSUME ~ scan'.bad PROVE \E i \in Moments : Verified(i)'
  <2>1. ~ scan.bad /\ scan.seen[s].stamp = StampOf(s)
    BY <1>2, <1>6
  <2>2. PICK i \in Moments : Verified(i)
    BY <1>1, <1>3, <2>1 DEF Inv, Truth, Verification
  <2>3. timeline[i][s].stamp \in Nat /\ timeline[i][s].stamp <= StampOf(s) /\ StampOf(s) \in Nat
    BY <1>1, HistoryFacts, FileFacts DEF Inv, TypeOK, Truth
  <2>4. scan.seen[s] # None => timeline[i][s].stamp = scan.seen[s].stamp
    BY <1>1, <2>1, <2>2, <2>3 DEF Verified
  <2>5. QED
    BY <1>1, <1>2, <1>3, <2>2, <2>4 DEF Verified
<1>7. Verification'
  BY <1>1, <1>2, <1>3, <1>6, SameTime DEF Verification
<1>8. QED
  BY <1>1, <1>2, <1>3, <1>4, <1>5, <1>7, CachesKept, ObservesInv

\* The documents are those of the moment when the verification began.
LEMMA EndScanKeepsInv ==
    ASSUME Inv, lock # None, EndScan
    PROVE  Inv'
<1>1. CASE End("done") /\ UNCHANGED <<memory, generations, results, report>>
  BY <1>1, OnlyEndKeepsInv
<1>2. CASE Fail
  BY <1>2, OnlyEndKeepsInv DEF Fail
<1>3. CASE ResearchNow = start[lock] /\ Goto("publish") /\ OnlyScan /\ UNCHANGED <<rows, trees, selections>>
  <2>1. /\ Observes /\ timeline' = timeline /\ lock' = lock /\ start' = start
        /\ UNCHANGED <<rows, trees, selections>>
        /\ scan.at = "next" /\ scan.verifying /\ scan.todo = {}
    BY <1>3 DEF EndScan, OnlyScan, Observes
  <2>2. /\ scan' \in Scan /\ scan'.at = "publish" /\ scan'.seen = scan.seen
        /\ scan'.verifying = scan.verifying /\ scan'.todo = scan.todo /\ scan'.bad = scan.bad
    BY <1>3 DEF Goto, Inv, TypeOK, Scan, Stage
  <2>3. scan.at \in Observing /\ scan'.at \in Observing
    BY <2>1, <2>2 DEF Observing
  <2>4. Scanning'
    BY <2>2 DEF Scanning, Reading, Hashing
  <2>5. SeenTrue' /\ Started'
    <3>1. \A u \in Source \cup Document :
              scan'.seen[u] # None => Known(u, scan.seen[u].stamp, scan.seen[u].value)'
      BY <2>1, <2>2, SameTime DEF Inv, Truth, SeenTrue
    <3>2. QED
      BY <2>1, <2>2, <2>3, <3>1, SameTime DEF Inv, Truth, SeenTrue, Started
  <2>6. ASSUME NEW i \in Moments, Verified(i) PROVE Verified(i)'
    <3>1. SUFFICES ASSUME NEW d \in Document, scan.seen[d] # None
                   PROVE  timeline[i][d].stamp = scan.seen[d].stamp
      BY <2>1, <2>2, <2>6 DEF Verified
    <3>2. start[lock][d] = StampOf(d) /\ start[lock][d] <= scan.seen[d].stamp
      BY <1>3, <2>3, <3>1, FileFacts DEF ResearchNow, Inv, Truth, Started
    <3>3. scan.seen[d].stamp <= timeline[i][d].stamp
      BY <2>6, <3>1 DEF Verified
    <3>4. /\ timeline[i][d].stamp \in Nat /\ timeline[i][d].stamp <= StampOf(d) /\ StampOf(d) \in Nat
          /\ scan.seen[d].stamp \in Nat
      BY <3>1, HistoryFacts, FileFacts DEF Inv, TypeOK, Truth, SeenTrue, Known
    <3>5. QED
      BY <3>2, <3>3, <3>4
  <2>7. Verification'
    BY <2>1, <2>2, <2>3, <2>6, SameTime DEF Inv, Truth, Verification
  <2>8. QED
    BY <2>1, <2>2, <2>3, <2>4, <2>5, <2>7, CachesKept, ObservesInv
<1>4. QED
  BY <1>1, <1>2, <1>3 DEF EndScan


-----------------------------------------------------------------------------
(* A file is read *)

\* Who observes a source or hashes a member, and since when.
LEMMA HashingFacts ==
    ASSUME Inv, scan.at \in Hashing
    PROVE  /\ scan.file \in File
           /\ scan.unit \in Source => SourceScan /\ scan.file = scan.unit
           /\ scan.unit \notin Source =>
                /\ scan.unit = Tree /\ TreeScan /\ scan.file \in Member /\ scan.file \in scan.left
                /\ scan.stamps[scan.file] \in Stamp /\ scan.stamps[scan.file] <= StampOf(scan.file)
<1>1. scan.left \subseteq Member
  BY DEF Inv, TypeOK, Scan
<1>2. CASE scan.unit \in Source
  BY <1>2, FileFacts DEF Inv, Truth, Scanning, SourceScan, TreeScan, Reading
<1>3. CASE scan.unit \notin Source
  <2>1. scan.unit = Tree /\ TreeScan
    BY <1>3 DEF Inv, Truth, Scanning, Reading
  <2>2. scan.file \in scan.left /\ scan.at # "list"
    BY <2>1 DEF TreeScan, Hashing
  <2>3. QED
    BY <1>1, <1>3, <2>1, <2>2, FileFacts DEF TreeScan
<1>4. QED
  BY <1>2, <1>3

\* The file has a digest: it had it under an identity that is not too old.
LEMMA ToHashed ==
    ASSUME Inv, scan.at \in Hashing, timeline' = timeline, NEW digest,
           scan' = [scan EXCEPT !.at = "hashed", !.digest = digest],
           NEW s \in Stamp, Known(scan.file, s, digest),
           scan.unit \in Source => scan.stat <= s,
           scan.unit \notin Source => scan.stamps[scan.file] <= s
    PROVE  scan' \in Scan /\ Scanning'
<1>1. digest \in Content
  BY HashingFacts, HistoryFacts DEF Inv, TypeOK, Truth
<1>2. /\ scan' \in Scan /\ scan'.at = "hashed" /\ scan'.digest = digest
      /\ scan'.unit = scan.unit /\ scan'.file = scan.file /\ scan'.stat = scan.stat
      /\ scan'.verifying = scan.verifying /\ scan'.left = scan.left
      /\ scan'.stamps = scan.stamps /\ scan'.digests = scan.digests
  BY <1>1 DEF Inv, TypeOK, Scan, Stage
<1>3. CASE scan.unit \in Source
  <2>1. Since(scan.unit, scan.stat, digest)
    BY <1>3, HashingFacts DEF Since
  <2>2. SourceScan'
    BY <1>2, <1>3, <2>1, HashingFacts, SameTime DEF SourceScan
  <2>3. QED
    BY <1>2, <1>3, <2>2 DEF Scanning, Hashing
<1>4. CASE scan.unit \notin Source
  <2>1. Since(scan.file, scan.stamps[scan.file], digest)
    BY <1>4 DEF Since
  <2>2. scan.unit = Tree /\ TreeScan
    BY <1>4, HashingFacts
  <2>3. \A i \in Moments : Between(i) => Between(i)'
    BY <1>2 DEF Between
  <2>4. \E i \in Moments : Between(i)'
    BY <2>2, <2>3 DEF TreeScan, Hashing
  <2>5. TreeScan'
    BY <1>2, <2>1, <2>2, <2>4, SameTime DEF TreeScan, Hashing
  <2>6. QED
    BY <1>2, <2>2, <2>5 DEF Scanning, Hashing
<1>5. QED
  BY <1>2, <1>3, <1>4

LEMMA HashedKeepsInv ==
    ASSUME Inv, Observes, scan.at \in Hashing, NEW digest,
           scan' = [scan EXCEPT !.at = "hashed", !.digest = digest],
           scan' \in Scan, Scanning', ObservationTypeOK', CachesTrue'
    PROVE  Inv'
<1>1. /\ scan'.at = "hashed" /\ scan'.seen = scan.seen /\ scan'.verifying = scan.verifying
      /\ scan'.bad = scan.bad /\ scan'.todo = scan.todo
  BY DEF Inv, TypeOK, Scan
<1>2. scan.at \in Observing /\ scan'.at \in Observing \ {"publish"}
  BY <1>1 DEF Observing, Reading, Hashing
<1>3. QED
  BY <1>1, <1>2, QuietKeeps, ObservesInv

LEMMA ReuseFileKeepsInv ==
    ASSUME Inv, ReuseFile
    PROVE  Inv'
<1>1. /\ Observes /\ timeline' = timeline /\ UNCHANGED <<rows, trees, selections>>
      /\ scan.at = "hash" /\ scan.at \in Hashing /\ MatchingFile(scan.file) # None
      /\ scan' = [scan EXCEPT !.at = "hashed", !.digest = MatchingFile(scan.file)]
  BY DEF ReuseFile, OnlyScan, Observes, Hashing
<1>2. /\ rows[scan.file] # None /\ rows[scan.file].stamp = StampOf(scan.file)
      /\ MatchingFile(scan.file) = rows[scan.file].digest
  BY <1>1 DEF MatchingFile
<1>3. /\ Known(scan.file, StampOf(scan.file), MatchingFile(scan.file))
      /\ StampOf(scan.file) \in Stamp
  BY <1>1, <1>2, HashingFacts, HistoryFacts DEF Inv, TypeOK, Truth, CachesTrue, RowsTrue
<1>4. scan.unit \in Source => scan.stat <= StampOf(scan.file)
  BY <1>1, HashingFacts DEF SourceScan
<1>5. scan.unit \notin Source => scan.stamps[scan.file] <= StampOf(scan.file)
  BY <1>1, HashingFacts
<1>6. scan' \in Scan /\ Scanning'
  BY <1>1, <1>3, <1>4, <1>5, ToHashed
<1>7. QED
  BY <1>1, <1>6, CachesKept, HashedKeepsInv

LEMMA HashFileKeepsInv ==
    ASSUME Inv, HashFile
    PROVE  Inv'
<1>1. /\ Observes /\ timeline' = timeline /\ UNCHANGED <<rows, trees, selections>>
      /\ scan.at = "hash" /\ scan.at \in Hashing
  BY DEF HashFile, OnlyScan, Observes, Hashing
<1>2. /\ StampOf(scan.file) \in Stamp /\ ContentOf(scan.file) \in Content
      /\ Known(scan.file, StampOf(scan.file), ContentOf(scan.file))
  BY <1>1, HashingFacts, HistoryFacts DEF Inv, TypeOK, Truth
<1>3. PICK row : row = [stamp |-> StampOf(scan.file), digest |-> ContentOf(scan.file)]
  OBVIOUS
<1>4. row \in FileRow /\ row.stamp = StampOf(scan.file) /\ row.digest = ContentOf(scan.file)
  BY <1>2, <1>3 DEF FileRow
<1>5. scan' = [scan EXCEPT !.at = "hashing", !.read = row]
  BY <1>3 DEF HashFile
<1>6. /\ scan' \in Scan /\ scan'.at = "hashing" /\ scan'.read = row
      /\ scan'.unit = scan.unit /\ scan'.file = scan.file /\ scan'.stat = scan.stat
      /\ scan'.verifying = scan.verifying /\ scan'.left = scan.left
      /\ scan'.stamps = scan.stamps /\ scan'.digests = scan.digests
      /\ scan'.seen = scan.seen /\ scan'.bad = scan.bad /\ scan'.todo = scan.todo
  BY <1>4, <1>5 DEF Inv, TypeOK, Scan, Stage
<1>7. scan.at \in Observing /\ scan'.at \in Observing \ {"publish"}
  BY <1>1, <1>6 DEF Observing, Reading, Hashing
<1>8. CASE scan.unit \in Source
  <2>1. SourceScan'
    BY <1>1, <1>2, <1>4, <1>6, <1>8, HashingFacts, SameTime DEF SourceScan
  <2>2. Scanning'
    BY <1>6, <1>8, <2>1 DEF Scanning, Hashing
  <2>3. QED
    BY <1>1, <1>6, <1>7, <2>2, QuietKeeps, CachesKept, ObservesInv
<1>9. CASE scan.unit \notin Source
  <2>1. /\ scan.unit = Tree /\ TreeScan
        /\ scan.stamps[scan.file] \in Stamp /\ scan.stamps[scan.file] <= StampOf(scan.file)
    BY <1>1, <1>9, HashingFacts
  <2>2. \A i \in Moments : Between(i) => Between(i)'
    BY <1>1, <1>6 DEF Between
  <2>3. \E i \in Moments : Between(i)'
    BY <1>1, <2>1, <2>2 DEF TreeScan
  <2>4. TreeScan'
    BY <1>1, <1>2, <1>4, <1>6, <2>1, <2>3, SameTime DEF TreeScan, Hashing
  <2>5. Scanning'
    BY <1>6, <2>1, <2>4 DEF Scanning, Hashing
  <2>6. QED
    BY <1>1, <1>6, <1>7, <2>5, QuietKeeps, CachesKept, ObservesInv
<1>10. QED
  BY <1>8, <1>9


-----------------------------------------------------------------------------
(* A unit is over *)

LEMMA UnavailableKeepsInv ==
    ASSUME Inv, Observes, scan.at \in Reading, scan' = Unavailable,
           UNCHANGED <<rows, trees, selections>>
    PROVE  Inv'
<1>1. [scan EXCEPT !.bad = TRUE] \in Scan
  BY DEF Inv, TypeOK, Scan
<1>2. PICK memo \in Scan : memo = [scan EXCEPT !.bad = TRUE]
  BY <1>1
<1>3. memo.bad /\ memo.seen = scan.seen /\ memo.verifying = scan.verifying /\ memo.todo = scan.todo
  BY <1>2 DEF Inv, TypeOK, Scan
<1>4. scan' = Over(memo) /\ scan \in Scan
  BY <1>2 DEF Unavailable, Inv, TypeOK
<1>5. /\ scan' \in Scan /\ scan'.at = "next" /\ scan'.todo = scan.todo \ {scan.unit}
      /\ scan'.seen = scan.seen /\ scan'.verifying = scan.verifying /\ scan'.bad
  BY <1>3, <1>4, OverFacts
<1>6. scan.at \in Observing /\ scan'.at \in Observing
  BY <1>5 DEF Observing
<1>7. Scanning' /\ SeenTrue' /\ Started' /\ Verification'
  BY <1>5, NothingSeen
<1>8. CachesTrue' /\ ObservationTypeOK'
  BY CachesKept DEF Observes
<1>9. QED
  BY <1>5, <1>6, <1>7, <1>8, ObservesInv

LEMMA SeenFacts ==
    ASSUME scan \in Scan, scan.unit \in Unit,
           NEW stamp \in Stamp \cup {None}, NEW value \in Content \cup [Member -> Content]
    PROVE  /\ Seen(stamp, value) \in Scan
           /\ Seen(stamp, value).at = "next"
           /\ Seen(stamp, value).todo = scan.todo \ {scan.unit}
           /\ Seen(stamp, value).verifying = scan.verifying
           /\ scan.verifying =>
                Seen(stamp, value).seen = scan.seen /\ (scan.bad => Seen(stamp, value).bad)
           /\ ~ scan.verifying =>
                Seen(stamp, value).seen =
                    [scan.seen EXCEPT ![scan.unit] = [stamp |-> stamp, value |-> value]]
<1>1. CASE scan.verifying
  <2>1. PICK memo : memo = [scan EXCEPT !.bad = @ \/ scan.seen[scan.unit].value # value]
    OBVIOUS
  <2>2. /\ memo \in Scan /\ memo.seen = scan.seen /\ memo.verifying = scan.verifying
        /\ memo.todo = scan.todo /\ (scan.bad => memo.bad)
    BY <2>1 DEF Scan
  <2>3. Seen(stamp, value) = Over(memo)
    BY <1>1, <2>1 DEF Seen
  <2>4. QED
    BY <1>1, <2>2, <2>3, OverFacts
<1>2. CASE ~ scan.verifying
  <2>1. PICK obs : obs = [stamp |-> stamp, value |-> value]
    OBVIOUS
  <2>2. obs \in Observed
    BY <2>1 DEF Observed
  <2>3. PICK memo : memo = [scan EXCEPT !.seen[scan.unit] = obs]
    OBVIOUS
  <2>4. /\ memo \in Scan /\ memo.seen = [scan.seen EXCEPT ![scan.unit] = obs]
        /\ memo.verifying = scan.verifying /\ memo.todo = scan.todo
    BY <2>2, <2>3 DEF Scan
  <2>5. Seen(stamp, value) = Over(memo)
    BY <1>2, <2>1, <2>3 DEF Seen
  <2>6. QED
    BY <1>2, <2>1, <2>4, <2>5, OverFacts
<1>3. QED
  BY <1>1, <1>2

LEMMA SeenKeepsInv ==
    ASSUME Inv, Observes, scan.at \in Reading, scan.unit \in Source \cup {Tree},
           NEW stamp \in Stamp \cup {None}, NEW value \in Content \cup [Member -> Content],
           scan' \in Scan, scan'.at = Seen(stamp, value).at, scan'.todo = Seen(stamp, value).todo,
           scan'.seen = Seen(stamp, value).seen, scan'.bad = Seen(stamp, value).bad,
           scan'.verifying = Seen(stamp, value).verifying,
           ~ scan.verifying =>
            /\ scan.unit \in Source => Known(scan.unit, stamp, value)
            /\ scan.unit = Tree =>
                \E i \in Moments : \A m \in Member : timeline[i][m].content = value[m],
           ObservationTypeOK', CachesTrue'
    PROVE  Inv'
<1>1. scan \in Scan /\ scan.unit \in Unit
  BY FileFacts DEF Inv, TypeOK
<1>2. scan'.at = "next" /\ scan'.todo = scan.todo \ {scan.unit} /\ scan'.verifying = scan.verifying
  BY <1>1, SeenFacts
<1>3. scan.at \in Observing /\ scan'.at \in Observing
  BY <1>2 DEF Observing
<1>4. Scanning' /\ SeenTrue' /\ Started' /\ Verification'
  <2>1. CASE scan.verifying
    <3>1. scan'.seen = scan.seen /\ (scan.bad => scan'.bad)
      BY <1>1, <2>1, SeenFacts
    <3>2. QED
      BY <1>2, <3>1, NothingSeen
  <2>2. CASE ~ scan.verifying
    <3>1. PICK obs : obs = [stamp |-> stamp, value |-> value]
      OBVIOUS
    <3>2. scan'.seen = [scan.seen EXCEPT ![scan.unit] = obs]
      BY <1>1, <2>2, <3>1, SeenFacts
    <3>3. obs.stamp = stamp /\ obs.value = value
      BY <3>1
    <3>4. QED
      BY <1>2, <2>2, <3>2, <3>3, UnitSeen
  <2>3. QED
    BY <2>1, <2>2
<1>5. QED
  BY <1>3, <1>4, ObservesInv


-----------------------------------------------------------------------------
(* Fingerprints and selections *)

\* What is stored is what the file held under the identity it is stored for.
LEMMA EndHashKeepsInv ==
    ASSUME Inv, EndHash
    PROVE  Inv'
<1>1. /\ Observes /\ timeline' = timeline /\ UNCHANGED <<trees, selections>>
      /\ scan.at = "hashing" /\ scan.at \in Hashing
  BY DEF EndHash, OnlyScan, Observes, Hashing
<1>2. /\ scan.read \in FileRow /\ scan.read.stamp \in Stamp
      /\ Known(scan.file, scan.read.stamp, scan.read.digest)
  BY <1>1, HashingFacts DEF SourceScan, TreeScan, FileRow
<1>3. CASE scan.read.stamp = StampOf(scan.file)
  <2>1. /\ scan' = [scan EXCEPT !.at = "hashed", !.digest = scan.read.digest]
        /\ rows' = IF Writable THEN [rows EXCEPT ![scan.file] = scan.read] ELSE rows
    BY <1>3 DEF EndHash
  <2>2. /\ scan.unit \in Source => scan.stat <= scan.read.stamp
        /\ scan.unit \notin Source => scan.stamps[scan.file] <= scan.read.stamp
    BY <1>1, HashingFacts DEF SourceScan, TreeScan
  <2>3. scan' \in Scan /\ Scanning'
    BY <1>1, <1>2, <2>1, <2>2, ToHashed
  <2>4. rows' \in [File -> FileRow \cup {None}]
    BY <1>2, <2>1 DEF Inv, TypeOK, ObservationTypeOK
  <2>5. \A f \in File : rows'[f] # None => Known(f, rows'[f].stamp, rows'[f].digest)
    BY <1>2, <2>1 DEF Inv, TypeOK, ObservationTypeOK, Truth, CachesTrue, RowsTrue
  <2>6. RowsTrue'
    BY <1>1, <2>5, SameTime DEF RowsTrue
  <2>7. TreesTrue' /\ SelectionsTrue'
    BY <1>1, SameTime DEF Inv, Truth, CachesTrue, TreesTrue, SelectionsTrue, Stored
  <2>8. CachesTrue' /\ ObservationTypeOK'
    BY <1>1, <2>4, <2>6, <2>7 DEF CachesTrue, Inv, TypeOK, ObservationTypeOK
  <2>9. QED
    BY <1>1, <2>1, <2>3, <2>8, HashedKeepsInv
<1>4. CASE scan.read.stamp # StampOf(scan.file)
  <2>1. scan' = Unavailable /\ UNCHANGED rows
    BY <1>4 DEF EndHash
  <2>2. QED
    BY <1>1, <2>1, UnavailableKeepsInv DEF Reading
<1>5. QED
  BY <1>3, <1>4

\* A selection is taken from the cache for what the source held when it was first
\* looked at.
LEMMA LookUpKeepsInv ==
    ASSUME Inv, LookUp
    PROVE  Inv'
<1>1. /\ Observes /\ timeline' = timeline /\ UNCHANGED <<rows, trees, selections>>
      /\ scan.at = "hashed" /\ scan.at \in Hashing /\ scan.at \in Reading /\ scan.unit \in Source
  BY DEF LookUp, OnlyScan, Observes, Hashing, Reading
<1>2. CASE ~ Settled
  <2>1. scan' = Unavailable
    BY <1>2 DEF LookUp
  <2>2. QED
    BY <1>1, <2>1, UnavailableKeepsInv
<1>3. CASE Settled
  <2>1. /\ SourceScan /\ ~ scan.verifying /\ scan.file = scan.unit /\ scan.unit \in File
        /\ scan.stat \in Stamp /\ scan.stat = StampOf(scan.unit)
        /\ Since(scan.unit, scan.stat, scan.digest)
    BY <1>1, <1>3, HashingFacts, FileFacts DEF SourceScan, Settled
  <2>2. Known(scan.unit, scan.stat, scan.digest) /\ scan.digest \in Content
    BY <2>1, SettledContent, HistoryFacts DEF Inv, TypeOK, Truth
  <2>3. CASE Reuses /\ scan.digest \in Stored
    <3>1. /\ selections[scan.digest].value = scan.digest
          /\ scan' = [Seen(scan.stat, scan.digest)
                         EXCEPT !.used = @ \cup IF Writable THEN {scan.digest} ELSE {}]
      BY <1>3, <2>3 DEF LookUp, Inv, Truth, CachesTrue, SelectionsTrue
    <3>2. PICK memo : memo = Seen(scan.stat, scan.digest)
      OBVIOUS
    <3>3. memo \in Scan
      BY <1>1, <2>1, <2>2, <3>2, SeenFacts, FileFacts DEF Inv, TypeOK
    <3>4. scan' = [memo EXCEPT !.used = @ \cup IF Writable THEN {scan.digest} ELSE {}]
      BY <3>1, <3>2
    <3>5. /\ scan' \in Scan /\ scan'.at = memo.at /\ scan'.todo = memo.todo
          /\ scan'.seen = memo.seen /\ scan'.bad = memo.bad /\ scan'.verifying = memo.verifying
      BY <2>2, <3>3, <3>4 DEF Scan
    <3>6. QED
      BY <1>1, <2>1, <2>2, <3>2, <3>5, SeenKeepsInv, CachesKept, FileFacts
  <2>4. CASE ~ (Reuses /\ scan.digest \in Stored)
    <3>1. scan' = [scan EXCEPT !.at = "load"]
      BY <1>3, <2>4 DEF LookUp
    <3>2. /\ scan' \in Scan /\ scan'.at = "load" /\ scan'.digest = scan.digest
          /\ scan'.unit = scan.unit /\ scan'.file = scan.file /\ scan'.stat = scan.stat
          /\ scan'.verifying = scan.verifying /\ scan'.seen = scan.seen
          /\ scan'.bad = scan.bad /\ scan'.todo = scan.todo
      BY <3>1 DEF Inv, TypeOK, Scan, Stage
    <3>3. SourceScan'
      BY <1>1, <2>1, <2>2, <3>2, SameTime DEF SourceScan
    <3>4. Scanning'
      BY <1>1, <3>2, <3>3 DEF Scanning
    <3>5. scan.at \in Observing /\ scan'.at \in Observing \ {"publish"}
      BY <1>1, <3>2 DEF Observing, Reading
    <3>6. QED
      BY <1>1, <3>2, <3>4, <3>5, QuietKeeps, CachesKept, ObservesInv
  <2>5. QED
    BY <2>3, <2>4
<1>4. QED
  BY <1>2, <1>3

LEMMA LoadKeepsInv ==
    ASSUME Inv, Load
    PROVE  Inv'
<1>1. /\ Observes /\ timeline' = timeline /\ UNCHANGED <<rows, trees, selections>>
      /\ scan.at = "load"
  BY DEF Load, OnlyScan, Observes
<1>2. /\ SourceScan /\ scan.unit \in Source /\ scan.unit \in File /\ scan.file = scan.unit
      /\ scan.stat \in Stamp /\ scan.stat <= StampOf(scan.unit)
  BY <1>1, FileFacts DEF Inv, Truth, Scanning, Reading, Hashing, SourceScan
<1>3. /\ StampOf(scan.unit) \in Stamp /\ ContentOf(scan.unit) \in Content
      /\ Known(scan.unit, StampOf(scan.unit), ContentOf(scan.unit))
  BY <1>2, HistoryFacts DEF Inv, TypeOK, Truth
<1>4. Since(scan.unit, scan.stat, ContentOf(scan.unit))
  BY <1>2, <1>3 DEF Since
<1>5. /\ scan' \in Scan /\ scan'.at = "evaluate" /\ scan'.digest = scan.digest
      /\ scan'.unit = scan.unit /\ scan'.file = scan.file /\ scan'.stat = scan.stat
      /\ scan'.verifying = scan.verifying /\ scan'.seen = scan.seen
      /\ scan'.bad = scan.bad /\ scan'.todo = scan.todo /\ scan'.read = ContentOf(scan.unit)
  BY <1>2, <1>3 DEF Load, Inv, TypeOK, Scan, Stage
<1>6. SourceScan'
  BY <1>1, <1>2, <1>4, <1>5, SameTime DEF SourceScan
<1>7. Scanning'
  BY <1>2, <1>5, <1>6 DEF Scanning
<1>8. scan.at \in Observing /\ scan'.at \in Observing \ {"publish"}
  BY <1>1, <1>5 DEF Observing, Reading
<1>9. QED
  BY <1>1, <1>5, <1>7, <1>8, QuietKeeps, CachesKept, ObservesInv

\* A selection is stored for the content it was made in.
LEMMA EvaluateKeepsInv ==
    ASSUME Inv, Evaluate
    PROVE  Inv'
<1>1. /\ Observes /\ timeline' = timeline /\ UNCHANGED <<rows, trees>>
      /\ scan.at = "evaluate" /\ scan.at \in Reading
  BY DEF Evaluate, OnlyScan, Observes, Reading
<1>2. /\ SourceScan /\ scan.unit \in Source /\ scan.unit \in File
      /\ scan.file = scan.unit /\ ~ scan.verifying /\ scan.stat \in Stamp
      /\ Known(scan.unit, scan.stat, scan.digest) /\ Since(scan.unit, scan.stat, scan.read)
  BY <1>1, FileFacts DEF Inv, Truth, Scanning, Hashing, SourceScan
<1>3. CASE Settled
  <2>1. /\ scan' = Seen(scan.stat, scan.read)
        /\ selections' = IF Writable THEN WithSelection(scan.digest, scan.read, scan.run)
                         ELSE selections
    BY <1>3 DEF Evaluate
  <2>2. Known(scan.unit, scan.stat, scan.read)
    BY <1>2, <1>3, SettledContent DEF Settled, Inv, TypeOK, Truth
  <2>3. scan.read = scan.digest /\ scan.read \in Content
    BY <1>2, <2>2, HistoryFacts DEF Inv, TypeOK, Truth
  <2>4. PICK row : row = [value |-> scan.read, generation |-> scan.run]
    OBVIOUS
  <2>5. row \in Selection /\ row.value = scan.digest
    BY <2>3, <2>4 DEF Selection, Inv, TypeOK, Scan
  <2>6. selections' = selections \/ selections' = [selections EXCEPT ![scan.digest] = row]
    BY <2>1, <2>4 DEF WithSelection
  <2>7. selections' \in [Content -> Selection \cup {None}]
    BY <2>5, <2>6 DEF Inv, TypeOK, ObservationTypeOK
  <2>8. SelectionsTrue'
    BY <2>3, <2>5, <2>6 DEF Inv, TypeOK, ObservationTypeOK, Truth, CachesTrue, SelectionsTrue, Stored
  <2>9. RowsTrue' /\ TreesTrue'
    BY <1>1, SameTime DEF Inv, Truth, CachesTrue, RowsTrue, TreesTrue
  <2>10. CachesTrue' /\ ObservationTypeOK'
    BY <1>1, <2>7, <2>8, <2>9 DEF CachesTrue, Inv, TypeOK, ObservationTypeOK
  <2>11. scan' \in Scan
    BY <1>2, <2>1, <2>3, SeenFacts, FileFacts DEF Inv, TypeOK
  <2>12. QED
    BY <1>1, <1>2, <2>1, <2>2, <2>3, <2>10, <2>11, SeenKeepsInv, FileFacts
<1>4. CASE ~ Settled
  <2>1. scan' = Unavailable /\ UNCHANGED selections
    BY <1>4 DEF Evaluate
  <2>2. QED
    BY <1>1, <2>1, UnavailableKeepsInv
<1>5. QED
  BY <1>3, <1>4


-----------------------------------------------------------------------------
(* The directory *)

\* The directory is under observation.
LEMMA TreeFacts ==
    ASSUME Inv, scan.at \in Reading, scan.unit = Tree
    PROVE  /\ TreeScan /\ scan \in Scan /\ scan.left \subseteq Member
           /\ \A m \in Member : m \in File /\ StampOf(m) \in Stamp /\ StampOf(m) \in Nat
           /\ \A m \in Member : scan.at # "list" \/ m \notin scan.left => scan.stamps[m] \in Nat
<1>1. TreeScan /\ scan \in Scan /\ scan.left \subseteq Member
  BY FileFacts DEF Inv, TypeOK, Truth, Scanning, Scan
<1>2. \A m \in Member : m \in File /\ StampOf(m) \in Stamp /\ StampOf(m) \in Nat
  BY HistoryFacts, FileFacts DEF Inv, TypeOK, Truth
<1>3. \A m \in Member : scan.at # "list" \/ m \notin scan.left => scan.stamps[m] \in Nat
  BY <1>1, FileFacts DEF TreeScan
<1>4. QED
  BY <1>1, <1>2, <1>3

LEMMA TreeQuiet ==
    ASSUME Inv, Observes, scan.at \in Reading, scan'.at \in Reading, scan' \in Scan,
           scan'.unit = Tree, scan'.at \in Hashing \cup {"list", "relist"}, TreeScan',
           scan'.seen = scan.seen, scan'.verifying = scan.verifying,
           scan'.bad = scan.bad, scan'.todo = scan.todo,
           UNCHANGED <<rows, trees, selections>>
    PROVE  Inv'
<1>1. Scanning'
  BY DEF Scanning
<1>2. scan.at \in Observing /\ scan'.at \in Observing \ {"publish"}
  BY DEF Observing, Reading, Hashing
<1>3. CachesTrue' /\ ObservationTypeOK'
  BY CachesKept DEF Observes
<1>4. QED
  BY <1>1, <1>2, <1>3, QuietKeeps, ObservesInv

LEMMA ListKeepsInv ==
    ASSUME Inv, List
    PROVE  Inv'
<1>1. /\ Observes /\ timeline' = timeline /\ UNCHANGED <<rows, trees, selections>>
      /\ scan.at = "list" /\ scan.at \in Reading /\ scan.unit = Tree /\ scan.left # {}
  BY DEF List, OnlyScan, Observes, Reading, Inv, Truth, Scanning, Hashing
<1>2. PICK m : m = Least(scan.left)
  OBVIOUS
<1>3. m \in scan.left /\ m \in Member /\ StampOf(m) \in Stamp /\ StampOf(m) \in Nat
  BY <1>1, <1>2, TreeFacts, FirstMember
<1>4. scan' = [scan EXCEPT !.stamps[m] = StampOf(m), !.left = @ \ {m}]
  BY <1>2 DEF List
<1>5. /\ scan' \in Scan /\ scan'.at = "list" /\ scan'.unit = Tree
      /\ scan'.left = scan.left \ {m} /\ scan'.stamps = [scan.stamps EXCEPT ![m] = StampOf(m)]
      /\ scan'.seen = scan.seen /\ scan'.verifying = scan.verifying
      /\ scan'.bad = scan.bad /\ scan'.todo = scan.todo
  BY <1>1, <1>3, <1>4 DEF Inv, TypeOK, Scan
<1>6. \A n \in Member : scan'.stamps[n] = IF n = m THEN StampOf(m) ELSE scan.stamps[n]
  BY <1>5 DEF Inv, TypeOK, Scan
<1>7. \A n \in Member : n \notin scan'.left =>
        scan'.stamps[n] \in Stamp /\ scan'.stamps[n] <= StampOf(n)
  <2>1. StampOf(m) <= StampOf(m)
    BY <1>3
  <2>2. QED
    BY <1>1, <1>3, <1>5, <1>6, <2>1, TreeFacts DEF TreeScan
<1>8. TreeScan'
  BY <1>1, <1>5, <1>7, SameTime DEF TreeScan, Hashing
<1>9. QED
  BY <1>1, <1>5, <1>8, TreeQuiet

\* What follows when a member is hashed or none has to be.
LEMMA HashNextFacts ==
    ASSUME scan \in Scan, NEW left \in SUBSET Member
    PROVE  /\ HashNext(left) \in Scan
           /\ left = {} =>
                HashNext(left).at = "relist" /\ HashNext(left).left = Member
           /\ left # {} =>
                /\ HashNext(left).at = "hash" /\ HashNext(left).left = left
                /\ HashNext(left).file \in left
           /\ HashNext(left).unit = scan.unit /\ HashNext(left).stamps = scan.stamps
           /\ HashNext(left).digests = scan.digests
           /\ HashNext(left).seen = scan.seen /\ HashNext(left).verifying = scan.verifying
           /\ HashNext(left).bad = scan.bad /\ HashNext(left).todo = scan.todo
<1>1. CASE left = {}
  <2>1. HashNext(left) = [scan EXCEPT !.at = "relist", !.left = Member, !.file = None]
    BY <1>1 DEF HashNext
  <2>2. QED
    BY <1>1, <2>1 DEF Scan, Stage
<1>2. CASE left # {}
  <2>1. PICK m : m = Least(left)
    OBVIOUS
  <2>2. m \in left /\ m \in File
    BY <1>2, <2>1, FirstMember, FileFacts
  <2>3. HashNext(left) = [scan EXCEPT !.at = "hash", !.left = left, !.file = m]
    BY <1>2, <2>1 DEF HashNext
  <2>4. QED
    BY <1>2, <2>2, <2>3 DEF Scan, Stage
<1>3. QED
  BY <1>1, <1>2

LEMMA ListedKeepsInv ==
    ASSUME Inv, Listed
    PROVE  Inv'
<1>1. /\ Observes /\ timeline' = timeline /\ UNCHANGED <<rows, trees, selections>>
      /\ scan.at = "list" /\ scan.at \in Reading /\ scan.unit = Tree /\ scan.left = {}
  BY DEF Listed, OnlyScan, Observes, Reading, Inv, Truth, Scanning, Hashing
<1>2. CASE Reuses /\ MatchingTree(scan.stamps) # None
  <2>1. /\ scan' = Seen(None, trees.digest) /\ trees # None
    BY <1>2 DEF Listed, MatchingTree
  <2>2. /\ trees.digest \in [Member -> Content]
        /\ \E i \in Moments : \A m \in Member : timeline[i][m].content = trees.digest[m]
    <3>1. trees.digest \in [Member -> Content]
      BY <2>1 DEF Inv, TypeOK, ObservationTypeOK, TreeRow
    <3>2. PICK i \in Moments : \A m \in Member :
            timeline[i][m] = [stamp |-> trees.stamp[m], content |-> trees.digest[m]]
      BY <2>1 DEF Inv, Truth, CachesTrue, TreesTrue
    <3>3. ASSUME NEW m \in Member PROVE timeline[i][m].content = trees.digest[m]
      <4>1. timeline[i][m] = [stamp |-> trees.stamp[m], content |-> trees.digest[m]]
        BY <3>2
      <4>2. QED
        BY <4>1
    <3>4. QED
      BY <3>1, <3>3
  <2>3. scan' \in Scan
    BY <1>1, <2>1, <2>2, SeenFacts, FileFacts DEF Inv, TypeOK
  <2>4. QED
    BY <1>1, <2>1, <2>2, <2>3, SeenKeepsInv, CachesKept, FileFacts
<1>3. CASE ~ (Reuses /\ MatchingTree(scan.stamps) # None)
  <2>1. scan' = HashNext(Member) /\ scan \in Scan
    BY <1>3 DEF Listed, Inv, TypeOK
  <2>2. /\ scan' \in Scan /\ scan'.unit = Tree /\ scan'.left = Member
        /\ scan'.at = IF Member = {} THEN "relist" ELSE "hash"
        /\ Member # {} => scan'.file \in Member
        /\ scan'.stamps = scan.stamps /\ scan'.seen = scan.seen
        /\ scan'.verifying = scan.verifying /\ scan'.bad = scan.bad /\ scan'.todo = scan.todo
    BY <1>1, <2>1, HashNextFacts
  <2>3. \A m \in Member : scan.stamps[m] \in Stamp /\ scan.stamps[m] <= StampOf(m)
    BY <1>1, TreeFacts DEF TreeScan
  <2>4. Len(timeline) \in Moments /\ Between(Len(timeline))'
    BY <1>1, <2>2, <2>3 DEF Between, StampOf, Now, Inv, TypeOK, ObservationTypeOK, Moments
  <2>5. \E i \in Moments : Between(i)'
    BY <1>1, <2>4
  <2>6. TreeScan'
    BY <1>1, <2>2, <2>3, <2>5, SameTime DEF TreeScan, Hashing
  <2>7. QED
    BY <1>1, <2>2, <2>6, TreeQuiet DEF Reading, Hashing
<1>4. QED
  BY <1>2, <1>3

LEMMA MemberHashedKeepsInv ==
    ASSUME Inv, MemberHashed
    PROVE  Inv'
<1>1. /\ Observes /\ timeline' = timeline /\ UNCHANGED <<rows, trees, selections>>
      /\ scan.at = "hashed" /\ scan.at \in Hashing /\ scan.at \in Reading /\ scan.unit = Tree
  BY DEF MemberHashed, OnlyScan, Observes, Reading, Hashing
<1>2. /\ TreeScan /\ scan \in Scan /\ scan.left \subseteq Member
      /\ scan.file \in Member /\ scan.file \in scan.left
      /\ Since(scan.file, scan.stamps[scan.file], scan.digest)
  BY <1>1, TreeFacts, HashingFacts, FileFacts DEF TreeScan, Hashing
<1>3. scan.digest \in Content
  BY <1>2, HistoryFacts, FileFacts DEF Since, Inv, TypeOK, Truth
<1>4. PICK left : left = scan.left \ {scan.file}
  OBVIOUS
<1>5. left \in SUBSET Member
  BY <1>2, <1>4
<1>6. PICK memo : memo = HashNext(left)
  OBVIOUS
<1>7. /\ memo \in Scan
      /\ left = {} => memo.at = "relist" /\ memo.left = Member
      /\ left # {} => memo.at = "hash" /\ memo.left = left /\ memo.file \in left
      /\ memo.unit = Tree /\ memo.stamps = scan.stamps /\ memo.digests = scan.digests
      /\ memo.seen = scan.seen /\ memo.verifying = scan.verifying
      /\ memo.bad = scan.bad /\ memo.todo = scan.todo
  BY <1>1, <1>2, <1>5, <1>6, HashNextFacts
<1>8. scan' = [memo EXCEPT !.digests[scan.file] = scan.digest, !.digest = None, !.read = None]
  BY <1>4, <1>6 DEF MemberHashed
<1>9. /\ scan' \in Scan /\ scan'.at = memo.at /\ scan'.left = memo.left /\ scan'.file = memo.file
      /\ scan'.unit = Tree /\ scan'.stamps = scan.stamps
      /\ scan'.digests = [scan.digests EXCEPT ![scan.file] = scan.digest]
      /\ scan'.seen = scan.seen /\ scan'.verifying = scan.verifying
      /\ scan'.bad = scan.bad /\ scan'.todo = scan.todo
  BY <1>2, <1>3, <1>7, <1>8 DEF Scan
<1>10. \A m \in Member \ left : Since(m, scan.stamps[m], scan'.digests[m])
  <2>1. \A m \in Member : scan'.digests[m] = IF m = scan.file THEN scan.digest ELSE scan.digests[m]
    BY <1>2, <1>9 DEF Scan
  <2>2. \A m \in Member \ scan.left : Since(m, scan.stamps[m], scan.digests[m])
    BY <1>1, <1>2 DEF TreeScan
  <2>3. QED
    BY <1>2, <1>4, <2>1, <2>2
<1>11. \A m \in Member : scan.stamps[m] \in Stamp /\ scan.stamps[m] <= StampOf(m)
  BY <1>1, <1>2 DEF TreeScan
<1>12. \E i \in Moments : Between(i)'
  <2>1. \A i \in Moments : Between(i) => Between(i)'
    BY <1>1, <1>7, <1>9 DEF Between
  <2>2. QED
    BY <1>1, <1>2, <2>1 DEF TreeScan
<1>13. TreeScan'
  BY <1>1, <1>7, <1>9, <1>10, <1>11, <1>12, SameTime DEF TreeScan, Hashing
<1>14. QED
  BY <1>1, <1>7, <1>9, <1>13, TreeQuiet DEF Reading, Hashing


LEMMA RelistKeepsInv ==
    ASSUME Inv, Relist
    PROVE  Inv'
<1>1. /\ Observes /\ timeline' = timeline /\ UNCHANGED <<rows, trees, selections>>
      /\ scan.at = "relist" /\ scan.at \in Reading /\ scan.unit = Tree /\ scan.left # {}
  BY DEF Relist, OnlyScan, Observes, Reading, Inv, Truth, Scanning, Hashing
<1>2. PICK n : n = Least(scan.left)
  OBVIOUS
<1>3. /\ n \in scan.left /\ n \in Member /\ n \in File
      /\ StampOf(n) \in Stamp /\ StampOf(n) \in Nat /\ TreeScan
  BY <1>1, <1>2, TreeFacts, FirstMember
<1>4. CASE StampOf(n) = scan.stamps[n]
  <2>1. scan' = [scan EXCEPT !.left = @ \ {n}]
    BY <1>2, <1>4 DEF Relist
  <2>2. /\ scan' \in Scan /\ scan'.at = "relist" /\ scan'.unit = Tree
        /\ scan'.left = scan.left \ {n} /\ scan'.stamps = scan.stamps
        /\ scan'.digests = scan.digests /\ scan'.seen = scan.seen
        /\ scan'.verifying = scan.verifying /\ scan'.bad = scan.bad /\ scan'.todo = scan.todo
    BY <1>1, <2>1 DEF Inv, TypeOK, Scan
  <2>3. Known(n, scan.stamps[n], scan.digests[n])
    <3>1. Since(n, scan.stamps[n], scan.digests[n])
      BY <1>1, <1>3 DEF TreeScan
    <3>2. QED
      BY <1>3, <1>4, <3>1, SettledContent DEF Inv, TypeOK, Truth
  <2>4. ASSUME NEW i \in Moments, Between(i) PROVE Between(i)'
    <3>1. /\ scan.stamps[n] <= timeline[i][n].stamp /\ timeline[i][n].stamp <= StampOf(n)
          /\ timeline[i][n].stamp \in Nat
      BY <1>3, <2>4, HistoryFacts, FileFacts DEF Between, Inv, TypeOK, Truth
    <3>2. timeline[i][n].stamp = scan.stamps[n]
      BY <1>3, <1>4, <3>1
    <3>3. QED
      BY <1>1, <2>2, <2>4, <3>2 DEF Between
  <2>5. \E i \in Moments : Between(i)'
    BY <1>1, <1>3, <2>4 DEF TreeScan
  <2>6. \A m \in Member \ scan'.left : Known(m, scan.stamps[m], scan.digests[m])
    BY <1>1, <1>3, <2>2, <2>3 DEF TreeScan
  <2>7. TreeScan'
    BY <1>1, <1>3, <2>2, <2>5, <2>6, SameTime DEF TreeScan, Hashing
  <2>8. QED
    BY <1>1, <2>2, <2>7, TreeQuiet
<1>5. CASE StampOf(n) # scan.stamps[n]
  <2>1. scan' = Unavailable
    BY <1>2, <1>5 DEF Relist
  <2>2. QED
    BY <1>1, <2>1, UnavailableKeepsInv
<1>6. QED
  BY <1>4, <1>5

\* The directory had all the contents that were read at one moment between the
\* two listings.
LEMMA RelistedKeepsInv ==
    ASSUME Inv, Relisted
    PROVE  Inv'
<1>1. /\ Observes /\ timeline' = timeline /\ UNCHANGED <<rows, selections>>
      /\ scan.at = "relist" /\ scan.at \in Reading /\ scan.unit = Tree /\ scan.left = {}
      /\ scan' = Seen(None, scan.digests)
  BY DEF Relisted, OnlyScan, Observes, Reading, Inv, Truth, Scanning, Hashing
<1>2. PICK i \in Moments : Between(i)
  BY <1>1, TreeFacts DEF TreeScan
<1>3. \A m \in Member :
        /\ Known(m, scan.stamps[m], scan.digests[m]) /\ scan.stamps[m] \in Stamp
        /\ timeline[i][m].stamp = scan.stamps[m]
  BY <1>1, <1>2, TreeFacts DEF TreeScan, Between
<1>4. \A m \in Member :
        /\ timeline[i][m] = [stamp |-> scan.stamps[m], content |-> scan.digests[m]]
        /\ scan.digests[m] \in Content
  BY <1>3, HistoryFacts, FileFacts DEF Inv, TypeOK, Truth
<1>5. scan.stamps \in [Member -> Stamp] /\ scan.digests \in [Member -> Content]
  BY <1>3, <1>4 DEF Inv, TypeOK, Scan
<1>6. PICK row : row = [stamp |-> scan.stamps, digest |-> scan.digests]
  OBVIOUS
<1>7. row \in TreeRow /\ row.stamp = scan.stamps /\ row.digest = scan.digests
  BY <1>5, <1>6 DEF TreeRow
<1>8. trees' = row \/ trees' = trees
  BY <1>6 DEF Relisted
<1>9. TreesTrue'
  <2>1. CASE trees' = row
    <3>1. \A m \in Member : timeline[i][m] = [stamp |-> row.stamp[m], content |-> row.digest[m]]
      BY <1>4, <1>7
    <3>2. QED
      BY <1>1, <2>1, <3>1, SameTime DEF TreesTrue
  <2>2. CASE trees' = trees
    BY <1>1, <2>2, SameTime DEF Inv, Truth, CachesTrue, TreesTrue
  <2>3. QED
    BY <1>8, <2>1, <2>2
<1>10. RowsTrue' /\ SelectionsTrue'
  BY <1>1, SameTime DEF Inv, Truth, CachesTrue, RowsTrue, SelectionsTrue, Stored
<1>11. CachesTrue' /\ ObservationTypeOK'
  BY <1>1, <1>7, <1>8, <1>9, <1>10 DEF CachesTrue, Inv, TypeOK, ObservationTypeOK
<1>12. ASSUME NEW m \in Member PROVE timeline[i][m].content = scan.digests[m]
  <2>1. timeline[i][m] = [stamp |-> scan.stamps[m], content |-> scan.digests[m]]
    BY <1>4
  <2>2. QED
    BY <2>1
<1>13. scan' \in Scan
  BY <1>1, <1>5, SeenFacts, FileFacts DEF Inv, TypeOK
<1>14. QED
  BY <1>1, <1>5, <1>11, <1>12, <1>13, SeenKeepsInv, FileFacts


-----------------------------------------------------------------------------
(* The lock of the log *)

LEMMA TaskFacts ==
    /\ \A t \in Task : Op[t].reads \in SUBSET Unit
    /\ None \notin Task
BY ValidationAssumption

LEMMA ResearchType ==
    ASSUME Inv
    PROVE  ResearchNow \in [Research -> Stamp] /\ \A f \in Research : ResearchNow[f] <= StampOf(f)
<1>1. \A f \in Research : StampOf(f) \in Stamp /\ StampOf(f) <= StampOf(f)
  <2>1. SUFFICES ASSUME NEW f \in Research PROVE StampOf(f) \in Stamp /\ StampOf(f) <= StampOf(f)
    OBVIOUS
  <2>2. StampOf(f) \in Stamp /\ StampOf(f) \in Nat
    BY HistoryFacts, FileFacts DEF Inv, TypeOK, Truth
  <2>3. QED
    BY <2>2
<1>2. QED
  BY <1>1 DEF ResearchNow

LEMMA SameResults ==
    ASSUME Inv, timeline' = timeline, results' = results
    PROVE  CutsTrue'
<1>1. Snapshots' = Snapshots
  BY DEF Snapshots
<1>2. QED
  BY <1>1, SameTime DEF Inv, Truth, CutsTrue

\* The others come and go while the lock is held.
LEMMA WaitKeepsInv ==
    ASSUME Inv, NEW t \in Task, Look(t) \/ Refuse(t)
    PROVE  Inv'
<1>1. /\ UNCHANGED <<timeline, rows, trees, selections, lock, scan, generations, results, report>>
      /\ pc[t] # "busy"
  BY DEF Look, Refuse, Waiting, memory
<1>2. PICK p \in {"looked", "refused"} : pc' = [pc EXCEPT ![t] = p]
  BY DEF Look, Refuse
<1>3. PICK r \in [Research -> Stamp] \cup {None} : start' = [start EXCEPT ![t] = r]
  BY ResearchType DEF Look, Refuse
<1>4. lock = None \/ lock # t
  BY <1>1, TaskFacts DEF Inv, Holding
<1>5. TypeOK'
  <2>1. /\ pc' \in [Task -> {"idle", "looked", "busy", "done", "refused", "failed", "dead"}]
        /\ start' \in [Task -> [Research -> Stamp] \cup {None}]
    BY <1>2, <1>3 DEF Inv, TypeOK
  <2>2. QED
    BY <1>1, <2>1 DEF Inv, TypeOK, ObservationTypeOK
<1>6. Holding' /\ Reporting'
  BY <1>1, <1>2, <1>4 DEF Inv, TypeOK, Holding, Reporting, MarkedReportIsExact, ShownCurrent
<1>7. History' /\ CachesTrue' /\ CutsTrue'
  BY <1>1, SameTime, CachesKept, SameResults DEF Inv, Truth
<1>8. Scanning'
  <2>1. SourceScan => SourceScan'
    BY <1>1, SameTime DEF SourceScan
  <2>2. \A i \in Moments : Between(i) => Between(i)'
    BY <1>1 DEF Between
  <2>3. TreeScan => TreeScan'
    BY <1>1, <2>2, SameTime DEF TreeScan
  <2>4. QED
    BY <1>1, <2>1, <2>3 DEF Inv, Truth, Scanning
<1>9. SeenTrue'
  BY <1>1, SameTime DEF Inv, Truth, SeenTrue
<1>10. Started'
  <2>1. scan.at \in Observing => lock \in Task /\ lock # t /\ start'[lock] = start[lock]
    BY <1>3, <1>4, TaskFacts DEF Inv, TypeOK, Holding, Observing, Reading, Hashing
  <2>2. QED
    BY <1>1, <2>1, SameTime DEF Inv, Truth, Started
<1>11. Verification'
  <2>1. \A i \in Moments : Verified(i) => Verified(i)'
    BY <1>1 DEF Verified
  <2>2. QED
    BY <1>1, <2>1, SameTime DEF Inv, Truth, Verification
<1>12. QED
  BY <1>5, <1>6, <1>7, <1>8, <1>9, <1>10, <1>11 DEF Inv, Truth

LEMMA BeginKeepsInv ==
    ASSUME Inv, NEW t \in Task, Begin(t)
    PROVE  Inv'
<1>1. /\ UNCHANGED <<timeline, rows, trees, selections, results, report>>
      /\ lock' = t /\ pc' = [pc EXCEPT ![t] = "busy"] /\ start' = [start EXCEPT ![t] = ResearchNow]
      /\ generations' \in Nat /\ generations \in Nat
      /\ scan' = [NoScan EXCEPT !.at = "next", !.todo = Op[t].reads, !.run = generations]
  BY DEF Begin, memory, Inv, TypeOK
<1>2. /\ scan' \in Scan /\ scan'.at = "next" /\ scan'.seen = NoScan.seen
      /\ scan'.verifying = NoScan.verifying
  BY <1>1, NoScanFacts, TaskFacts DEF Scan, Stage
<1>3. ~ scan'.verifying /\ \A u \in Unit : scan'.seen[u] = None
  BY <1>2 DEF NoScan
<1>4. TypeOK'
  BY <1>1, <1>2, ResearchType DEF Inv, TypeOK, ObservationTypeOK
<1>5. Holding' /\ Reporting'
  BY <1>1, <1>2 DEF Inv, TypeOK, Holding, Reporting, MarkedReportIsExact, ShownCurrent
<1>6. History' /\ CachesTrue' /\ CutsTrue'
  BY <1>1, SameTime, CachesKept, SameResults DEF Inv, Truth
<1>7. Scanning' /\ Verification'
  BY <1>2, <1>3 DEF Scanning, Verification, Reading, Hashing
<1>8. SeenTrue'
  BY <1>3, FileFacts DEF SeenTrue
<1>9. Started'
  <2>1. start'[t] = ResearchNow
    BY <1>1 DEF Inv, TypeOK
  <2>2. QED
    BY <1>1, <1>3, <2>1, ResearchType, SameTime, FileFacts DEF Started
<1>10. QED
  BY <1>4, <1>5, <1>6, <1>7, <1>8, <1>9 DEF Inv, Truth

\* Outside of an observation nothing is claimed of what was seen but its truth.
LEMMA IdleScan ==
    ASSUME Inv, timeline' = timeline, scan'.at \notin Observing,
           scan'.seen = scan.seen \/ \A u \in Unit : scan'.seen[u] = None
    PROVE  History' /\ Scanning' /\ SeenTrue' /\ Started' /\ Verification'
<1>1. History'
  BY SameTime DEF Inv, Truth
<1>2. Scanning' /\ Started' /\ Verification'
  BY DEF Scanning, Started, Verification, Observing
<1>3. CASE scan'.seen = scan.seen
  <2>1. \A u \in Source \cup Document :
            scan'.seen[u] # None => Known(u, scan.seen[u].stamp, scan.seen[u].value)'
    BY <1>3, SameTime DEF Inv, Truth, SeenTrue
  <2>2. SeenTrue'
    BY <1>3, <2>1, SameTime DEF Inv, Truth, SeenTrue
  <2>3. QED
    BY <1>1, <1>2, <2>2
<1>4. CASE \A u \in Unit : scan'.seen[u] = None
  BY <1>1, <1>2, <1>4, FileFacts DEF SeenTrue
<1>5. QED
  BY <1>3, <1>4

LEMMA BeginRenderKeepsInv ==
    ASSUME Inv, NEW t \in Task, BeginRender(t)
    PROVE  Inv'
<1>1. /\ UNCHANGED <<timeline, rows, trees, selections, start, generations, results, report>>
      /\ lock' = t /\ pc' = [pc EXCEPT ![t] = "busy"] /\ results.full # None
      /\ scan' = [NoScan EXCEPT !.at = "compose", !.generation = results.generation]
      /\ results.generation \in Nat
  BY DEF BeginRender, memory, Inv, TypeOK
<1>2. scan' \in Scan /\ scan'.at = "compose" /\ scan'.seen = NoScan.seen
  BY <1>1, NoScanFacts DEF Scan, Stage
<1>3. /\ \A u \in Unit : scan'.seen[u] = None
      /\ scan'.at \notin Observing
  BY <1>2, NoScanFacts DEF Observing, Reading, Hashing
<1>4. TypeOK'
  BY <1>1, <1>2 DEF Inv, TypeOK, ObservationTypeOK
<1>5. Holding' /\ Reporting'
  BY <1>1, <1>2 DEF Inv, TypeOK, Holding, Reporting, MarkedReportIsExact, ShownCurrent
<1>6. QED
  BY <1>1, <1>3, <1>4, <1>5, IdleScan, CachesKept, SameResults DEF Inv, Truth


-----------------------------------------------------------------------------
(* Results and report *)

LEMMA SnapshotFacts ==
    ASSUME Inv, scan.at = "publish"
    PROVE  /\ NewSnapshot \in Snapshot /\ NewSnapshot.generation # 0
           /\ NewSnapshot.generation \in Nat
           /\ Cut(NewSnapshot)
<1>1. lock \in Task /\ results.generation + 1 \in Nat /\ results.generation + 1 # 0
  BY DEF Inv, TypeOK, Holding
<1>2. /\ scan.seen \in [Unit -> Observed \cup {None}] /\ scan.bad \in BOOLEAN
      /\ scan.verifying /\ scan.todo = {}
  BY DEF Inv, TypeOK, Scan, Truth, Verification
<1>3. PICK S : S = {v \in Unit : scan.seen[v] # None}
  OBVIOUS
<1>4. /\ S \in SUBSET Unit /\ Values = [u \in S |-> scan.seen[u].value]
      /\ \A u \in S : scan.seen[u] # None /\ scan.seen[u].value \in Content \cup [Member -> Content]
  BY <1>2, <1>3 DEF Values, Observed
<1>5. Values \in [S -> Content \cup [Member -> Content]]
  BY <1>4
<1>6. Values \in UNION {[T -> Content \cup [Member -> Content]] : T \in SUBSET Unit}
  BY <1>4, <1>5
<1>7. PICK vals : vals = Values
  OBVIOUS
<1>8. NewSnapshot = [id |-> lock, generation |-> results.generation + 1, values |-> vals, clear |-> ~ scan.bad]
  BY <1>7 DEF NewSnapshot
<1>9. /\ NewSnapshot \in Snapshot /\ NewSnapshot.generation = results.generation + 1
      /\ NewSnapshot.values = vals /\ NewSnapshot.clear = ~ scan.bad
  BY <1>1, <1>2, <1>6, <1>7, <1>8 DEF Snapshot
<1>10. DOMAIN vals = S /\ \A u \in S : vals[u] = scan.seen[u].value
  BY <1>4, <1>7
<1>11. ASSUME ~ scan.bad
       PROVE \E i \in Moments : \A u \in DOMAIN vals \ {Tree} : timeline[i][u].content = vals[u]
  <2>1. PICK i \in Moments : Verified(i)
    BY <1>2, <1>11 DEF Inv, Truth, Verification, Observing
  <2>2. ASSUME NEW u \in S \ {Tree} PROVE timeline[i][u].content = vals[u]
    <3>1. u \in Source \cup Document /\ u \in File /\ scan.seen[u] # None
      BY <1>4, <2>2, FileFacts DEF Unit
    <3>2. Known(u, scan.seen[u].stamp, scan.seen[u].value)
      BY <3>1 DEF Inv, Truth, SeenTrue
    <3>3. timeline[i][u].stamp = scan.seen[u].stamp
      BY <1>2, <2>1, <3>1 DEF Verified
    <3>4. timeline[i][u] = [stamp |-> scan.seen[u].stamp, content |-> scan.seen[u].value]
      BY <3>1, <3>2, <3>3, HistoryFacts DEF Inv, TypeOK, Truth
    <3>5. QED
      BY <1>10, <3>4
  <2>3. QED
    BY <1>10, <2>2
<1>12. ASSUME Tree \in DOMAIN vals
       PROVE \E i \in Moments : \A m \in Member : timeline[i][m].content = vals[Tree][m]
  BY <1>4, <1>10, <1>12 DEF Inv, Truth, SeenTrue
<1>13. Cut(NewSnapshot)
  BY <1>9, <1>11, <1>12 DEF Cut
<1>14. QED
  BY <1>1, <1>9, <1>13

LEMMA PublishKeepsInv ==
    ASSUME Inv, lock # None, Publish
    PROVE  Inv'
<1>1. /\ UNCHANGED <<timeline, rows, trees, selections, generations, report>>
      /\ scan.at = "publish" /\ results' = StoreSnapshot(NewSnapshot)
  BY DEF Publish, memory
<1>2. PICK s : s = NewSnapshot
  OBVIOUS
<1>3. s \in Snapshot /\ s.generation \in Nat /\ s.generation # 0 /\ Cut(s)
  BY <1>1, <1>2, SnapshotFacts
<1>4. results \in Saved
  BY DEF Inv, TypeOK, Saved
<1>5. /\ results' \in Saved /\ results'.marker = 0
      /\ results'.full = IF Whole(s.id) THEN s ELSE results.full
      /\ \A e \in Entry : results'.entries[e] \in {None, s, results.entries[e]}
  BY <1>1, <1>2, <1>3, <1>4 DEF StoreSnapshot, Saved
<1>6. /\ results'.full # None => results'.full.generation # 0
      /\ MarkedReportIsExact'
  BY <1>3, <1>5 DEF Inv, Reporting, MarkedReportIsExact, ShownCurrent
<1>7. CutsTrue'
  <2>1. \A x \in Snapshots' : x = s \/ x \in Snapshots
    BY <1>5 DEF Snapshots
  <2>2. QED
    BY <1>1, <1>3, <2>1, SameTime DEF Inv, Truth, CutsTrue
<1>8. CachesTrue' /\ ObservationTypeOK' /\ report' \in Task \cup {None}
  BY <1>1, CachesKept DEF Inv, TypeOK
<1>9. CASE Whole(lock)
  <2>1. /\ scan' = [scan EXCEPT !.at = "compose", !.generation = results'.generation]
        /\ UNCHANGED <<lock, pc, start>>
    BY <1>9 DEF Publish
  <2>2. results'.generation \in Nat
    BY <1>5 DEF Saved
  <2>3. scan' \in Scan /\ scan'.at = "compose" /\ scan'.seen = scan.seen
    BY <2>1, <2>2 DEF Inv, TypeOK, Scan, Stage
  <2>4. TypeOK'
    BY <1>1, <1>5, <1>8, <2>1, <2>3 DEF Inv, TypeOK, Saved
  <2>5. s.id = lock
    BY <1>2 DEF NewSnapshot
  <2>6. Holding'
    BY <1>1, <2>1 DEF Inv, Holding
  <2>7. results'.full = s /\ scan'.at # "mark" /\ results'.full.generation # 0
    BY <1>3, <1>5, <1>9, <2>3, <2>5
  <2>8. Reporting'
    BY <1>3, <1>6, <2>3, <2>7 DEF Reporting
  <2>9. scan'.at \notin Observing
    BY <2>3 DEF Observing, Reading, Hashing
  <2>10. QED
    BY <1>1, <1>7, <1>8, <2>3, <2>4, <2>6, <2>8, <2>9, IdleScan DEF Inv, Truth
<1>10. CASE ~ Whole(lock)
  <2>1. End("done")
    BY <1>10 DEF Publish
  <2>2. QED
    BY <1>1, <1>5, <1>6, <1>7, <1>8, <2>1, EndKeepsInv
<1>11. QED
  BY <1>9, <1>10


\* A report is written for the snapshot of the log, and only then marked.
LEMMA WriteReportKeepsInv ==
    ASSUME Inv, WriteReport
    PROVE  Inv'
<1>1. /\ UNCHANGED <<timeline, rows, trees, selections, lock, pc, start, generations, results>>
      /\ scan.at = "compose" /\ report' = results.full.id /\ scan' = [scan EXCEPT !.at = "mark"]
      /\ results.full \in Snapshot
  BY DEF WriteReport, memory, Goto, Inv, Reporting
<1>2. results.full.id \in Task
  BY <1>1 DEF Snapshot
<1>3. scan' \in Scan /\ scan'.at = "mark" /\ scan'.seen = scan.seen
  BY <1>1 DEF Inv, TypeOK, Scan, Stage
<1>4. TypeOK'
  BY <1>1, <1>2, <1>3 DEF Inv, TypeOK, ObservationTypeOK
<1>5. Holding' /\ Reporting'
  BY <1>1, <1>3 DEF Inv, Holding, Reporting, MarkedReportIsExact, ShownCurrent
<1>6. scan'.at \notin Observing
  BY <1>3 DEF Observing, Reading, Hashing
<1>7. QED
  BY <1>1, <1>3, <1>4, <1>5, <1>6, IdleScan, CachesKept, SameResults DEF Inv, Truth

LEMMA ReportFailsKeepsInv ==
    ASSUME Inv, lock # None, ReportFails
    PROVE  Inv'
<1>1. /\ UNCHANGED <<timeline, rows, trees, selections, generations, results>>
      /\ End("failed") /\ (report' = report \/ report' = results.full.id)
      /\ results.full \in Snapshot
  BY DEF ReportFails, memory, Inv, Reporting
<1>2. report' \in Task \cup {None}
  BY <1>1 DEF Snapshot, Inv, TypeOK
<1>3. /\ results' \in Saved /\ MarkedReportIsExact'
      /\ results'.full # None => results'.full.generation # 0
  BY <1>1 DEF Inv, TypeOK, Saved, Reporting, MarkedReportIsExact, ShownCurrent
<1>4. QED
  BY <1>1, <1>2, <1>3, CachesKept, SameResults, EndKeepsInv

LEMMA MarkKeepsInv ==
    ASSUME Inv, lock # None, Mark
    PROVE  Inv'
<1>1. /\ UNCHANGED <<timeline, rows, trees, selections, generations, report>>
      /\ scan.at = "mark" /\ report = results.full.id /\ scan.generation \in Nat
      /\ results \in Saved
  BY DEF Mark, memory, Inv, Reporting, TypeOK, Saved, Scan
<1>2. results' = results \/ results' = [results EXCEPT !.marker = scan.generation]
  BY DEF Mark
<1>3. results' \in Saved /\ results'.full = results.full /\ results'.entries = results.entries
  BY <1>1, <1>2 DEF Saved
<1>4. /\ MarkedReportIsExact'
      /\ results'.full # None => results'.full.generation # 0
  BY <1>1, <1>3 DEF Inv, Reporting, MarkedReportIsExact
<1>5. CutsTrue'
  <2>1. Snapshots' = Snapshots
    BY <1>3 DEF Snapshots
  <2>2. QED
    BY <1>1, <2>1, SameTime DEF Inv, Truth, CutsTrue
<1>6. CachesTrue' /\ ObservationTypeOK'
  BY <1>1, CachesKept
<1>7. CASE Goto("finish") /\ UNCHANGED <<lock, pc, start>>
  <2>1. scan' \in Scan /\ scan'.at = "finish" /\ scan'.seen = scan.seen
    BY <1>7 DEF Goto, Inv, TypeOK, Scan, Stage
  <2>2. TypeOK'
    BY <1>1, <1>3, <1>6, <1>7, <2>1 DEF Inv, TypeOK, Saved
  <2>3. Holding' /\ Reporting'
    BY <1>1, <1>3, <1>4, <1>7, <2>1 DEF Inv, Holding, Reporting
  <2>4. scan'.at \notin Observing
    BY <2>1 DEF Observing, Reading, Hashing
  <2>5. QED
    BY <1>1, <1>5, <1>6, <2>1, <2>2, <2>3, <2>4, IdleScan DEF Inv, Truth
<1>8. CASE End("done")
  <2>1. report' \in Task \cup {None}
    BY <1>1 DEF Inv, TypeOK
  <2>2. QED
    BY <1>1, <1>3, <1>4, <1>5, <1>6, <1>8, <2>1, EndKeepsInv
<1>9. QED
  BY <1>7, <1>8 DEF Mark

LEMMA FinishKeepsInv ==
    ASSUME Inv, lock # None, Finish
    PROVE  Inv'
<1>1. /\ UNCHANGED <<timeline, rows, trees, generations, results, report>> /\ End("done")
      /\ selections' = Retained(scan.used, scan.run) /\ scan.run \in Nat
      /\ selections \in [Content -> Selection \cup {None}]
  BY DEF Finish, Inv, TypeOK, ObservationTypeOK, Scan
<1>2. ASSUME NEW c \in Content
      PROVE  /\ selections'[c] \in Selection \cup {None}
             /\ selections'[c] # None => selections[c] # None /\ selections'[c].value = selections[c].value
  <2>1. selections'[c] \in {None, selections[c], [selections[c] EXCEPT !.generation = scan.run]}
    BY <1>1 DEF Retained
  <2>2. CASE selections[c] = None
    BY <1>1, <2>2 DEF Retained
  <2>3. CASE selections[c] # None
    BY <1>1, <2>1, <2>3 DEF Selection
  <2>4. QED
    BY <2>2, <2>3
<1>3. selections' \in [Content -> Selection \cup {None}]
  <2>1. selections' = [c \in Content |-> selections'[c]]
    BY <1>1 DEF Retained
  <2>2. QED
    BY <1>2, <2>1
<1>4. CachesTrue' /\ ObservationTypeOK'
  <2>1. RowsTrue' /\ TreesTrue'
    BY <1>1, SameTime DEF Inv, Truth, CachesTrue, RowsTrue, TreesTrue
  <2>2. SelectionsTrue'
    BY <1>2 DEF Inv, Truth, CachesTrue, SelectionsTrue, Stored
  <2>3. QED
    BY <1>1, <1>3, <2>1, <2>2 DEF CachesTrue, Inv, TypeOK, ObservationTypeOK
<1>5. /\ results' \in Saved /\ report' \in Task \cup {None}
      /\ results'.full # None => results'.full.generation # 0
      /\ MarkedReportIsExact'
  BY <1>1 DEF Inv, TypeOK, Saved, Reporting, MarkedReportIsExact, ShownCurrent
<1>6. QED
  BY <1>1, <1>4, <1>5, SameResults, EndKeepsInv


-----------------------------------------------------------------------------
(* The specification *)

LEMMA InitInv == Init => Inv
<1> SUFFICES ASSUME Init PROVE Inv
  OBVIOUS
<1>1. PICK d \in Content :
        /\ timeline = <<[f \in File |-> [stamp |-> 0, content |-> d]]>>
        /\ rows = [f \in File |-> None] /\ trees = None /\ selections = [c \in Content |-> None]
  BY DEF Init, ObservationInit
<1>2. 0 \in Stamp /\ MaxEdits \in Nat
  BY ObservationAssumption DEF Stamp
<1>3. PICK first : first = [f \in File |-> [stamp |-> 0, content |-> d]]
  OBVIOUS
<1>4. first \in Moment /\ timeline = <<first>>
  BY <1>1, <1>2, <1>3 DEF Moment
<1>5. timeline \in Seq(Moment) /\ Len(timeline) = 1 /\ timeline[1] = first
  BY <1>4
<1>6. Moments = {1}
  BY <1>5 DEF Moments
<1>7. TypeOK
  BY <1>1, <1>2, <1>5, NoScanFacts DEF Init, TypeOK, ObservationTypeOK
<1>8. \A f \in File : Known(f, 0, d) /\ timeline[1][f].stamp = 0 /\ timeline[1][f].content = d
  BY <1>2, <1>3, <1>5, <1>6 DEF Known
<1>9. History
  BY <1>6, <1>8 DEF History
<1>10. CachesTrue
  BY <1>1 DEF CachesTrue, RowsTrue, TreesTrue, SelectionsTrue, Stored
<1>11. scan.at = "off" /\ \A u \in Unit : scan.seen[u] = None
  BY NoScanFacts DEF Init
<1>12. Scanning /\ SeenTrue /\ Started /\ Verification
  BY <1>11, FileFacts DEF Scanning, SeenTrue, Started, Verification, Observing, Reading, Hashing
<1>13. CutsTrue
  BY DEF Init, CutsTrue, Snapshots
<1>14. Holding /\ Reporting
  BY <1>11 DEF Init, Holding, Reporting, MarkedReportIsExact, ShownCurrent
<1>15. QED
  BY <1>7, <1>9, <1>10, <1>12, <1>13, <1>14 DEF Inv, Truth

LEMMA ObserveKeepsInv ==
    ASSUME Inv, lock # None, Observe
    PROVE  Inv'
<1>1. CASE \E f \in File : ReadDocument(f) \/ ObserveSource(f) \/ VerifySource(f)
  BY <1>1, ReadDocumentKeepsInv, ObserveSourceKeepsInv, VerifySourceKeepsInv
<1>2. CASE ObserveTree \/ List \/ Listed \/ MemberHashed \/ Relist \/ Relisted
  BY <1>2, ObserveTreeKeepsInv, ListKeepsInv, ListedKeepsInv, MemberHashedKeepsInv,
     RelistKeepsInv, RelistedKeepsInv
<1>3. CASE ReuseFile \/ HashFile \/ EndHash \/ LookUp \/ Load \/ Evaluate
  BY <1>3, ReuseFileKeepsInv, HashFileKeepsInv, EndHashKeepsInv, LookUpKeepsInv,
     LoadKeepsInv, EvaluateKeepsInv
<1>4. CASE BeginVerification \/ EndScan
  BY <1>4, BeginVerificationKeepsInv, EndScanKeepsInv
<1>5. QED
  BY <1>1, <1>2, <1>3, <1>4 DEF Observe

LEMMA ReportKeepsInv ==
    ASSUME Inv, lock # None, Report \/ Die
    PROVE  Inv'
<1>1. CASE Publish \/ WriteReport \/ ReportFails \/ Mark \/ Finish
  BY <1>1, PublishKeepsInv, WriteReportKeepsInv, ReportFailsKeepsInv, MarkKeepsInv, FinishKeepsInv
<1>2. CASE PublishFails
  BY <1>2, OnlyEndKeepsInv DEF PublishFails, Fail
<1>3. CASE Die
  BY <1>3, OnlyEndKeepsInv DEF Die
<1>4. QED
  BY <1>1, <1>2, <1>3 DEF Report

LEMMA StutterKeepsInv ==
    ASSUME Inv, UNCHANGED vars
    PROVE  Inv'
<1>1. UNCHANGED <<timeline, rows, trees, selections, lock, pc, start, scan, generations, results, report>>
  BY DEF vars, memory
<1>2. TypeOK'
  BY <1>1 DEF Inv, TypeOK, ObservationTypeOK
<1>3. Holding' /\ Reporting'
  BY <1>1 DEF Inv, Holding, Reporting, MarkedReportIsExact, ShownCurrent
<1>4. History' /\ CachesTrue' /\ CutsTrue'
  BY <1>1, SameTime, CachesKept, SameResults DEF Inv, Truth
<1>5. Scanning'
  <2>1. SourceScan => SourceScan'
    BY <1>1, SameTime DEF SourceScan
  <2>2. \A i \in Moments : Between(i) => Between(i)'
    BY <1>1 DEF Between
  <2>3. TreeScan => TreeScan'
    BY <1>1, <2>2, SameTime DEF TreeScan
  <2>4. QED
    BY <1>1, <2>1, <2>3 DEF Inv, Truth, Scanning
<1>6. SeenTrue' /\ Started'
  BY <1>1, SameTime DEF Inv, Truth, SeenTrue, Started
<1>7. Verification'
  <2>1. \A i \in Moments : Verified(i) => Verified(i)'
    BY <1>1 DEF Verified
  <2>2. QED
    BY <1>1, <2>1, SameTime DEF Inv, Truth, Verification
<1>8. QED
  BY <1>2, <1>3, <1>4, <1>5, <1>6, <1>7 DEF Inv, Truth

LEMMA NextKeepsInv == Inv /\ [Next]_vars => Inv'
<1>1. ASSUME Inv, Author PROVE Inv'
  BY <1>1, AuthorKeepsInv
<1>2. ASSUME Inv, NEW t \in Task, Look(t) \/ Refuse(t) \/ Begin(t) \/ BeginRender(t) PROVE Inv'
  BY <1>2, WaitKeepsInv, BeginKeepsInv, BeginRenderKeepsInv
<1>3. ASSUME Inv, lock # None, Observe \/ Report \/ Die PROVE Inv'
  BY <1>3, ObserveKeepsInv, ReportKeepsInv
<1>4. ASSUME Inv, UNCHANGED vars PROVE Inv'
  BY <1>4, StutterKeepsInv
<1>5. QED
  BY <1>1, <1>2, <1>3, <1>4 DEF Next

\* The results in terms of the properties.
LEMMA InvImplies == Inv => TypeOK /\ CachesAreTrue /\ SnapshotsAreCuts /\ MarkedReportIsExact
<1>1. SUFFICES ASSUME Inv PROVE TypeOK /\ CachesAreTrue /\ SnapshotsAreCuts /\ MarkedReportIsExact
  OBVIOUS
<1>2. DOMAIN timeline = Moments
  BY <1>1 DEF Inv, TypeOK, ObservationTypeOK, Moments
<1>3. CachesAreTrue
  <2>1. ASSUME NEW f \in File, rows[f] # None
        PROVE  timeline[rows[f].stamp + 1][f].content = rows[f].digest
    <3>1. timeline[rows[f].stamp + 1][f] = [stamp |-> rows[f].stamp, content |-> rows[f].digest]
      BY <1>1, <2>1 DEF Inv, Truth, CachesTrue, RowsTrue, Known
    <3>2. QED
      BY <3>1
  <2>2. QED
    BY <1>1, <1>2, <2>1 DEF CachesAreTrue, Inv, Truth, CachesTrue, TreesTrue, SelectionsTrue
<1>4. SnapshotsAreCuts
  BY <1>1, <1>2 DEF SnapshotsAreCuts, Inv, Truth, CutsTrue, Cut
<1>5. QED
  BY <1>1, <1>3, <1>4 DEF Inv, Reporting

\* The values of all variables stay within those the code writes.
THEOREM TypeAlways == Spec => []TypeOK
BY InitInv, NextKeepsInv, InvImplies, PTL DEF Spec

\* A cached fingerprint or selection is that of the content the file had under
\* the identity it is stored for, whoever edits what while it is read.
THEOREM CachesAlwaysTrue == Spec => []CachesAreTrue
BY InitInv, NextKeepsInv, InvImplies, PTL DEF Spec

\* A saved validation without failed checks speaks of sources and documents that
\* existed together, and of an input that existed.
THEOREM SnapshotsAlwaysCuts == Spec => []SnapshotsAreCuts
BY InitInv, NextKeepsInv, InvImplies, PTL DEF Spec

\* A report that is called current is that of the saved validation.
THEOREM ReportAlwaysExact == Spec => []MarkedReportIsExact
BY InitInv, NextKeepsInv, InvImplies, PTL DEF Spec


=============================================================================
